---------------------------- MODULE DriverProofs ----------------------------
(***************************************************************************)
(* The drivers.  For every number of frames and any MTRRs: mmtest_mmap()   *)
(* maps what was asked for, and what fails leaves nothing behind.  For     *)
(* every set of processes and any page tables: what a process reads of     *)
(* addrmap is one address and its place in its own page table.  For every  *)
(* number of banks, pages, tries and sleeps: unloading abs_diag pulls      *)
(* nothing away from its thread or from a call of the program, and the     *)
(* spill and tag test has its pages and its state for itself.              *)
(***************************************************************************)
EXTENDS CharDevice, AddrMap, AbsDiag, FiniteSetTheorems, SequenceTheorems, TLAPS

-----------------------------------------------------------------------------
(* memtest *)

N == Cardinality(Frames)

LEMMA FrameNumbers ==
  /\ N \in Nat \ {0} /\ Frames = 0..(N - 1) /\ VmStart \in Nat
  /\ VirtualPages = VmStart..(VmStart + 3 * N)
  /\ MTRR_MAX_VAR_RANGES \in Nat \ {0}
BY CharDeviceAssumption, FS_CardinalityType, FS_EmptySet DEF N, VirtualPages

LEMMA RequestNumbers ==
  ASSUME asked \in Requests
  PROVE  /\ asked.start_pfn \in 0..(N - 1) /\ asked.pages \in 1..N
         /\ asked.start_pfn + asked.pages <= N
         /\ Original \in [vm_start: VirtualPages, vm_end: VirtualPages, vm_pgoff: Frames]
         /\ Original.vm_start = VmStart /\ Original.vm_end = VmStart + asked.pages
<1>1. /\ asked.start_pfn \in 0..(N - 1) /\ asked.pages \in 1..N
      /\ asked.start_pfn + asked.pages <= N /\ asked.start_pfn \in Frames
  BY FrameNumbers DEF Requests, N
<1>2. VmStart \in VirtualPages /\ VmStart + asked.pages \in VirtualPages
  BY <1>1, FrameNumbers
<1>3. asked.start_pfn \in Frames
  BY <1>1
<1>4. Original = [vm_start |-> VmStart, vm_end |-> VmStart + asked.pages, vm_pgoff |-> asked.start_pfn]
  BY DEF Original
<1> QED BY <1>1, <1>2, <1>3, <1>4

LEMMA RangeNumbers ==
  ASSUME mtrr \in [1..MTRR_MAX_VAR_RANGES -> MTRRs], NEW m \in 1..MTRR_MAX_VAR_RANGES
  PROVE  mtrr[m].base \in Nat /\ mtrr[m].base \in Frames /\ Size(mtrr[m]) \in Nat /\ mtrr[m].valid \in BOOLEAN
<1>1. mtrr[m] \in MTRRs
  OBVIOUS
<1>2. mtrr[m] \in [valid: BOOLEAN, base: Frames, mask: SUBSET Nat] /\ Size(mtrr[m]) \in Nat
  BY <1>1, CharDeviceAssumption
<1>3. mtrr[m].base \in Frames /\ Size(mtrr[m]) \in Nat /\ mtrr[m].valid \in BOOLEAN
  BY <1>2
<1>4. mtrr[m].base \in Nat
  BY <1>3, FrameNumbers
<1> QED BY <1>3, <1>4

LEMMA Overlap ==
  ASSUME NEW s \in Nat, NEW e \in Nat, NEW b \in Nat, NEW t \in Nat, s < e,
         NEW ms, ms = (IF s > b THEN s ELSE b), NEW me, me = (IF e > t THEN t ELSE e)
  PROVE  /\ s >= t \/ e <= b => \A f \in s..(e - 1) : ~(f >= b /\ f < t)
         /\ ~(s >= t \/ e <= b) /\ b <= t =>
              /\ ms \in s..(e - 1) /\ me \in ms..e
              /\ \A f \in s..(e - 1) : f >= b /\ f < t <=> f \in ms..(me - 1)
OBVIOUS

\* The five comparisons: the piece is what the MTRR covers of the request.
LEMMA PieceCovers ==
  ASSUME TypeOK, i <= MTRR_MAX_VAR_RANGES
  PROVE  /\ Skipped => \A n \in 0..(asked.pages - 1) : ~CoveredBy(i, asked.start_pfn + n)
         /\ ~Skipped =>
              /\ map_start_pfn \in asked.start_pfn..end_pfn
              /\ map_end_pfn \in map_start_pfn..end_pfn
              /\ map_start_pfn \in Frames
              /\ \A n \in 0..(asked.pages - 1) :
                   CoveredBy(i, asked.start_pfn + n)
                     <=> asked.start_pfn + n \in map_start_pfn..(map_end_pfn - 1)
<1>1. asked.start_pfn \in 0..(N - 1) /\ asked.pages \in 1..N /\ asked.start_pfn + asked.pages <= N
  BY RequestNumbers DEF TypeOK
<1>2. mtrr[i].base \in Nat /\ Size(mtrr[i]) \in Nat /\ mtrr[i].base \in 0..(N - 1)
  BY RangeNumbers, FrameNumbers DEF TypeOK
<1> DEFINE s == asked.start_pfn
           e == asked.start_pfn + asked.pages
           b == mtrr[i].base
           t == mtrr[i].base + Size(mtrr[i])
<1>3. /\ s \in Nat /\ e \in Nat /\ s < e /\ e <= N /\ b \in Nat /\ t \in Nat /\ b <= t
      /\ Frames = 0..(N - 1) /\ N \in Nat
  BY <1>1, <1>2, FrameNumbers
<1>4. \A n \in 0..(asked.pages - 1) : s + n \in s..(e - 1)
  BY <1>1, FrameNumbers
<1>5. /\ Skipped <=> ~mtrr[i].valid \/ s >= t \/ e <= b
      /\ map_start_pfn = (IF s > b THEN s ELSE b) /\ map_end_pfn = (IF e > t THEN t ELSE e)
      /\ end_pfn = e /\ \A f : CoveredBy(i, f) <=> mtrr[i].valid /\ f >= b /\ f < t
  BY DEF Skipped, CoveredBy, map_start_pfn, map_end_pfn, mtrr_start, mtrr_end, end_pfn
<1> HIDE DEF s, e, b, t
<1>6. /\ s >= t \/ e <= b => \A f \in s..(e - 1) : ~(f >= b /\ f < t)
      /\ ~(s >= t \/ e <= b) =>
           /\ map_start_pfn \in s..(e - 1) /\ map_end_pfn \in map_start_pfn..e
           /\ \A f \in s..(e - 1) : f >= b /\ f < t <=> f \in map_start_pfn..(map_end_pfn - 1)
  BY <1>3, <1>5, Overlap
<1>7. \A f \in s..(e - 1) : f \in Frames /\ f \in s..e
  BY <1>3
<1> QED BY <1>4, <1>5, <1>6, <1>7 DEF s

LEMMA InitIInv == Init => IInv
<1> SUFFICES ASSUME Init PROVE IInv
  OBVIOUS
<1> USE DEF Init
<1>1. vma \in [vm_start: VirtualPages, vm_end: VirtualPages, vm_pgoff: Frames]
  BY RequestNumbers
<1>2. TypeOK
  <2>1. i \in 1..(MTRR_MAX_VAR_RANGES + 1) /\ pte \in [VirtualPages -> Frames \cup {NoFrame}]
    BY FrameNumbers
  <2>2. opened \in BOOLEAN
    OBVIOUS
  <2> QED BY <1>1, <2>1, <2>2 DEF TypeOK
<1>3. MapsTrue /\ VmaPutBack /\ FailureUndone /\ BugOnlyOnOverlap
  BY DEF MapsTrue, VmaPutBack, FailureUndone, BugOnlyOnOverlap
<1>4. LoadHolds
  BY DEF LoadHolds, Holds
<1>5. PiecesMapped
  <2>1. \A n \in 0..(asked.pages - 1) : VmStart + n \in VirtualPages
    BY FrameNumbers, RequestNumbers
  <2> QED BY <2>1, FrameNumbers DEF PiecesMapped, Covered
<1> QED BY <1>2, <1>3, <1>4, <1>5 DEF IInv

\* What the load and exit of the module leave alone.
LEMMA DeviceKeeps ==
  ASSUME IInv, UNCHANGED mapVars,
         mod' \in {"class", "region", "device", "alloc", "add", "live", "failed", "gone"},
         held' \subseteq {"class", "region", "device", "cdev"}, opened' \in BOOLEAN,
         LoadHolds'
  PROVE  IInv'
<1>1. UNCHANGED <<pc, asked, mtrr, i, vma, pte>>
  BY DEF mapVars
<1>2. TypeOK'
  BY <1>1 DEF IInv, TypeOK
<1> QED BY <1>1, <1>2 DEF IInv, MapsTrue, VmaPutBack, PiecesMapped, Covered, CoveredBy, Original,
                          FailureUndone, BugOnlyOnOverlap

LEMMA LoadKeeps ==
  ASSUME IInv, InitStep \/ InitFails \/ mmtest_exit_module \/ mmtest_release
  PROVE  IInv'
<1> USE DEF IInv
<1>1. TypeOK /\ LoadHolds
  OBVIOUS
<1>2. CASE InitStep
  <2>1. /\ mod \in {"class", "region", "device", "alloc", "add"} /\ UNCHANGED <<opened, mapVars>>
        /\ mod' = Steps[mod] /\ held' = held \cup Takes[mod] /\ held = Holds[mod]
    BY <1>1, <1>2 DEF InitStep, Steps, LoadHolds, Holds
  <2>2. /\ mod' \in {"region", "device", "alloc", "add", "live"} /\ held' = Holds[mod']
        /\ held' \subseteq {"class", "region", "device", "cdev"}
    BY <2>1 DEF Steps, Takes, Holds
  <2>3. ~opened /\ opened' \in BOOLEAN
    BY <1>1, <2>1 DEF LoadHolds, TypeOK
  <2>4. LoadHolds'
    BY <2>1, <2>2, <2>3 DEF LoadHolds
  <2> QED BY <2>1, <2>2, <2>3, <2>4, DeviceKeeps
<1>3. CASE InitFails
  <2>1. /\ mod \in {"class", "region", "device", "alloc", "add"} /\ UNCHANGED <<opened, mapVars>>
        /\ mod' = "failed" /\ held' = held \ {"class", "region", "cdev"} /\ held \subseteq {"class", "region", "device", "cdev"}
    BY <1>1, <1>3 DEF InitFails, Steps, TypeOK
  <2>2. ~opened /\ held' \subseteq {"device"} /\ opened' \in BOOLEAN
    BY <1>1, <2>1 DEF LoadHolds, TypeOK
  <2>3. LoadHolds'
    BY <2>1, <2>2 DEF LoadHolds, Holds
  <2> QED BY <2>1, <2>2, <2>3, DeviceKeeps
<1>4. CASE mmtest_exit_module
  <2>1. LoadHolds'
    BY <1>4 DEF mmtest_exit_module, LoadHolds, Holds
  <2> QED BY <1>1, <1>4, <2>1, DeviceKeeps DEF mmtest_exit_module, TypeOK
<1>5. CASE mmtest_release
  <2>1. LoadHolds'
    BY <1>1, <1>5 DEF mmtest_release, LoadHolds
  <2> QED BY <1>1, <1>5, <2>1, DeviceKeeps DEF mmtest_release, TypeOK
<1> QED BY <1>2, <1>3, <1>4, <1>5

\* The request, the MTRRs and what they cover stay while mmtest_mmap() runs.
LEMMA Fixed ==
  ASSUME UNCHANGED <<asked, mtrr>>
  PROVE  /\ Original' = Original
         /\ \A n, f : CoveredBy(n, f)' <=> CoveredBy(n, f)
BY DEF Original, CoveredBy

LEMMA OpenKeeps == IInv /\ mmtest_open => IInv'
<1> SUFFICES ASSUME IInv, mmtest_open PROVE IInv'
  OBVIOUS
<1> USE DEF IInv, mmtest_open
<1>1. TypeOK' /\ LoadHolds'
  BY DEF TypeOK, LoadHolds
<1> QED BY <1>1, Fixed DEF MapsTrue, VmaPutBack, PiecesMapped, Covered, FailureUndone, BugOnlyOnOverlap

LEMMA SkipKeeps == IInv /\ SkipMTRR => IInv'
<1> SUFFICES ASSUME IInv, SkipMTRR PROVE IInv'
  OBVIOUS
<1> USE DEF IInv
<1>1. /\ pc = "loop" /\ i <= MTRR_MAX_VAR_RANGES /\ Skipped /\ i' = i + 1
      /\ UNCHANGED <<mod, held, opened, pc, asked, mtrr, vma, pte>>
  BY DEF SkipMTRR, deviceVars
<1>2. i \in Nat /\ i' - 1 = i
  BY <1>1, FrameNumbers DEF TypeOK
<1>3. TypeOK' /\ LoadHolds'
  BY <1>1, <1>2, FrameNumbers DEF TypeOK, LoadHolds
<1>4. Covered(i)
  <2>1. \A n \in 0..(asked.pages - 1) : ~CoveredBy(i, asked.start_pfn + n)
    BY <1>1, PieceCovers
  <2>2. \A m \in 1..MTRR_MAX_VAR_RANGES : m <= i <=> m <= i - 1 \/ m = i
    BY <1>2, FrameNumbers
  <2> QED BY <1>1, <2>1, <2>2 DEF PiecesMapped, Covered
<1>5. PiecesMapped'
  BY <1>1, <1>2, <1>4, Fixed DEF PiecesMapped, Covered
<1> QED BY <1>1, <1>3, <1>5, Fixed DEF MapsTrue, VmaPutBack, FailureUndone, BugOnlyOnOverlap

\* One call of remap_pfn_range().
LEMMA MapKeeps == IInv /\ MapPiece => IInv'
<1> SUFFICES ASSUME IInv, MapPiece PROVE IInv'
  OBVIOUS
<1> USE DEF IInv
<1> DEFINE all == map_end_pfn - map_start_pfn
           first == VmStart + (map_start_pfn - asked.start_pfn)
<1>1. /\ pc = "loop" /\ i <= MTRR_MAX_VAR_RANGES /\ ~Skipped /\ vma' = Piece
      /\ UNCHANGED <<mod, held, opened, asked, mtrr, i>>
  BY DEF MapPiece, deviceVars
<1>2. /\ asked.start_pfn \in 0..(N - 1) /\ asked.pages \in 1..N /\ asked.start_pfn + asked.pages <= N
      /\ end_pfn = asked.start_pfn + asked.pages /\ VmStart \in Nat /\ N \in Nat
  BY RequestNumbers, FrameNumbers DEF TypeOK, end_pfn
<1>3. /\ map_start_pfn \in asked.start_pfn..end_pfn /\ map_end_pfn \in map_start_pfn..end_pfn
      /\ map_start_pfn \in Frames
      /\ \A n \in 0..(asked.pages - 1) :
           CoveredBy(i, asked.start_pfn + n)
             <=> asked.start_pfn + n \in map_start_pfn..(map_end_pfn - 1)
  BY <1>1, PieceCovers
<1>4. Piece = [vm_start |-> first, vm_end |-> first + all, vm_pgoff |-> map_start_pfn]
  BY <1>1, RequestNumbers DEF Piece, VmaPutBack, Original, TypeOK
<1>5. all \in Nat /\ first \in VirtualPages /\ first + all \in VirtualPages
  <2>1. all \in 0..N /\ map_start_pfn - asked.start_pfn \in 0..N
        /\ map_start_pfn - asked.start_pfn + all \in 0..N
    BY <1>2, <1>3
  <2>2. first + all = VmStart + (map_start_pfn - asked.start_pfn + all)
    BY <1>2, <1>3
  <2>3. \A x \in 0..N : VmStart + x \in VirtualPages
    BY <1>2, FrameNumbers
  <2> HIDE DEF all
  <2> QED BY <1>2, <2>1, <2>2, <2>3
<1>6. Piece \in [vm_start: VirtualPages, vm_end: VirtualPages, vm_pgoff: Frames]
      /\ Piece.vm_start = first
  BY <1>3, <1>4, <1>5
<1>7. \A v \in VirtualPages, n \in 0..all :
        v \in Mapped(Piece, n) =>
          /\ v \in VmStart..(VmStart + asked.pages - 1)
          /\ RemapFrom + (v - Piece.vm_start) = asked.start_pfn + (v - VmStart)
          /\ asked.start_pfn + (v - VmStart) \in Frames
          /\ CoveredBy(i, asked.start_pfn + (v - VmStart))
  <2> SUFFICES ASSUME NEW v \in VirtualPages, NEW n \in 0..all, v \in Mapped(Piece, n)
               PROVE  /\ v \in VmStart..(VmStart + asked.pages - 1)
                      /\ RemapFrom + (v - Piece.vm_start) = asked.start_pfn + (v - VmStart)
                      /\ asked.start_pfn + (v - VmStart) \in Frames
                      /\ CoveredBy(i, asked.start_pfn + (v - VmStart))
    OBVIOUS
  <2>1. v \in first..(first + n - 1)
    BY <1>6 DEF Mapped
  <2>2. v \in VmStart..(VmStart + asked.pages - 1)
    BY <1>2, <1>3, <2>1
  <2>3. map_start_pfn + (v - first) = asked.start_pfn + (v - VmStart)
    BY <1>2, <1>3, <2>1
  <2>4. v - VmStart \in 0..(asked.pages - 1)
    BY <1>2, <2>2
  <2>5. asked.start_pfn + (v - VmStart) \in map_start_pfn..(map_end_pfn - 1)
    BY <1>2, <1>3, <2>1
  <2>6. asked.start_pfn + (v - VmStart) \in Frames
    BY <1>2, <2>4, FrameNumbers
  <2> QED BY <1>3, <1>6, <2>2, <2>3, <2>4, <2>5, <2>6 DEF RemapFrom
<1>8. CASE /\ \E v \in Mapped(Piece, all) : pte[v] # NoFrame
           /\ pc' = "BUG" /\ UNCHANGED pte
  <2>1. TypeOK' /\ LoadHolds'
    BY <1>1, <1>6, <1>8 DEF TypeOK, LoadHolds
  <2>2. PICK v \in Mapped(Piece, all) : pte[v] # NoFrame
    BY <1>8
  <2>3. v \in VirtualPages
    BY <1>5, <1>6, <2>2, FrameNumbers DEF Mapped
  <2>4. /\ v - VmStart \in 0..(asked.pages - 1) /\ VmStart + (v - VmStart) = v
        /\ asked.start_pfn + (v - VmStart) \in Frames
        /\ CoveredBy(i, asked.start_pfn + (v - VmStart))
    BY <1>2, <1>5, <1>7, <2>2, <2>3
  <2>5. PICK m \in 1..MTRR_MAX_VAR_RANGES : m <= i - 1 /\ CoveredBy(m, asked.start_pfn + (v - VmStart))
    BY <1>1, <2>2, <2>4 DEF PiecesMapped, Covered
  <2>6. m # i /\ i \in 1..MTRR_MAX_VAR_RANGES
    BY <1>1, <2>5, FrameNumbers DEF TypeOK
  <2>7. BugOnlyOnOverlap'
    BY <1>1, <2>4, <2>5, <2>6, Fixed DEF BugOnlyOnOverlap
  <2> QED BY <1>1, <1>8, <2>1, <2>7, Fixed DEF MapsTrue, VmaPutBack, PiecesMapped, FailureUndone
<1>9. ASSUME NEW n \in 0..all, ~\E v \in Mapped(Piece, all) : pte[v] # NoFrame,
             pte' = [v \in VirtualPages |->
                       IF v \in Mapped(Piece, n) THEN RemapFrom + (v - Piece.vm_start) ELSE pte[v]],
             pc' = IF n = all THEN "remapped" ELSE "refused"
      PROVE  IInv'
  <2>1. pte' \in [VirtualPages -> Frames \cup {NoFrame}]
    BY <1>7, <1>9 DEF TypeOK
  <2>2. TypeOK' /\ LoadHolds'
    BY <1>1, <1>6, <1>9, <2>1 DEF TypeOK, LoadHolds
  <2>3. MapsTrue'
    BY <1>1, <1>7, <1>9 DEF MapsTrue
  <2>4. pc' = "remapped" => Covered(i)'
    <3> SUFFICES ASSUME n = all, NEW x \in 0..(asked.pages - 1)
                 PROVE  pte'[VmStart + x] # NoFrame
                          <=> \E m \in 1..MTRR_MAX_VAR_RANGES :
                                m <= i /\ CoveredBy(m, asked.start_pfn + x)
      BY <1>1, <1>9, Fixed DEF Covered
    <3>1. VmStart + x \in VirtualPages /\ x \in Nat /\ (VmStart + x) - VmStart = x
      BY <1>2, FrameNumbers
    <3>2. VmStart + x \in Mapped(Piece, all) <=> CoveredBy(i, asked.start_pfn + x)
      BY <1>2, <1>3, <1>6, <3>1 DEF Mapped
    <3>3. VmStart + x \in Mapped(Piece, all) => pte'[VmStart + x] # NoFrame
      <4>1. -1 \notin Frames
        BY FrameNumbers
      <4> QED BY <1>5, <1>7, <1>9, <3>1, <4>1 DEF NoFrame
    <3>4. VmStart + x \notin Mapped(Piece, all) => pte'[VmStart + x] = pte[VmStart + x]
      BY <1>9, <3>1
    <3>5. pte[VmStart + x] # NoFrame
            <=> \E m \in 1..MTRR_MAX_VAR_RANGES : m <= i - 1 /\ CoveredBy(m, asked.start_pfn + x)
      BY <1>1 DEF PiecesMapped, Covered
    <3>6. i \in 1..MTRR_MAX_VAR_RANGES /\ \A m \in 1..MTRR_MAX_VAR_RANGES : m <= i <=> m <= i - 1 \/ m = i
      BY <1>1, FrameNumbers DEF TypeOK
    <3> QED BY <3>2, <3>3, <3>4, <3>5, <3>6
  <2> QED BY <1>1, <1>9, <2>2, <2>3, <2>4 DEF VmaPutBack, PiecesMapped, FailureUndone, BugOnlyOnOverlap
<1> QED BY <1>8, <1>9 DEF MapPiece

LEMMA RestoreKeeps == IInv /\ Restore => IInv'
<1> SUFFICES ASSUME IInv, Restore PROVE IInv'
  OBVIOUS
<1> USE DEF IInv
<1>1. /\ pc = "remapped" /\ pc' = "loop" /\ i' = i + 1 /\ vma' = Original
      /\ UNCHANGED <<mod, held, opened, asked, mtrr, pte>>
  BY DEF Restore, deviceVars
<1>2. i \in Nat /\ i' - 1 = i /\ i <= MTRR_MAX_VAR_RANGES
  BY <1>1, FrameNumbers DEF TypeOK, PiecesMapped
<1>3. Original \in [vm_start: VirtualPages, vm_end: VirtualPages, vm_pgoff: Frames]
  BY RequestNumbers DEF TypeOK
<1>4. TypeOK' /\ LoadHolds'
  BY <1>1, <1>2, <1>3, FrameNumbers DEF TypeOK, LoadHolds
<1>5. PiecesMapped'
  BY <1>1, <1>2, Fixed DEF PiecesMapped, Covered
<1> QED BY <1>1, <1>4, <1>5, Fixed DEF MapsTrue, VmaPutBack, FailureUndone, BugOnlyOnOverlap

LEMMA GiveUpKeeps == IInv /\ GiveUp => IInv'
<1> SUFFICES ASSUME IInv, GiveUp PROVE IInv'
  OBVIOUS
<1> USE DEF IInv
<1>1. /\ pc = "refused" /\ pc' = "failed" /\ vma' = Original /\ pte' = Unmapped(Original)
      /\ UNCHANGED <<mod, held, opened, asked, mtrr, i>>
  BY DEF GiveUp, deviceVars
<1>2. /\ Original \in [vm_start: VirtualPages, vm_end: VirtualPages, vm_pgoff: Frames]
      /\ Original.vm_start = VmStart /\ Original.vm_end = VmStart + asked.pages
  BY RequestNumbers DEF TypeOK
<1>3. pte' \in [VirtualPages -> Frames \cup {NoFrame}] /\ \A v \in VirtualPages : pte'[v] = NoFrame
  <2>1. pte \in [VirtualPages -> Frames \cup {NoFrame}] /\ MapsTrue
    BY DEF TypeOK
  <2>2. pte' \in [VirtualPages -> Frames \cup {NoFrame}]
    BY <1>1, <2>1 DEF Unmapped
  <2>3. ASSUME NEW v \in VirtualPages PROVE pte'[v] = NoFrame
    <3>1. pte'[v] = IF v \in Original.vm_start..(Original.vm_end - 1) THEN NoFrame ELSE pte[v]
      BY <1>1 DEF Unmapped
    <3>2. pte[v] = NoFrame \/ v \in VmStart..(VmStart + asked.pages - 1)
      BY <2>1 DEF MapsTrue
    <3>3. Original.vm_start..(Original.vm_end - 1) = VmStart..(VmStart + asked.pages - 1)
      BY <1>2, FrameNumbers, RequestNumbers DEF TypeOK
    <3> QED BY <3>1, <3>2, <3>3
  <2> QED BY <2>2, <2>3
<1>4. TypeOK' /\ LoadHolds'
  BY <1>1, <1>2, <1>3 DEF TypeOK, LoadHolds
<1> QED BY <1>1, <1>3, <1>4, Fixed DEF MapsTrue, VmaPutBack, PiecesMapped, FailureUndone, BugOnlyOnOverlap

LEMMA ReturnKeeps == IInv /\ MmapReturns => IInv'
<1> SUFFICES ASSUME IInv, MmapReturns PROVE IInv'
  OBVIOUS
<1> USE DEF IInv
<1>1. /\ pc = "loop" /\ i > MTRR_MAX_VAR_RANGES /\ pc' = "returned"
      /\ UNCHANGED <<mod, held, opened, asked, mtrr, i, vma, pte>>
  BY DEF MmapReturns, deviceVars
<1>2. TypeOK' /\ LoadHolds'
  BY <1>1 DEF TypeOK, LoadHolds
<1> QED BY <1>1, <1>2, Fixed DEF MapsTrue, VmaPutBack, PiecesMapped, Covered, FailureUndone, BugOnlyOnOverlap

\* IInv is inductive.
LEMMA NextIInv ==
  ASSUME IInv, [Next]_vars
  PROVE  IInv'
<1>1. CASE UNCHANGED vars
  <2>1. UNCHANGED mapVars /\ UNCHANGED <<mod, held, opened>>
    BY <1>1 DEF vars, deviceVars
  <2> QED BY <2>1, DeviceKeeps DEF IInv, TypeOK, LoadHolds
<1> QED BY <1>1, LoadKeeps, OpenKeeps, SkipKeeps, MapKeeps, RestoreKeeps, GiveUpKeeps, ReturnKeeps
        DEF Next

LEMMA Invariance == Spec => []IInv
<1> QED BY InitIInv, NextIInv, PTL DEF Spec

\* When mmap() has succeeded, a page of the request is there if and only if an MTRR
\* covers it, and it is the frame that was asked for (MemoryModule.c:108-190).
THEOREM MappingRightSound == Spec => []MappingRight
<1>1. IInv => MappingRight
  <2> SUFFICES ASSUME IInv PROVE CoveredIsMapped
    BY DEF IInv, MappingRight
  <2>1. i \in Nat /\ MTRR_MAX_VAR_RANGES \in Nat
    BY FrameNumbers DEF IInv, TypeOK
  <2> QED BY <2>1 DEF IInv, CoveredIsMapped, PiecesMapped, Covered
<1> QED BY <1>1, Invariance, PTL

\* A failed mmap() leaves the vma and the page table as they were, a mapped page is met
\* only where MTRRs overlap, and a failed load gives back what it must
\* (MemoryModule.c:161-190, 300-362).
THEOREM FailuresUndoneSound == Spec => []FailuresUndone
<1>1. IInv => FailuresUndone
  BY DEF IInv, FailuresUndone, LoadIsWhole, LoadHolds, Holds
<1> QED BY <1>1, Invariance, PTL

-----------------------------------------------------------------------------
(* addrmap *)

LEMMA DivMod ==
  ASSUME NEW a \in Nat, NEW b \in Nat \ {0}
  PROVE  /\ a \div b \in Nat /\ a % b \in 0..(b - 1)
         /\ a = b * (a \div b) + (a % b)
OBVIOUS

LEMMA Quotient ==
  ASSUME NEW b \in Nat \ {0}, NEW q \in Nat, NEW r \in 0..(b - 1)
  PROVE  (b * q + r) \div b = q /\ (b * q + r) % b = r
OBVIOUS

LEMMA Mono ==
  ASSUME NEW a \in Nat, NEW b \in Nat, NEW c \in Nat, a <= b
  PROVE  c * a <= c * b
OBVIOUS

\* The frame of an entry, its highest bit cleared after the offset is added or before.
LEMMA ClearedEarly ==
  ASSUME NEW e \in Nat, NEW o \in 0..(PageBytes - 1)
  PROVE  /\ (PteFrame(e) + o) % HighBit = ((e % HighBit) \div PageBytes) * PageBytes + o
         /\ (PteFrame(e) + o) % HighBit \in Nat
<1> DEFINE P == PageBytes
           H == HighBit
           k == H \div P
           q == e \div H
           r == e % H
           d == r \div P
           x == r % P
<1>1. P \in Nat \ {0} /\ H \in Nat \ {0} /\ H % P = 0
  BY AddrMapAssumption
<1>2. k \in Nat /\ H = P * k
  BY <1>1, DivMod
<1>3. q \in Nat /\ r \in 0..(H - 1) /\ e = H * q + r
  BY <1>1, DivMod
<1> HIDE DEF P, H, k, q, r
<1>4. d \in Nat /\ x \in 0..(P - 1) /\ r = P * d + x
  <2>1. r \in Nat /\ P \in Nat \ {0}
    BY <1>1, <1>3
  <2> QED BY <2>1, DivMod
<1> HIDE DEF d, x
<1>5. k * q \in Nat /\ k * q + d \in Nat /\ P * (k * q + d) = P * (k * q) + P * d
      /\ P * (k * q) = (P * k) * q /\ (k * q + d) * P = P * (k * q + d) /\ d * P = P * d
  BY <1>1, <1>2, <1>3, <1>4
<1>6. e = P * (k * q + d) + x
  BY <1>1, <1>2, <1>3, <1>4, <1>5
<1>7. e \div P = k * q + d
  BY <1>1, <1>4, <1>5, <1>6, Quotient
<1>8. PteFrame(e) = H * q + P * d
  BY <1>1, <1>2, <1>3, <1>4, <1>5, <1>7 DEF PteFrame, P
<1>9. d + 1 <= k
  <2>1. SUFFICES ASSUME k <= d PROVE FALSE
    BY <1>2, <1>4
  <2>2. P * k <= P * d
    BY <1>1, <1>2, <1>4, <2>1, Mono
  <2> QED BY <1>1, <1>2, <1>3, <1>4, <2>2
<1>10. P * d + o \in 0..(H - 1)
  <2>1. P * (d + 1) <= P * k
    BY <1>1, <1>2, <1>4, <1>9, Mono
  <2>2. P * (d + 1) = P * d + P /\ P * d \in Nat
    BY <1>1, <1>4
  <2> QED BY <1>1, <1>2, <1>4, <2>1, <2>2 DEF P
<1>11. PteFrame(e) + o = H * q + (P * d + o)
  BY <1>1, <1>3, <1>4, <1>8 DEF P
<1>12. (PteFrame(e) + o) % H = P * d + o
  <2> DEFINE y == P * d + o
  <2>1. y \in 0..(H - 1) /\ PteFrame(e) + o = H * q + y
    BY <1>10, <1>11
  <2> HIDE DEF y
  <2>2. (H * q + y) % H = y
    BY <1>1, <1>3, <2>1, Quotient
  <2>3. (PteFrame(e) + o) % H = y
    BY <2>1, <2>2
  <2> QED BY <2>3 DEF y
<1>13. ((e % HighBit) \div PageBytes) * PageBytes = P * d
  BY <1>5 DEF d, r, H, P
<1> QED BY <1>1, <1>10, <1>12, <1>13 DEF H

LEMMA ConvertSound ==
  ASSUME table \in Tables, NEW p \in Procs, NEW a \in Addrs \cup {0}
  PROVE  addrmap_convt(p, a) = Physical(p, a) /\ addrmap_convt(p, a) \in Nat
<1>1. a \in Nat /\ (a \in Addrs <=> a # 0) /\ PageBytes \in Nat \ {0}
  BY AddrMapAssumption
<1>2. CASE a \in Addrs /\ table[p][a].found = Levels
  <2>1. table[p][a].pte \in Nat
    <3>1. table \in [Procs -> [Addrs -> [found: SUBSET Levels, pte: Nat]]]
      BY AddrMapAssumption
    <3> QED BY <1>2, <3>1
  <2>2. a % PageBytes \in 0..(PageBytes - 1)
    BY <1>1, DivMod
  <2> QED BY <1>1, <1>2, <2>1, <2>2, ClearedEarly DEF addrmap_convt, Physical
<1>3. CASE ~(a \in Addrs /\ table[p][a].found = Levels)
  BY <1>1, <1>3 DEF addrmap_convt, Physical
<1> QED BY <1>2, <1>3

LEMMA LinesFacts ==
  ASSUME table \in Tables, NEW p \in Procs, NEW a \in Addrs \cup {0}
  PROVE  /\ Lines(p, a) \in Seq(Nat) /\ Len(Lines(p, a)) = 4
         /\ Lines(p, a) = <<Version, a, Physical(p, a), 0>> /\ Lines(p, a)[2] = a
<1>1. a \in Nat /\ Version \in Nat
  BY AddrMapAssumption DEF Version
<1> QED BY <1>1, ConvertSound DEF Lines

\* A sequence of four lines that agrees with a message is the message.
LEMMA FourLines ==
  ASSUME NEW s \in Seq(Nat), NEW t \in Seq(Nat), Len(s) = 4, Len(t) = 4,
         \A n \in 1..4 : s[n] = t[n]
  PROVE  s = t
<1>1. s = [n \in 1..4 |-> s[n]] /\ t = [n \in 1..4 |-> t[n]]
  OBVIOUS
<1> QED BY <1>1

\* A part of a message, and what comes of adding it to what was read before.
LEMMA PartOf ==
  ASSUME NEW t \in Seq(Nat), NEW o \in Nat, NEW sz \in Nat,
         o + 1 \in 1..Len(t), o + sz \in 1..Len(t)
  PROVE  /\ SubSeq(t, o + 1, o + sz) \in Seq(Nat) /\ Len(SubSeq(t, o + 1, o + sz)) = sz
         /\ \A n \in 1..sz : SubSeq(t, o + 1, o + sz)[n] = t[o + n]
<1>1. \A n \in (o + 1)..(o + sz) : n \in 1..Len(t)
  OBVIOUS
<1>2. /\ SubSeq(t, o + 1, o + sz) \in Seq(Nat)
      /\ Len(SubSeq(t, o + 1, o + sz)) = IF o + 1 <= o + sz THEN (o + sz) - (o + 1) + 1 ELSE 0
      /\ \A n \in 1..((o + sz) - (o + 1) + 1) :
           SubSeq(t, o + 1, o + sz)[n] = t[(o + 1) + n - 1]
  BY <1>1, SubSeqProperties
<1>3. (o + sz) - (o + 1) + 1 = sz /\ (o + 1 <= o + sz \/ sz = 0)
      /\ \A n \in 1..sz : (o + 1) + n - 1 = o + n
  OBVIOUS
<1> QED BY <1>2, <1>3

LEMMA Joined ==
  ASSUME NEW h \in Seq(Nat), NEW s \in Seq(Nat), NEW t \in Seq(Nat),
         \A n \in 1..Len(s) : s[n] = t[Len(h) + n]
  PROVE  /\ h \o s \in Seq(Nat) /\ Len(h \o s) = Len(h) + Len(s)
         /\ \A n \in 1..(Len(h) + Len(s)) : (h \o s)[n] = IF n <= Len(h) THEN h[n] ELSE t[n]
<1>1. h \o s \in Seq(Nat) /\ Len(h \o s) = Len(h) + Len(s)
  BY ConcatProperties
<1>2. ASSUME NEW n \in 1..(Len(h) + Len(s)), n <= Len(h) PROVE (h \o s)[n] = h[n]
  BY <1>2
<1>3. ASSUME NEW n \in 1..(Len(h) + Len(s)), ~(n <= Len(h)) PROVE (h \o s)[n] = t[n]
  <2>1. (h \o s)[n] = s[n - Len(h)] /\ n - Len(h) \in 1..Len(s)
        /\ Len(h) + (n - Len(h)) = n
    BY <1>3
  <2> QED BY <2>1
<1> QED BY <1>1, <1>2, <1>3

LEMMA InitAddrIInv == AddrInit => AddrIInv
<1> SUFFICES ASSUME AddrInit PROVE AddrIInv
  OBVIOUS
<1> USE DEF AddrInit
<1>1. AddrTypeOK
  <2>1. got \in [Procs -> Seq(Nat)]
    OBVIOUS
  <2>2. /\ mine \in [Procs -> Addrs \cup {None}] /\ pa \in [Procs -> Nat]
        /\ offset \in [Procs -> 0..Closed]
    BY DEF None, Closed
  <2>3. whole \in [Procs -> BOOLEAN] /\ g_proc \in BOOLEAN
    OBVIOUS
  <2> QED BY <2>1, <2>2, <2>3 DEF AddrTypeOK
<1>2. OneInside
  <2>1. {p \in Procs : offset[p] # Closed} = {}
    OBVIOUS
  <2>2. Free \notin Procs
    BY AddrMapAssumption DEF Free
  <2>3. refs = Cardinality({p \in Procs : offset[p] # Closed})
    BY <2>1, FS_EmptySet
  <2>4. /\ \A p \in Procs : at[p] # "out" <=> g_sem = p
        /\ \A p \in Procs : at[p] # "out" => offset[p] # Closed
    BY <2>2
  <2>5. g_sem \in Procs \cup {Free} /\ (refs > 0 => g_proc)
    OBVIOUS
  <2> QED BY <2>3, <2>4, <2>5 DEF OneInside
<1>3. Told
  BY DEF Told, None
<1> QED BY <1>1, <1>2, <1>3 DEF AddrIInv

\* A step that leaves the page tables alone does not change what an address is.
LEMMA TableFixed ==
  ASSUME table' = table
  PROVE  /\ \A p, a : addrmap_convt(p, a)' = addrmap_convt(p, a)
         /\ \A p, a : Lines(p, a)' = Lines(p, a)
BY DEF addrmap_convt, Lines

\* The open files, counted.
LEMMA OpenCount ==
  /\ IsFiniteSet({p \in Procs : offset[p] # Closed})
  /\ Cardinality({p \in Procs : offset[p] # Closed}) \in Nat
  /\ Cardinality({p \in Procs : offset[p] # Closed}) = 0 => \A p \in Procs : offset[p] = Closed
<1> DEFINE Open == {p \in Procs : offset[p] # Closed}
<1>1. IsFiniteSet(Open)
  BY AddrMapAssumption, FS_Subset
<1>2. Cardinality(Open) \in Nat /\ (Cardinality(Open) = 0 => Open = {})
  BY <1>1, FS_CardinalityType, FS_EmptySet
<1> QED BY <1>1, <1>2

LEMMA FileKeeps ==
  ASSUME AddrIInv, addrmap_procfs_init \/ addrmap_procfs_clean
  PROVE  AddrIInv'
<1> USE DEF AddrIInv
<1>1. UNCHANGED <<refs, pa, offset, got, whole, g_sem, at, table>>
  BY DEF addrmap_procfs_init, addrmap_procfs_clean, readVars
<1>2. CASE addrmap_procfs_init
  <2>1. AddrTypeOK' /\ OneInside'
    BY <1>1, <1>2 DEF addrmap_procfs_init, AddrTypeOK, OneInside
  <2>2. Told'
    BY <1>1, <1>2, TableFixed DEF addrmap_procfs_init, Told
  <2> QED BY <2>1, <2>2
<1>3. CASE addrmap_procfs_clean
  <2>1. /\ refs = 0 /\ g_proc' = FALSE /\ g_va' = 0 /\ mine' = [p \in Procs |-> None]
    BY <1>3 DEF addrmap_procfs_clean
  <2>2. AddrTypeOK' /\ OneInside'
    <3>1. mine' \in [Procs -> Addrs \cup {None}] /\ g_va' \in Addrs \cup {0}
      BY <2>1
    <3>2. AddrTypeOK'
      BY <1>1, <2>1, <3>1 DEF AddrTypeOK
    <3>3. ~(refs > 0)
      BY <2>1
    <3>4. OneInside'
      BY <1>1, <3>3 DEF OneInside
    <3> QED BY <3>2, <3>4
  <2>3. \A p \in Procs : at[p] = "out"
    BY <2>1, OpenCount DEF OneInside
  <2>4. Told'
    BY <1>1, <2>1, <2>3, TableFixed DEF Told
  <2> QED BY <2>2, <2>4
<1> QED BY <1>2, <1>3

LEMMA OpenFileKeeps ==
  ASSUME AddrIInv, NEW p \in Procs, f_on_open(p)
  PROVE  AddrIInv'
<1> USE DEF AddrIInv
<1>1. /\ g_proc /\ offset[p] = Closed /\ refs' = refs + 1
      /\ offset' = [offset EXCEPT ![p] = 0]
      /\ got' = [got EXCEPT ![p] = <<>>] /\ whole' = [whole EXCEPT ![p] = FALSE]
      /\ UNCHANGED <<g_proc, pa, g_sem, g_va, at, table, mine>>
  BY DEF f_on_open
<1>2. AddrTypeOK'
  <2>1. got' \in [Procs -> Seq(Nat)]
    BY <1>1 DEF AddrTypeOK
  <2>2. offset' \in [Procs -> 0..Closed] /\ whole' \in [Procs -> BOOLEAN]
    BY <1>1 DEF AddrTypeOK, Closed
  <2> QED BY <1>1, <2>1, <2>2 DEF AddrTypeOK
<1>3. OneInside'
  <2> DEFINE Open == {q \in Procs : offset[q] # Closed}
  <2>1. {q \in Procs : offset'[q] # Closed} = Open \cup {p} /\ p \notin Open
    BY <1>1 DEF AddrTypeOK, Closed
  <2>2. Cardinality(Open \cup {p}) = Cardinality(Open) + 1 /\ refs = Cardinality(Open)
    BY <2>1, OpenCount, FS_AddElement DEF OneInside
  <2>3. \A q \in Procs : offset[q] # Closed => offset'[q] # Closed
    BY <1>1 DEF AddrTypeOK
  <2> QED BY <1>1, <2>1, <2>2, <2>3 DEF OneInside
<1>4. Told'
  <2>1. at[p] = "out"
    BY <1>1 DEF OneInside
  <2>2. got'[p] = <<>> /\ offset'[p] = 0 /\ ~whole'[p]
    BY <1>1 DEF AddrTypeOK
  <2>3. \A q \in Procs \ {p} : got'[q] = got[q] /\ offset'[q] = offset[q] /\ whole'[q] = whole[q]
    BY <1>1 DEF AddrTypeOK
  <2> QED BY <1>1, <2>1, <2>2, <2>3, TableFixed DEF Told
<1> QED BY <1>2, <1>3, <1>4

LEMMA ReleaseKeeps ==
  ASSUME AddrIInv, NEW p \in Procs, f_on_release(p)
  PROVE  AddrIInv'
<1> USE DEF AddrIInv
<1>1. /\ offset[p] # Closed /\ at[p] = "out" /\ refs' = refs - 1
      /\ offset' = [offset EXCEPT ![p] = Closed]
      /\ UNCHANGED <<g_proc, pa, got, whole, g_sem, g_va, at, table, mine>>
  BY DEF f_on_release
<1>2. AddrTypeOK'
  BY <1>1 DEF AddrTypeOK, Closed
<1>3. OneInside'
  <2> DEFINE Open == {q \in Procs : offset[q] # Closed}
  <2>1. {q \in Procs : offset'[q] # Closed} = Open \ {p} /\ p \in Open
    BY <1>1 DEF AddrTypeOK
  <2>2. Cardinality(Open \ {p}) = Cardinality(Open) - 1 /\ refs = Cardinality(Open) /\ refs \in Nat
    BY <2>1, OpenCount, FS_RemoveElement DEF OneInside
  <2>3. \A q \in Procs : at[q] # "out" => offset'[q] # Closed
    BY <1>1 DEF AddrTypeOK, OneInside
  <2> QED BY <1>1, <2>1, <2>2, <2>3 DEF OneInside
<1>4. Told'
  <2>1. \A q \in Procs : offset'[q] # Closed => offset'[q] = offset[q]
    BY <1>1 DEF AddrTypeOK
  <2> QED BY <1>1, <2>1, TableFixed DEF Told
<1> QED BY <1>2, <1>3, <1>4

\* A process enters the semaphore, or leaves it with nothing else changed.
LEMMA EnterKeeps ==
  ASSUME AddrIInv, NEW p \in Procs, NEW next \in {"convt", "copy"}, Down(p, next)
  PROVE  AddrIInv'
<1> USE DEF AddrIInv
<1>1. /\ offset[p] # Closed /\ g_sem = Free /\ g_sem' = p /\ at' = [at EXCEPT ![p] = next]
      /\ UNCHANGED <<g_proc, refs, pa, offset, got, whole, g_va, table, mine>>
  BY DEF Down, fileVars, readVars
<1>2. Free \notin Procs
  BY AddrMapAssumption DEF Free
<1>3. AddrTypeOK'
  BY <1>1 DEF AddrTypeOK
<1>4. OneInside'
  BY <1>1, <1>2 DEF OneInside, AddrTypeOK
<1>5. Told'
  BY <1>1, TableFixed DEF Told, AddrTypeOK
<1> QED BY <1>3, <1>4, <1>5

LEMMA LeaveInside ==
  ASSUME AddrIInv, NEW p \in Procs, at[p] # "out", Up(p), UNCHANGED <<fileVars>>,
         \A q \in Procs : offset'[q] = Closed <=> offset[q] = Closed
  PROVE  OneInside' /\ \A q \in Procs : at'[q] = "out"
<1>1. g_sem = p /\ \A q \in Procs \ {p} : at[q] = "out"
  BY DEF AddrIInv, OneInside
<1>2. g_sem' = Free /\ at' = [at EXCEPT ![p] = "out"] /\ UNCHANGED <<g_proc, refs>> /\ Free \notin Procs
  BY AddrMapAssumption DEF Up, fileVars, Free
<1>3. \A q \in Procs : at'[q] = "out"
  BY <1>1, <1>2 DEF AddrIInv, AddrTypeOK
<1>4. {q \in Procs : offset'[q] # Closed} = {q \in Procs : offset[q] # Closed}
  OBVIOUS
<1> QED BY <1>2, <1>3, <1>4 DEF AddrIInv, OneInside

LEMMA LeaveKeeps ==
  ASSUME AddrIInv, NEW p \in Procs, ReadEof(p) \/ CopyOutFails(p) \/ CopyInFails(p)
  PROVE  AddrIInv'
<1> USE DEF AddrIInv
<1>1. /\ at[p] # "out" /\ Up(p) /\ UNCHANGED fileVars
      /\ UNCHANGED <<g_proc, refs, pa, offset, got, whole, g_va, table, mine>>
  BY DEF ReadEof, CopyOutFails, CopyInFails, fileVars, readVars
<1>2. OneInside' /\ \A q \in Procs : at'[q] = "out"
  BY <1>1, LeaveInside
<1>3. AddrTypeOK'
  BY <1>1 DEF AddrTypeOK, Up
<1>4. Told'
  BY <1>1, <1>2, TableFixed DEF Told
<1> QED BY <1>2, <1>3, <1>4

LEMMA ConvertKeeps ==
  ASSUME AddrIInv, NEW p \in Procs, Convert(p)
  PROVE  AddrIInv'
<1> USE DEF AddrIInv
<1>1. /\ at[p] = "convt" /\ pa' = [pa EXCEPT ![p] = addrmap_convt(p, g_va)]
      /\ at' = [at EXCEPT ![p] = "print"]
      /\ UNCHANGED <<g_proc, refs, offset, got, whole, g_sem, g_va, table, mine>>
  BY DEF Convert, fileVars
<1>2. addrmap_convt(p, g_va) \in Nat
  BY ConvertSound DEF AddrTypeOK
<1>3. AddrTypeOK'
  BY <1>1, <1>2 DEF AddrTypeOK
<1>4. OneInside'
  BY <1>1 DEF OneInside, AddrTypeOK
<1>5. Told'
  BY <1>1, TableFixed DEF Told, AddrTypeOK
<1> QED BY <1>3, <1>4, <1>5

LEMMA SetKeeps ==
  ASSUME AddrIInv, NEW p \in Procs, NEW a \in Addrs \cup {0}, SetAddress(p, a)
  PROVE  AddrIInv'
<1> USE DEF AddrIInv
<1>1. /\ at[p] = "copy" /\ Up(p) /\ g_va' = a
      /\ mine' = [q \in Procs |-> IF q = p /\ got[p] = <<>> THEN a ELSE None]
      /\ UNCHANGED fileVars /\ UNCHANGED <<g_proc, refs, pa, offset, got, whole, table>>
  BY DEF SetAddress, fileVars, readVars
<1>2. OneInside' /\ \A q \in Procs : at'[q] = "out"
  BY <1>1, LeaveInside
<1>3. AddrTypeOK'
  BY <1>1 DEF AddrTypeOK, Up, None
<1>4. Told'
  <2>1. \A q \in Procs : mine'[q] # None => mine'[q] = a /\ got[q] = <<>>
    BY <1>1
  <2> QED BY <1>1, <1>2, <2>1, TableFixed DEF Told
<1> QED BY <1>2, <1>3, <1>4

\* What a read adds are the next lines of the one message.
LEMMA PrintKeeps ==
  ASSUME AddrIInv, NEW p \in Procs, NEW len \in Lens, PrintAndCopy(p, len)
  PROVE  AddrIInv'
<1> USE DEF AddrIInv
<1> DEFINE o == offset[p]
           L == Lines(p, g_va)
           left == 4 - o
           sz == IF left > len THEN len ELSE left
<1>1. at[p] = "print" /\ pa[p] = addrmap_convt(p, g_va) /\ o # Closed /\ o = Len(got[p])
  BY DEF PrintAndCopy, OneInside, Told
<1>2. Message(p) = L /\ L \in Seq(Nat) /\ Len(L) = 4
  BY <1>1, LinesFacts DEF AddrTypeOK, Message, Lines
<1>3. /\ o < 4 /\ Up(p) /\ UNCHANGED fileVars /\ UNCHANGED <<pa, g_va, table, mine>>
      /\ got' = [got EXCEPT ![p] = @ \o SubSeq(L, o + 1, o + sz)]
      /\ offset' = [offset EXCEPT ![p] = @ + sz]
      /\ whole' = [whole EXCEPT ![p] = sz = 4]
  BY <1>2 DEF PrintAndCopy
<1>4. o \in 0..3 /\ sz \in 1..4 /\ o + sz \in 1..4 /\ got[p] \in Seq(Nat) /\ Len(got[p]) = o
      /\ (sz = 4 => o = 0)
  <2>1. o \in 0..5 /\ got[p] \in Seq(Nat)
    BY DEF AddrTypeOK, Closed
  <2>2. len \in 1..4
    BY AddrMapAssumption
  <2> HIDE DEF o
  <2>3. o \in 0..3 /\ sz \in 1..4 /\ o + sz \in 1..4 /\ (sz = 4 => o = 0)
    BY <1>3, <2>1, <2>2
  <2> QED BY <1>1, <2>1, <2>3
<1> DEFINE g == got[p] \o SubSeq(L, o + 1, o + sz)
<1> HIDE DEF L, o, sz
<1>5. SubSeq(L, o + 1, o + sz) \in Seq(Nat) /\ Len(SubSeq(L, o + 1, o + sz)) = sz
      /\ \A n \in 1..sz : SubSeq(L, o + 1, o + sz)[n] = L[o + n]
  <2>1. L \in Seq(Nat) /\ Len(L) = 4 /\ o \in Nat /\ sz \in Nat /\ o + 1 \in 1..4 /\ o + sz \in 1..4
    BY <1>2, <1>4
  <2> QED BY <2>1, PartOf
<1>6. /\ g \in Seq(Nat) /\ Len(g) = o + sz
      /\ \A n \in 1..(o + sz) : g[n] = IF n <= o THEN got[p][n] ELSE L[n]
  <2> DEFINE S == SubSeq(L, o + 1, o + sz)
             h == got[p]
  <2>1. g = h \o S
    OBVIOUS
  <2>2. h \in Seq(Nat) /\ Len(h) = o /\ o \in Nat /\ sz \in Nat
    BY <1>4
  <2>3. S \in Seq(Nat) /\ Len(S) = sz /\ \A n \in 1..sz : S[n] = L[o + n]
    BY <1>5
  <2> HIDE DEF S, h, g
  <2>4. L \in Seq(Nat)
    BY <1>2
  <2>5. /\ h \o S \in Seq(Nat) /\ Len(h \o S) = o + sz
        /\ \A n \in 1..(o + sz) : (h \o S)[n] = IF n <= o THEN h[n] ELSE L[n]
    <3>1. \A n \in 1..Len(S) : S[n] = L[Len(h) + n]
      BY <2>2, <2>3
    <3>2. h \in Seq(Nat) /\ S \in Seq(Nat)
      BY <2>2, <2>3
    <3>3. /\ h \o S \in Seq(Nat) /\ Len(h \o S) = Len(h) + Len(S)
          /\ \A n \in 1..(Len(h) + Len(S)) : (h \o S)[n] = IF n <= Len(h) THEN h[n] ELSE L[n]
      BY <2>4, <3>1, <3>2, Joined, Zenon
    <3> QED BY <2>2, <2>3, <3>3
  <2> QED BY <2>1, <2>5 DEF h
<1>7. got'[p] = g /\ \A q \in Procs \ {p} : got'[q] = got[q]
  BY <1>3 DEF AddrTypeOK
<1>8. /\ offset'[p] = o + sz /\ \A q \in Procs \ {p} : offset'[q] = offset[q]
      /\ whole'[p] = (sz = 4) /\ \A q \in Procs \ {p} : whole'[q] = whole[q]
  BY <1>3 DEF AddrTypeOK, o
<1> HIDE DEF g
<1>9. OneInside' /\ \A q \in Procs : at'[q] = "out"
  <2>1. \A q \in Procs : offset'[q] = Closed <=> offset[q] = Closed
    BY <1>1, <1>4, <1>8 DEF Closed, o
  <2> QED BY <1>1, <1>3, <2>1, LeaveInside
<1>10. AddrTypeOK'
  <2>1. got' \in [Procs -> Seq(Nat)]
    BY <1>3, <1>6 DEF AddrTypeOK, g
  <2>2. offset' \in [Procs -> 0..Closed]
    BY <1>3, <1>4 DEF AddrTypeOK, Closed, o
  <2>3. whole' \in [Procs -> BOOLEAN]
    BY <1>3 DEF AddrTypeOK
  <2>4. at' \in [Procs -> {"out", "convt", "print", "copy"}] /\ UNCHANGED g_proc
    BY <1>3 DEF AddrTypeOK, Up, fileVars
  <2> QED BY <1>3, <2>1, <2>2, <2>3, <2>4 DEF AddrTypeOK
<1>11. Told'
  <2> SUFFICES ASSUME NEW q \in Procs
               PROVE  /\ offset'[q] # Closed => offset'[q] = Len(got'[q])
                      /\ Len(got'[q]) <= 4
                      /\ whole'[q] => \E a \in Addrs \cup {0} : got'[q] = Lines(q, a)
                      /\ mine[q] # None =>
                           /\ mine[q] = g_va
                           /\ \A n \in 1..Len(got'[q]) : got'[q][n] = Lines(q, g_va)[n]
    <3>1. /\ \A x \in Procs : at'[x] # "print"
          /\ g_va' = g_va /\ mine' = mine
          /\ \A x, a : Lines(x, a)' = Lines(x, a)
      BY <1>3, <1>9, TableFixed
    <3> QED BY <3>1 DEF Told
  <2>1. CASE q # p
    BY <1>7, <1>8, <2>1 DEF Told
  <2>2. CASE q = p
    <3>1. offset'[p] = Len(g) /\ Len(g) <= 4
      BY <1>4, <1>6, <1>8
    <3>2. ASSUME sz = 4 PROVE g = L
      <4>1. o = 0 /\ o + sz = 4
        BY <1>4, <3>2
      <4>2. Len(g) = 4 /\ \A n \in 1..4 : g[n] = L[n]
        BY <1>6, <4>1
      <4> QED BY <1>2, <1>6, <4>2, FourLines
    <3>3. whole'[p] => \E a \in Addrs \cup {0} : g = Lines(p, a)
      BY <1>8, <3>2 DEF L, AddrTypeOK
    <3>4. mine[p] # None => mine[p] = g_va /\ \A n \in 1..o : got[p][n] = L[n]
      BY <1>4 DEF Told, L
    <3>5. ASSUME mine[p] # None, NEW n \in 1..Len(g) PROVE g[n] = L[n]
      <4>1. o \in Nat /\ n \in 1..(o + sz) /\ n \in Nat
        BY <1>4, <1>6, <3>5
      <4>2. n <= o => got[p][n] = L[n]
        BY <3>4, <3>5, <4>1
      <4> QED BY <1>6, <4>1, <4>2
    <3> QED BY <1>7, <2>2, <3>1, <3>3, <3>4, <3>5 DEF L
  <2> QED BY <2>1, <2>2
<1> QED BY <1>9, <1>10, <1>11

\* AddrIInv is inductive.
LEMMA NextAddrIInv ==
  ASSUME AddrIInv, [AddrNext]_addrVars
  PROVE  AddrIInv'
<1>1. CASE addrmap_procfs_init \/ addrmap_procfs_clean
  BY <1>1, FileKeeps
<1>2. ASSUME NEW p \in Procs, AddrStep(p) PROVE AddrIInv'
  BY <1>2, OpenFileKeeps, ReleaseKeeps, EnterKeeps, ConvertKeeps, LeaveKeeps, PrintKeeps, SetKeeps
     DEF AddrStep, ReadDown, WriteDown
<1>3. CASE UNCHANGED addrVars
  <2>1. UNCHANGED <<g_proc, refs, pa, offset, got, whole, g_sem, g_va, at, table, mine>>
    BY <1>3 DEF addrVars, fileVars, readVars
  <2>2. AddrTypeOK' /\ OneInside'
    BY <2>1 DEF AddrIInv, AddrTypeOK, OneInside
  <2>3. Told'
    BY <2>1, TableFixed DEF AddrIInv, Told
  <2> QED BY <2>2, <2>3 DEF AddrIInv
<1> QED BY <1>1, <1>2, <1>3 DEF AddrNext

LEMMA AddrInvariance == AddrSpec => []AddrIInv
<1> QED BY InitAddrIInv, NextAddrIInv, PTL DEF AddrSpec

\* What a process reads in one call, or in several after its own write, is one
\* address and its place in the process's own page table (addrmap_procfs.c:26-97,
\* convt.c:22-77).
THEOREM AddressIsOwnSound == AddrSpec => []AddressIsOwn
<1>1. AddrIInv => AddressIsOwn
  <2> SUFFICES ASSUME AddrIInv, NEW p \in Procs
               PROVE  /\ Len(got[p]) = 4 /\ (whole[p] \/ mine[p] # None) =>
                           got[p] = <<Version, got[p][2], Physical(p, got[p][2]), 0>>
                      /\ Len(got[p]) = 4 /\ mine[p] # None => got[p][2] = mine[p]
                      /\ offset[p] # Closed => g_proc
    BY DEF AddressIsOwn
  <2> USE DEF AddrIInv
  <2>1. offset[p] # Closed => g_proc
    BY OpenCount DEF OneInside, AddrTypeOK
  <2>2. ASSUME NEW a \in Addrs \cup {0}, got[p] = Lines(p, a)
        PROVE  got[p] = <<Version, got[p][2], Physical(p, got[p][2]), 0>> /\ got[p][2] = a
    BY <2>2, LinesFacts DEF AddrTypeOK
  <2>3. ASSUME Len(got[p]) = 4, mine[p] # None
        PROVE  got[p] = Lines(p, g_va) /\ mine[p] = g_va
    <3>1. got[p] \in Seq(Nat) /\ g_va \in Addrs \cup {0}
      BY DEF AddrTypeOK
    <3>2. mine[p] = g_va /\ \A n \in 1..4 : got[p][n] = Lines(p, g_va)[n]
      BY <2>3 DEF Told
    <3>3. Lines(p, g_va) \in Seq(Nat) /\ Len(Lines(p, g_va)) = 4
      BY <3>1, LinesFacts DEF AddrTypeOK
    <3> QED BY <2>3, <3>1, <3>2, <3>3, FourLines
  <2> QED BY <2>1, <2>2, <2>3 DEF Told, AddrTypeOK
<1> QED BY <1>1, AddrInvariance, PTL

-----------------------------------------------------------------------------
(* abs_diag *)

\* What only the driver's variables say.
DInv == DriverTypeOK /\ ThreadTold /\ PollStopped /\ ThreadPastLoop /\ BanksOutliveCheck

KtType == [term: BOOLEAN, exit: BOOLEAN, mcamce: BOOLEAN, mcamce_refcnt: 0..1]

AppType ==
  [pc: {"open", "read", "reset", "reread", "rereset", "shown", "try", "write",
        "ready", "check", "enter", "setup", "test", "close", "done"},
   file: {"dev", "mecc", "cecc", "cachetest"},
   verified: BOOLEAN, i: 0..SpillTries,
   stat: READY..STOP_NOMEM,
   ret: {"SUCC", "EFAIL", "EOPEN", "ENOMEM", "INPROC",
         "ERR_DD_OPEN", "ERR_TIMEOUT"}]

\* What the program's variables, the use count and Going say.
AppTypeOK ==
  /\ g_stat \in READY..STOP_NOMEM
  /\ pages \in 0..PGCNT /\ leaked \in 0..PGCNT
  /\ other \in {"idle", "ready", "check", "enter", "testing"}
  /\ seen \subseteq {"app", "other"} /\ raced \in BOOLEAN
  /\ app \in AppType

AppInv == AppTypeOK /\ RefCounted /\ OneTest /\ OneWriter /\ CodeStays

\* The use count of somebody else's open file.
Held == IF other = "idle" THEN 0 ELSE 1

LEMMA Parts == DiagIInv <=> DInv /\ AppInv
BY DEF DiagIInv, DInv, AppInv, DiagTypeOK, AppTypeOK, AppType

\* The updates of kt keep its type.
LEMMA KtSteps ==
  ASSUME NEW r \in KtType
  PROVE  /\ r.mcamce_refcnt = 0 => [r EXCEPT !.mcamce = TRUE, !.mcamce_refcnt = @ + 1] \in KtType
         /\ [r EXCEPT !.mcamce = FALSE, !.mcamce_refcnt = IF @ > 0 THEN @ - 1 ELSE @] \in KtType
         /\ [r EXCEPT !.mcamce_refcnt = 0, !.exit = TRUE] \in KtType
<1>1. ASSUME r.mcamce_refcnt = 0 PROVE [r EXCEPT !.mcamce = TRUE, !.mcamce_refcnt = @ + 1] \in KtType
  <2> DEFINE s == [r EXCEPT !.mcamce = TRUE]
  <2>1. s \in KtType /\ s.mcamce_refcnt = 0
    BY <1>1 DEF KtType
  <2>2. [s EXCEPT !.mcamce_refcnt = @ + 1] = [r EXCEPT !.mcamce = TRUE, !.mcamce_refcnt = @ + 1]
    OBVIOUS
  <2> HIDE DEF s
  <2> QED BY <2>1, <2>2 DEF KtType
<1>2. [r EXCEPT !.mcamce = FALSE, !.mcamce_refcnt = IF @ > 0 THEN @ - 1 ELSE @] \in KtType
  <2> DEFINE s == [r EXCEPT !.mcamce = FALSE]
  <2>1. s \in KtType
    BY DEF KtType
  <2>2. [s EXCEPT !.mcamce_refcnt = IF @ > 0 THEN @ - 1 ELSE @]
          = [r EXCEPT !.mcamce = FALSE, !.mcamce_refcnt = IF @ > 0 THEN @ - 1 ELSE @]
    OBVIOUS
  <2> HIDE DEF s
  <2> QED BY <2>1, <2>2 DEF KtType
<1>3. [r EXCEPT !.mcamce_refcnt = 0, !.exit = TRUE] \in KtType
  <2> DEFINE s == [r EXCEPT !.mcamce_refcnt = 0]
  <2>1. s \in KtType
    BY DEF KtType
  <2>2. [s EXCEPT !.exit = TRUE] = [r EXCEPT !.mcamce_refcnt = 0, !.exit = TRUE]
    OBVIOUS
  <2> HIDE DEF s
  <2> QED BY <2>1, <2>2 DEF KtType
<1> QED BY <1>1, <1>2, <1>3

LEMMA FileNumbers ==
  FileNo("dev") = 1 /\ FileNo("mecc") = 2 /\ FileNo("cecc") = 3 /\ FileNo("cachetest") = 4
<1>1. ProcFiles[1] = "dev" /\ ProcFiles[2] = "mecc" /\ ProcFiles[3] = "cecc"
      /\ ProcFiles[4] = "cachetest"
  BY DEF ProcFiles
<1>2. 1..4 = {1, 2, 3, 4}
  OBVIOUS
<1> QED BY <1>1, <1>2 DEF FileNo

-----------------------------------------------------------------------------
(* The driver. *)

LEMMA InitDInv == DriverInit => DInv
<1> SUFFICES ASSUME DriverInit PROVE DInv
  OBVIOUS
<1>1. DriverTypeOK
  BY AbsDiagThreadAssumption DEF DriverInit, DriverTypeOK, Kinds
<1> QED BY <1>1 DEF DriverInit, DInv, ThreadTold, PollStopped, ThreadPastLoop, BanksOutliveCheck,
                   Going, Running, AtBanks, Past

\* What insmod does.
LEMMA DiagLoadKeeps == DInv /\ LoadStep => DInv' /\ diag_refs' = diag_refs /\ ~Going'
<1> SUFFICES ASSUME DInv, LoadStep PROVE DInv' /\ diag_refs' = diag_refs /\ ~Going'
  OBVIOUS
<1> USE DEF DInv
<1>1. ASSUME NEW f \in {"dev", "mecc", "cecc", "cachetest"}, Create(f)
      PROVE  DInv' /\ diag_refs' = diag_refs /\ ~Going'
  <2>1. /\ diag_mod = "files" /\ diag_mod' \in {"files", "mcamce"} /\ FileNo(f) = Len(files) + 1
        /\ UNCHANGED <<diag_refs, kt, cnt, banks, status, thrd, bank, g_cnt, loaded, excuse>>
    BY <1>1 DEF Create
  <2>2. PICK made \in BOOLEAN : files' = Append(files, made)
    BY <1>1 DEF Create
  <2>3. files' \in Seq(BOOLEAN) /\ Len(files') <= 4
    BY <2>1, <2>2, FileNumbers DEF DriverTypeOK
  <2>4. DriverTypeOK'
    BY <2>1, <2>3 DEF DriverTypeOK
  <2> QED BY <2>1, <2>4 DEF ThreadTold, PollStopped, ThreadPastLoop, BanksOutliveCheck, Going, Past
<1>2. CASE McamceInit
  <2>1. DriverTypeOK'
    BY <1>2 DEF DriverTypeOK, McamceInit
  <2> QED BY <1>2, <2>1 DEF McamceInit, ThreadTold, PollStopped, ThreadPastLoop, BanksOutliveCheck,
                            Going, Past, AtBanks
<1>3. CASE ThrdInit
  <2>1. DriverTypeOK'
    BY <1>3 DEF DriverTypeOK, ThrdInit
  <2> QED BY <1>3, <2>1 DEF ThrdInit, ThreadTold, PollStopped, ThreadPastLoop, BanksOutliveCheck,
                            Going, Past, AtBanks, Running
<1>4. CASE McamceStart
  <2>1. DriverTypeOK'
    <3>1. kt \in KtType /\ kt.mcamce_refcnt = 0
      BY <1>4 DEF DriverTypeOK, KtType, McamceStart, ThreadTold
    <3>2. kt' \in KtType
      BY <1>4, <3>1, KtSteps DEF McamceStart
    <3> QED BY <1>4, <3>2 DEF DriverTypeOK, KtType, McamceStart
  <2> QED BY <1>4, <2>1 DEF McamceStart, ThreadTold, PollStopped, ThreadPastLoop, BanksOutliveCheck,
                            Going, Past, AtBanks, Running, DriverTypeOK
<1> QED BY <1>1, <1>2, <1>3, <1>4 DEF LoadStep, abs_diagdev_procfs_init, mecc_procfs_init,
                                      cecc_procfs_init, cachetest_procfs_init

\* The first call of rmmod.
LEMMA StopKeeps == DInv /\ McamceStop => DInv' /\ diag_refs = 0 /\ diag_refs' = diag_refs
<1> SUFFICES ASSUME DInv, McamceStop PROVE DInv' /\ diag_refs = 0 /\ diag_refs' = diag_refs
  OBVIOUS
<1> USE DEF DInv, McamceStop
<1>1. DriverTypeOK'
  <2>1. kt \in KtType
    BY DEF DriverTypeOK, KtType
  <2>2. kt' \in KtType
    BY <2>1, KtSteps
  <2> QED BY <2>2 DEF DriverTypeOK, KtType
<1> QED BY <1>1 DEF ThreadTold, PollStopped, ThreadPastLoop, BanksOutliveCheck,
                    Going, Past, AtBanks, Running, DriverTypeOK

LEMMA UnloadKeeps == DInv /\ UnloadStep => DInv' /\ diag_refs' = diag_refs /\ Going
<1> SUFFICES ASSUME DInv, UnloadStep PROVE DInv' /\ diag_refs' = diag_refs /\ Going
  OBVIOUS
<1> USE DEF DInv
<1>1. CASE ThrdStop
  <2>1. DriverTypeOK'
    BY <1>1 DEF DriverTypeOK, ThrdStop
  <2> QED BY <1>1, <2>1 DEF ThrdStop, ThreadTold, PollStopped, ThreadPastLoop, BanksOutliveCheck,
                            Going, Past, AtBanks, Running, DriverTypeOK
<1>2. CASE StopWait
  <2>1. DriverTypeOK'
    BY <1>2, AbsDiagThreadAssumption DEF DriverTypeOK, StopWait
  <2> QED BY <1>2, <2>1 DEF StopWait, ThreadTold, PollStopped, ThreadPastLoop, BanksOutliveCheck,
                            Going, Past, AtBanks, Running, DriverTypeOK
<1>3. CASE ThrdClean
  <2>1. DriverTypeOK'
    BY <1>3 DEF DriverTypeOK, ThrdClean
  <2> QED BY <1>3, <2>1 DEF ThrdClean, ThreadTold, PollStopped, ThreadPastLoop, BanksOutliveCheck,
                            Going, Past, AtBanks, Running, DriverTypeOK
<1>4. CASE McamceClean
  <2>1. DriverTypeOK'
    BY <1>4 DEF DriverTypeOK, McamceClean
  <2> QED BY <1>4, <2>1 DEF McamceClean, ThreadTold, PollStopped, ThreadPastLoop, BanksOutliveCheck,
                            Going, Past, AtBanks, Running, DriverTypeOK
<1>5. ASSUME NEW f \in {"dev", "mecc", "cecc", "cachetest"}, Remove(f)
      PROVE  DInv' /\ diag_refs' = diag_refs /\ Going
  <2>1. /\ diag_mod = "unlink" /\ diag_mod' \in {"gone", "unlink"} /\ FileNo(f) = Len(files)
        /\ files' = SubSeq(files, 1, Len(files) - 1)
        /\ UNCHANGED <<diag_refs, kt, cnt, banks, status, thrd, bank, g_cnt, loaded, excuse>>
    BY <1>5 DEF Remove
  <2>2. files' \in Seq(BOOLEAN) /\ Len(files') <= 4
    <3>1. files \in Seq(BOOLEAN) /\ Len(files) \in 1..4
      <4>1. FileNo(f) \in 1..4
        BY FileNumbers
      <4> QED BY <2>1, <4>1 DEF DriverTypeOK
    <3> QED BY <2>1, <3>1
  <2>3. DriverTypeOK'
    BY <2>1, <2>2 DEF DriverTypeOK
  <2> QED BY <2>1, <2>3 DEF ThreadTold, PollStopped, ThreadPastLoop, BanksOutliveCheck, Going, Past
<1> QED BY <1>1, <1>2, <1>3, <1>4, <1>5 DEF UnloadStep, cachetest_procfs_clean, cecc_procfs_clean,
                                            mecc_procfs_clean, abs_diagdev_procfs_clean

LEMMA ThreadKeeps == DInv /\ ThreadStep => DInv' /\ diag_refs' = diag_refs /\ diag_mod' = diag_mod
<1> SUFFICES ASSUME DInv, ThreadStep PROVE DInv' /\ diag_refs' = diag_refs /\ diag_mod' = diag_mod
  OBVIOUS
<1> USE DEF DInv
<1>1. CASE ThreadRun
  <2>1. DriverTypeOK'
    BY <1>1 DEF DriverTypeOK, ThreadRun, ThreadAt
  <2> QED BY <1>1, <2>1 DEF ThreadRun, ThreadAt, ThreadTold, PollStopped, ThreadPastLoop,
                            BanksOutliveCheck, Going, Past, AtBanks, Running, DriverTypeOK
<1>2. CASE ThreadLoop \/ ThreadSleep \/ ThreadReturn
  <2>1. DriverTypeOK'
    BY <1>2 DEF DriverTypeOK, ThreadLoop, ThreadSleep, ThreadReturn, ThreadAt
  <2> QED BY <1>2, <2>1 DEF ThreadLoop, ThreadSleep, ThreadReturn, ThreadAt, ThreadTold, PollStopped,
                            ThreadPastLoop, BanksOutliveCheck, Going, Past, AtBanks, Running
<1>3. CASE OnTimer
  <2>1. DriverTypeOK'
    BY <1>3 DEF DriverTypeOK, OnTimer, ThreadAt
  <2> QED BY <1>3, <2>1 DEF OnTimer, ThreadAt, ThreadTold, PollStopped, ThreadPastLoop,
                            BanksOutliveCheck, Going, Past, AtBanks, Running
<1>4. CASE CheckBank
  <2>1. /\ thrd = "check" /\ UNCHANGED <<diag_mod, files, diag_refs, kt, cnt, banks, status, g_cnt, excuse>>
        /\ \/ thrd' = "sleep" /\ bank' = 1 /\ loaded' = loaded
           \/ bank <= BankCount /\ bank' = bank + 1 /\ UNCHANGED <<thrd, loaded>>
           \/ bank <= BankCount /\ thrd' \in {"mecc", "cecc"} /\ loaded' = g_cnt[thrd'] /\ bank' = bank
    BY <1>4, AbsDiagThreadAssumption DEF CheckBank, CounterOf, DriverTypeOK
  <2>2. DriverTypeOK'
    <3>1. bank' \in 1..(BankCount + 1) /\ loaded' \in 0..ULONG_MAX
      BY <2>1, AbsDiagThreadAssumption DEF DriverTypeOK
    <3> QED BY <2>1, <3>1 DEF DriverTypeOK
  <2> QED BY <2>1, <2>2 DEF ThreadTold, PollStopped, ThreadPastLoop, BanksOutliveCheck,
                            Going, Past, AtBanks, Running
<1>5. ASSUME NEW f \in {"mecc", "cecc"}, Add(f)
      PROVE  DInv' /\ diag_refs' = diag_refs /\ diag_mod' = diag_mod
  <2>1. DriverTypeOK'
    BY <1>5, AbsDiagThreadAssumption DEF DriverTypeOK, Add, ThreadTold
  <2> QED BY <1>5, <2>1 DEF Add, ThreadTold, PollStopped, ThreadPastLoop, BanksOutliveCheck,
                            Going, Past, AtBanks, Running
<1>6. CASE ThreadShutdown
  <2>1. DriverTypeOK'
    <3>1. kt \in KtType
      BY DEF DriverTypeOK, KtType
    <3>2. kt' \in KtType
      BY <1>6, <3>1, KtSteps DEF ThreadShutdown
    <3> QED BY <1>6, <3>2 DEF DriverTypeOK, KtType, ThreadShutdown, ThreadAt
  <2> QED BY <1>6, <2>1 DEF ThreadShutdown, ThreadAt, ThreadTold, PollStopped, ThreadPastLoop,
                            BanksOutliveCheck, Going, Past, AtBanks, Running, DriverTypeOK
<1> QED BY <1>1, <1>2, <1>3, <1>4, <1>5, <1>6 DEF ThreadStep, mecc_procfs_add, cecc_procfs_add

LEMMA ErrorKeeps == DInv /\ HardwareError => DInv' /\ diag_refs' = diag_refs /\ diag_mod' = diag_mod
<1> SUFFICES ASSUME DInv, HardwareError PROVE DInv' /\ diag_refs' = diag_refs /\ diag_mod' = diag_mod
  OBVIOUS
<1> USE DEF DInv, HardwareError
<1>1. DriverTypeOK'
  BY DEF DriverTypeOK
<1> QED BY <1>1 DEF ThreadTold, PollStopped, ThreadPastLoop, BanksOutliveCheck, Going

\* A driver's step under the program: the module goes only while its use count is 0.
LEMMA DriverKeeps ==
  ASSUME DInv, AppInv, LoadStep \/ McamceStop \/ UnloadStep \/ ThreadStep \/ HardwareError,
         UNCHANGED appVars
  PROVE  DInv' /\ AppInv'
<1>1. /\ DInv' /\ diag_refs' = diag_refs
      /\ Going' => Going \/ diag_refs = 0
  BY DiagLoadKeeps, StopKeeps, UnloadKeeps, ThreadKeeps, ErrorKeeps DEF Going
<1>2. UNCHANGED <<g_stat, pages, leaked, other, seen, raced, app>>
  BY DEF appVars
<1>3. AppTypeOK' /\ RefCounted' /\ OneTest' /\ OneWriter'
  BY <1>1, <1>2 DEF AppInv, AppTypeOK, AppType, RefCounted, Held, OneTest, OneWriter
<1>4. CodeStays'
  BY <1>1, <1>2 DEF AppInv, CodeStays, RefCounted, Held, Inside
<1> QED BY <1>1, <1>3, <1>4 DEF AppInv

-----------------------------------------------------------------------------
(* The program. *)

\* A step of the program leaves the driver its variables, but for the use count
\* and the counters it clears.
LEMMA DInvKept ==
  ASSUME DInv, UNCHANGED <<diag_mod, files, kt, cnt, banks, status, thrd, bank, loaded, excuse>>,
         diag_refs' \in 0..2, g_cnt' \in [{"mecc", "cecc"} -> 0..ULONG_MAX]
  PROVE  DInv' /\ (Going' <=> Going)
<1>1. DriverTypeOK'
  BY DEF DInv, DriverTypeOK
<1> QED BY <1>1 DEF DInv, ThreadTold, PollStopped, ThreadPastLoop, BanksOutliveCheck, Going

LEMMA ReturnTyped ==
  ASSUME NEW where \in {"open", "done"},
         NEW ret \in {"SUCC", "EFAIL", "EOPEN", "ENOMEM", "INPROC", "ERR_DD_OPEN", "ERR_TIMEOUT"}
  PROVE  Caller(where, ret) \in AppType
BY AbsDiagAssumption DEF Caller, AppType, READY, STOP_NOMEM

\* Opening, reading and closing the files.
LEMMA DiagOpenKeeps == DInv /\ AppInv /\ OpenToRead => DInv' /\ AppInv'
<1> SUFFICES ASSUME DInv, AppInv, OpenToRead PROVE DInv' /\ AppInv'
  OBVIOUS
<1> USE DEF AppInv
<1>1. app.pc = "open" /\ diag_refs = Held /\ UNCHANGED <<g_stat, pages, leaked, other, seen, raced>>
  BY DEF OpenToRead, RefCounted, Held, Inside
<1>2. CASE ~Going /\ diag_on_open /\ app' = [app EXCEPT !.pc = "read"]
  <2>1. DInv' /\ ~Going /\ ~Going' /\ diag_refs' = 1 + Held
    BY <1>1, <1>2, DInvKept DEF Held, diag_on_open, KeepDriver, DInv, DriverTypeOK
  <2>2. AppTypeOK' /\ app'.pc = "read" /\ app'.verified = app.verified
    BY <1>1, <1>2 DEF AppTypeOK, AppType
  <2> QED BY <1>1, <2>1, <2>2 DEF RefCounted, Held, OneTest, OneWriter, CodeStays, Inside
<1>3. CASE app' = Return("ERR_DD_OPEN") /\ UNCHANGED driverVars
  <2>1. DInv' /\ (Going' <=> Going) /\ diag_refs' = Held
    BY <1>1, <1>3, DInvKept DEF Held, driverVars, DInv, DriverTypeOK
  <2>2. AppTypeOK' /\ app'.pc = "done" /\ ~app'.verified
    BY <1>1, <1>3, ReturnTyped DEF AppTypeOK, AppType, Return, Caller
  <2> QED BY <1>1, <2>1, <2>2 DEF RefCounted, Held, OneTest, OneWriter, CodeStays, Inside
<1> QED BY <1>2, <1>3 DEF OpenToRead, Openable

LEMMA ReadNextKeeps ==
  ASSUME DInv, AppInv, NEW f \in {"dev", "mecc", "cecc"}, ReadNext(f)
  PROVE  DInv' /\ AppInv'
<1> USE DEF AppInv
<1>1. app.pc = "read" /\ app.file = f /\ diag_refs = 1 + Held /\ UNCHANGED <<g_stat, pages, leaked, other, seen, raced>>
  BY DEF ReadNext, RefCounted, Held, Inside
<1>2. DInv' /\ (Going' <=> Going) /\ diag_refs' = Held
  BY <1>1, DInvKept DEF Held, ReadNext, diag_on_release, KeepDriver, DInv, DriverTypeOK
<1>3. ProcFiles[FileNo(f) + 1] \in {"dev", "mecc", "cecc", "cachetest"}
  BY FileNumbers DEF ProcFiles
<1>4. app' = [app EXCEPT !.pc = "open", !.file = ProcFiles[FileNo(f) + 1]]
  BY <1>1 DEF ReadNext
<1>5. AppTypeOK' /\ app'.pc = "open" /\ app'.verified = app.verified
  BY <1>1, <1>3, <1>4 DEF AppTypeOK, AppType
<1> QED BY <1>1, <1>2, <1>5 DEF RefCounted, Held, OneTest, OneWriter, CodeStays, Inside

\* cachetest_stat().
LEMMA StatLoadKeeps ==
  ASSUME DInv, AppInv,
         NEW from \in {"read", "reread", "write"}, NEW reset \in {"reset", "rereset", "ready"},
         NEW next \in {"reread", "shown", "check"}, NEW stat \in READY..STOP_NOMEM,
         from = "write" => reset = "ready" /\ next = "check",
         from # "write" => reset # "ready" /\ next # "check",
         StatLoad(from, reset, next, stat)
  PROVE  DInv' /\ AppInv'
<1> USE DEF AppInv
<1>1. /\ app.pc = from /\ diag_refs = 1 + Held /\ UNCHANGED <<g_stat, pages, leaked, other, raced>>
      /\ g_stat \in READY..STOP_NOMEM
      /\ seen' = (IF g_stat = INPROCESS THEN seen \cup {"app"} ELSE seen \ {"app"})
  BY DEF StatLoad, Finds, RefCounted, Held, Inside, AppTypeOK, AppType
<1>2. DInv' /\ diag_refs' = diag_refs /\ Going' = Going
  BY <1>1, DInvKept DEF StatLoad, driverVars, DInv, DriverTypeOK, Going
<1>3. app' = [app EXCEPT !.stat = stat, !.pc = IF g_stat \in Results THEN reset ELSE next]
  BY DEF StatLoad
<1>4. /\ AppTypeOK' /\ app'.pc = (IF g_stat \in Results THEN reset ELSE next)
      /\ app'.verified = app.verified
  <2> DEFINE a == [app EXCEPT !.stat = stat]
             p == IF g_stat \in Results THEN reset ELSE next
  <2>1. a \in AppType /\ a.verified = app.verified
    BY DEF AppTypeOK, AppType
  <2>2. p \in {"reset", "rereset", "ready", "reread", "shown", "check"}
    OBVIOUS
  <2>3. app' = [a EXCEPT !.pc = p]
    BY <1>3
  <2> HIDE DEF a, p
  <2>4. app' \in AppType /\ app'.pc = p /\ app'.verified = a.verified
    BY <2>1, <2>2, <2>3 DEF AppType
  <2> QED BY <1>1, <2>1, <2>4 DEF AppTypeOK, p
<1>5. RefCounted' /\ CodeStays'
  BY <1>1, <1>2, <1>4 DEF RefCounted, Held, Inside, CodeStays
<1>6. OneTest'
  BY <1>1, <1>4 DEF OneTest
<1>7. OneWriter'
  <2>1. app'.pc \in {"reset", "rereset", "ready", "enter"} => "app" \notin seen'
    BY <1>1, <1>4 DEF Results, INPROCESS, STOP_SUCC, STOP_FAIL, STOP_NOMEM
  <2> QED BY <1>1, <1>4, <2>1 DEF OneWriter
<1> QED BY <1>2, <1>4, <1>5, <1>6, <1>7

LEMMA StatStoreKeeps ==
  ASSUME DInv, AppInv,
         NEW from \in {"reset", "rereset", "ready"}, NEW next \in {"reread", "shown", "check"},
         (from = "ready") <=> (next = "check"),
         StatStore(from, next)
  PROVE  DInv' /\ AppInv'
<1> USE DEF AppInv
<1>1. /\ app.pc = from /\ diag_refs = 1 + Held /\ UNCHANGED <<pages, leaked, other, seen>>
      /\ g_stat' = READY /\ raced' = (raced \/ (g_stat = INPROCESS /\ "app" \notin seen))
      /\ app' = [app EXCEPT !.pc = next]
  BY DEF StatStore, Races, RefCounted, Held, Inside
<1>2. DInv' /\ diag_refs' = diag_refs /\ Going' = Going
  BY <1>1, DInvKept DEF StatStore, driverVars, DInv, DriverTypeOK, Going
<1>3. AppTypeOK' /\ app'.pc = next /\ app'.verified = app.verified
  BY <1>1 DEF AppTypeOK, AppType, READY, STOP_NOMEM
<1>4. RefCounted' /\ CodeStays' /\ OneTest'
  BY <1>1, <1>2, <1>3 DEF RefCounted, Held, Inside, CodeStays, OneTest
<1>5. OneWriter'
  <2>1. "app" \notin seen /\ READY # INPROCESS
    BY <1>1 DEF OneWriter, READY, INPROCESS
  <2> QED BY <1>1, <1>3, <2>1 DEF OneWriter, AppTypeOK
<1> QED BY <1>2, <1>3, <1>4, <1>5

LEMMA ReadStatKeeps == DInv /\ AppInv /\ (ReadStat \/ WriteStat) => DInv' /\ AppInv'
<1> SUFFICES ASSUME DInv, AppInv, ReadStat \/ WriteStat PROVE DInv' /\ AppInv'
  OBVIOUS
<1>1. app.stat \in READY..STOP_NOMEM /\ g_stat \in READY..STOP_NOMEM
  BY DEF AppInv, AppTypeOK, AppType
<1>2. CASE StatLoad("read", "reset", "reread", app.stat)
  BY <1>1, <1>2, StatLoadKeeps
<1>3. CASE StatLoad("reread", "rereset", "shown", g_stat)
  BY <1>1, <1>3, StatLoadKeeps
<1>4. CASE StatLoad("write", "ready", "check", app.stat)
  BY <1>1, <1>4, StatLoadKeeps
<1>5. CASE StatStore("reset", "reread") \/ StatStore("rereset", "shown") \/ StatStore("ready", "check")
  BY <1>5, StatStoreKeeps
<1> QED BY <1>2, <1>3, <1>4, <1>5 DEF ReadStat, WriteStat

LEMMA CloseReadKeeps == DInv /\ AppInv /\ CloseRead => DInv' /\ AppInv'
<1> SUFFICES ASSUME DInv, AppInv, CloseRead PROVE DInv' /\ AppInv'
  OBVIOUS
<1> USE DEF AppInv
<1>1. app.pc = "shown" /\ diag_refs = 1 + Held /\ UNCHANGED <<g_stat, pages, leaked, other, seen, raced>>
  BY DEF CloseRead, RefCounted, Held, Inside
<1>2. DInv' /\ (Going' <=> Going) /\ diag_refs' = Held
  BY <1>1, DInvKept DEF Held, CloseRead, diag_on_release, KeepDriver, DInv, DriverTypeOK
<1>3. CASE app.verified /\ app' = Return(cache_test_state(app.stat))
  <2>1. cache_test_state(app.stat) \in {"SUCC", "EFAIL", "EOPEN", "ENOMEM", "INPROC",
                                        "ERR_DD_OPEN", "ERR_TIMEOUT"}
    BY DEF cache_test_state
  <2>2. AppTypeOK' /\ app'.pc = "done" /\ ~app'.verified
    BY <1>1, <1>3, <2>1, ReturnTyped DEF AppTypeOK, AppType, Return, Caller
  <2> QED BY <1>1, <1>2, <2>2 DEF RefCounted, Held, OneTest, OneWriter, CodeStays, Inside
<1>4. CASE ~app.verified /\ app' = [app EXCEPT !.pc = "try"]
  <2>1. AppTypeOK' /\ app'.pc = "try" /\ ~app'.verified
    BY <1>1, <1>4 DEF AppTypeOK, AppType
  <2> QED BY <1>1, <1>2, <2>1 DEF RefCounted, Held, OneTest, OneWriter, CodeStays, Inside
<1> QED BY <1>3, <1>4 DEF CloseRead

LEMMA CloseKeeps == DInv /\ AppInv /\ CloseWritten => DInv' /\ AppInv'
<1> SUFFICES ASSUME DInv, AppInv, CloseWritten PROVE DInv' /\ AppInv'
  OBVIOUS
<1> USE DEF AppInv
<1>1. app.pc = "close" /\ diag_refs = 1 + Held /\ UNCHANGED <<g_stat, pages, leaked, other, seen, raced>>
  BY DEF CloseWritten, RefCounted, Held, Inside
<1>2. DInv' /\ (Going' <=> Going) /\ diag_refs' = Held
  BY <1>1, DInvKept DEF Held, CloseWritten, diag_on_release, KeepDriver, DInv, DriverTypeOK
<1>3. AppTypeOK' /\ app'.pc = "open" /\ app'.verified
  BY <1>1 DEF AppTypeOK, AppType, CloseWritten, Verify
<1> QED BY <1>1, <1>2, <1>3 DEF RefCounted, Held, OneTest, OneWriter, CodeStays, Inside

\* The test.
LEMMA TryKeeps == DInv /\ AppInv /\ Try => DInv' /\ AppInv'
<1> SUFFICES ASSUME DInv, AppInv, Try PROVE DInv' /\ AppInv'
  OBVIOUS
<1> USE DEF AppInv
<1>1. app.pc = "try" /\ diag_refs = Held /\ UNCHANGED <<g_stat, pages, leaked, other, seen, raced>>
  BY DEF Try, RefCounted, Held, Inside
<1>2. ~app.verified
  BY <1>1 DEF OneTest
<1>3. CASE UNCHANGED driverVars /\ \E r \in {"ERR_TIMEOUT", "EOPEN"} : app' = Return(r)
  <2>1. DInv' /\ (Going' <=> Going) /\ diag_refs' = Held
    BY <1>1, <1>3, DInvKept DEF Held, driverVars, DInv, DriverTypeOK
  <2>2. AppTypeOK' /\ app'.pc = "done" /\ ~app'.verified
    BY <1>1, <1>3, ReturnTyped DEF AppTypeOK, AppType, Return, Caller
  <2> QED BY <1>1, <1>2, <2>1, <2>2 DEF RefCounted, Held, OneTest, OneWriter, CodeStays, Inside
<1>4. CASE /\ app.i + 1 < SpillTries /\ UNCHANGED driverVars
           /\ app' = [app EXCEPT !.i = @ + 1, !.ret = "INPROC"]
  <2>1. DInv' /\ (Going' <=> Going) /\ diag_refs' = Held
    BY <1>1, <1>4, DInvKept DEF Held, driverVars, DInv, DriverTypeOK
  <2> DEFINE a == [app EXCEPT !.ret = "INPROC"]
  <2>2. [app EXCEPT !.i = @ + 1, !.ret = "INPROC"] = [a EXCEPT !.i = @ + 1]
    OBVIOUS
  <2>3. AppTypeOK /\ app \in AppType /\ a \in AppType /\ a.i = app.i /\ a.pc = "try" /\ ~a.verified
    BY <1>1, <1>2 DEF AppTypeOK, AppType
  <2> HIDE DEF a
  <2>4. app' \in AppType /\ app'.pc = "try" /\ ~app'.verified
    <3>1. app.i + 1 \in 0..SpillTries
      BY <1>4, <2>3, AbsDiagAssumption DEF AppType
    <3>2. app' = [a EXCEPT !.i = app.i + 1]
      BY <1>4, <2>2, <2>3
    <3> QED BY <2>3, <3>1, <3>2 DEF AppType
  <2>5. AppTypeOK'
    BY <1>1, <2>4 DEF AppTypeOK, AppType
  <2> QED BY <1>1, <1>2, <2>1, <2>4, <2>5 DEF RefCounted, Held, OneTest, OneWriter, CodeStays, Inside
<1>5. CASE /\ app.i + 1 < SpillTries /\ ~Going /\ diag_on_open
           /\ app' = [app EXCEPT !.i = @ + 1, !.pc = "write"]
  <2>1. DInv' /\ ~Going /\ ~Going' /\ diag_refs' = 1 + Held
    BY <1>1, <1>5, DInvKept DEF Held, diag_on_open, KeepDriver, DInv, DriverTypeOK
  <2> DEFINE a == [app EXCEPT !.pc = "write"]
  <2>2. [app EXCEPT !.i = @ + 1, !.pc = "write"] = [a EXCEPT !.i = @ + 1]
    OBVIOUS
  <2>3. AppTypeOK /\ app \in AppType /\ a \in AppType /\ a.i = app.i /\ a.pc = "write" /\ ~a.verified
    BY <1>1, <1>2 DEF AppTypeOK, AppType
  <2> HIDE DEF a
  <2>4. app' \in AppType /\ app'.pc = "write" /\ ~app'.verified
    <3>1. app.i + 1 \in 0..SpillTries
      BY <1>5, <2>3, AbsDiagAssumption DEF AppType
    <3>2. app' = [a EXCEPT !.i = app.i + 1]
      BY <1>5, <2>2, <2>3
    <3> QED BY <2>3, <3>1, <3>2 DEF AppType
  <2>5. AppTypeOK'
    BY <1>1, <2>4 DEF AppTypeOK, AppType
  <2> QED BY <1>1, <1>2, <2>1, <2>4, <2>5 DEF RefCounted, Held, OneTest, OneWriter, CodeStays, Inside
<1>6. CASE /\ app.i + 1 < SpillTries /\ UNCHANGED driverVars
           /\ app' = Verify([app EXCEPT !.i = @ + 1])
  <2>1. DInv' /\ (Going' <=> Going) /\ diag_refs' = Held
    BY <1>1, <1>6, DInvKept DEF Held, driverVars, DInv, DriverTypeOK
  <2>2. AppTypeOK /\ app \in AppType /\ app.i + 1 \in 0..SpillTries
    BY <1>6, AbsDiagAssumption DEF AppTypeOK, AppType
  <2> DEFINE a == [app EXCEPT !.i = app.i + 1]
  <2>3. a \in AppType
    BY <2>2 DEF AppType
  <2>4. app' = Verify(a)
    BY <1>6
  <2> HIDE DEF a
  <2>5. app' \in AppType /\ app'.pc = "open" /\ app'.verified
    BY <2>3, <2>4 DEF Verify, AppType
  <2>6. AppTypeOK'
    BY <1>1, <2>5 DEF AppTypeOK, AppType
  <2> QED BY <1>1, <2>1, <2>5, <2>6 DEF RefCounted, Held, OneTest, OneWriter, CodeStays, Inside
<1>7. \/ UNCHANGED driverVars /\ \E r \in {"ERR_TIMEOUT", "EOPEN"} : app' = Return(r)
      \/ /\ app.i + 1 < SpillTries /\ UNCHANGED driverVars
         /\ app' = [app EXCEPT !.i = @ + 1, !.ret = "INPROC"]
      \/ /\ app.i + 1 < SpillTries /\ ~Going /\ diag_on_open
         /\ app' = [app EXCEPT !.i = @ + 1, !.pc = "write"]
      \/ /\ app.i + 1 < SpillTries /\ UNCHANGED driverVars
         /\ app' = Verify([app EXCEPT !.i = @ + 1])
  BY AbsDiagAssumption DEF Try, Openable, AppTypeOK, AppType
<1> QED BY <1>3, <1>4, <1>5, <1>6, <1>7

LEMMA CheckKeeps == DInv /\ AppInv /\ CacheTestCheck => DInv' /\ AppInv'
<1> SUFFICES ASSUME DInv, AppInv, CacheTestCheck PROVE DInv' /\ AppInv'
  OBVIOUS
<1> USE DEF AppInv
<1>1. /\ app.pc = "check" /\ diag_refs = 1 + Held /\ UNCHANGED <<g_stat, pages, leaked, other, raced>>
      /\ seen' = (IF g_stat = INPROCESS THEN seen \cup {"app"} ELSE seen \ {"app"})
      /\ app' = [app EXCEPT !.pc = IF g_stat = READY THEN "enter" ELSE "close"]
  BY DEF CacheTestCheck, Finds, RefCounted, Held, Inside
<1>2. DInv' /\ diag_refs' = diag_refs /\ Going' = Going
  BY <1>1, DInvKept DEF CacheTestCheck, driverVars, DInv, DriverTypeOK, Going
<1>3. /\ AppTypeOK' /\ app'.pc = (IF g_stat = READY THEN "enter" ELSE "close")
      /\ app'.verified = app.verified
  BY <1>1 DEF AppTypeOK, AppType
<1>4. RefCounted' /\ CodeStays' /\ OneTest'
  BY <1>1, <1>2, <1>3 DEF RefCounted, Held, Inside, CodeStays, OneTest
<1>5. OneWriter'
  <2>1. app'.pc = "enter" => "app" \notin seen'
    BY <1>1, <1>3 DEF READY, INPROCESS
  <2> QED BY <1>1, <1>3, <2>1 DEF OneWriter
<1> QED BY <1>2, <1>3, <1>4, <1>5

LEMMA DiagEnterKeeps == DInv /\ AppInv /\ CacheTestEnter => DInv' /\ AppInv'
<1> SUFFICES ASSUME DInv, AppInv, CacheTestEnter PROVE DInv' /\ AppInv'
  OBVIOUS
<1> USE DEF AppInv
<1>1. /\ app.pc = "enter" /\ diag_refs = 1 + Held /\ UNCHANGED <<pages, leaked, other, seen>>
      /\ g_stat' = INPROCESS /\ app' = [app EXCEPT !.pc = "setup"]
      /\ raced' = (raced \/ (g_stat = INPROCESS /\ "app" \notin seen))
  BY DEF CacheTestEnter, Races, RefCounted, Held, Inside
<1>2. DInv' /\ diag_refs' = diag_refs /\ Going' = Going
  BY <1>1, DInvKept DEF CacheTestEnter, driverVars, DInv, DriverTypeOK, Going
<1>3. AppTypeOK' /\ app'.pc = "setup" /\ app'.verified = app.verified
  BY <1>1 DEF AppTypeOK, AppType, INPROCESS, READY, STOP_NOMEM
<1>4. pages < PGCNT /\ "app" \notin seen
  BY <1>1, AbsDiagAssumption DEF OneTest, OneWriter, AppTypeOK, AppType
<1> QED BY <1>1, <1>2, <1>3, <1>4 DEF RefCounted, Held, OneTest, OneWriter, CodeStays, Inside, AppTypeOK

LEMMA SetupKeeps == DInv /\ AppInv /\ tmemsetup => DInv' /\ AppInv'
<1> SUFFICES ASSUME DInv, AppInv, tmemsetup PROVE DInv' /\ AppInv'
  OBVIOUS
<1> USE DEF AppInv
<1>1. app.pc = "setup" /\ diag_refs = 1 + Held /\ UNCHANGED <<other, seen, raced>> /\ pages < PGCNT
  BY DEF tmemsetup, RefCounted, Held, Inside, OneTest
<1>2. DInv' /\ diag_refs' = diag_refs /\ Going' = Going
  BY <1>1, DInvKept DEF Held, tmemsetup, driverVars, DInv, DriverTypeOK, Going
<1>3. ~app.verified
  BY <1>1 DEF OneTest, AppTypeOK, AppType
<1>4. CASE /\ pages' = pages + 1 /\ UNCHANGED <<g_stat, leaked>>
           /\ app' = [app EXCEPT !.pc = IF pages + 1 = PGCNT THEN "test" ELSE "setup"]
  <2>1. /\ AppTypeOK' /\ app'.pc = (IF pages + 1 = PGCNT THEN "test" ELSE "setup")
        /\ app'.verified = app.verified
    BY <1>1, <1>4, AbsDiagAssumption DEF AppTypeOK, AppType
  <2>2. app'.pc = "setup" => pages' < PGCNT
    BY <1>1, <1>4, <2>1, AbsDiagAssumption DEF AppTypeOK, AppType
  <2> QED BY <1>1, <1>2, <1>3, <1>4, <2>1, <2>2 DEF RefCounted, Held, OneTest, OneWriter, CodeStays, Inside
<1>5. CASE /\ g_stat' = STOP_NOMEM /\ leaked' = pages /\ pages' = 0
           /\ app' = [app EXCEPT !.pc = "close"]
  <2>1. AppTypeOK' /\ app'.pc = "close" /\ app'.verified = app.verified
    BY <1>1, <1>5, AbsDiagAssumption DEF AppTypeOK, AppType, READY, STOP_NOMEM
  <2>2. STOP_NOMEM # INPROCESS
    BY DEF STOP_NOMEM, INPROCESS
  <2> QED BY <1>1, <1>2, <1>3, <1>5, <2>1, <2>2 DEF RefCounted, Held, OneTest, OneWriter, CodeStays, Inside
<1> QED BY <1>4, <1>5 DEF tmemsetup

LEMMA DoTestKeeps ==
  ASSUME DInv, AppInv, NEW ok \in BOOLEAN, DoTest(ok)
  PROVE  DInv' /\ AppInv'
<1> USE DEF AppInv
<1>1. /\ app.pc = "test" /\ diag_refs = 1 + Held /\ UNCHANGED <<leaked, other, seen, raced>> /\ pages' = 0
      /\ g_stat' \in {STOP_SUCC, STOP_FAIL}
      /\ app' = [app EXCEPT !.pc = "close"]
  BY DEF DoTest, RefCounted, Held, Inside
<1>2. DInv' /\ diag_refs' = diag_refs /\ Going' = Going
  BY <1>1, DInvKept DEF Held, DoTest, driverVars, DInv, DriverTypeOK, Going
<1>3. ~app.verified
  BY <1>1 DEF OneTest, AppTypeOK, AppType
<1>4. AppTypeOK' /\ app'.pc = "close" /\ app'.verified = app.verified
  BY <1>1, AbsDiagAssumption DEF AppTypeOK, AppType, READY, STOP_NOMEM, STOP_SUCC, STOP_FAIL
<1>5. g_stat' # INPROCESS
  BY <1>1 DEF STOP_SUCC, STOP_FAIL, INPROCESS
<1> QED BY <1>1, <1>2, <1>3, <1>4, <1>5 DEF RefCounted, Held, OneTest, OneWriter, CodeStays, Inside

\* Somebody else's calls, and the counters.
LEMMA OtherKeeps == DInv /\ AppInv /\ OtherStep => DInv' /\ AppInv'
<1> SUFFICES ASSUME DInv, AppInv, OtherStep PROVE DInv' /\ AppInv'
  OBVIOUS
<1> USE DEF AppInv
<1> DEFINE inside == IF app.pc \in Inside THEN 1 ELSE 0
<1>1. UNCHANGED <<pages, leaked, app>> /\ inside \in 0..1 /\ diag_refs = inside + Held
      /\ g_stat \in READY..STOP_NOMEM
  BY DEF OtherStep, OtherLoads, OtherStores, OtherChecks, OtherEnters, OtherEnds, RefCounted, Held, AppTypeOK
<1>2. /\ DInv' /\ (Going' <=> Going) /\ diag_refs' = inside + Held'
      /\ other = "idle" => ~Going
  <2>1. /\ UNCHANGED <<diag_mod, files, kt, cnt, banks, status, thrd, bank, loaded, excuse, g_cnt>>
        /\ diag_refs' = inside + Held'
        /\ other = "idle" => ~Going
    BY <1>1 DEF OtherStep, OtherLoads, OtherStores, OtherChecks, OtherEnters, OtherEnds, Openable,
           diag_on_open, diag_on_release, KeepDriver, driverVars, Held, DInv, DriverTypeOK
  <2>2. Held \in 0..1 /\ Held' \in 0..1
    BY DEF Held
  <2> HIDE DEF inside
  <2>3. diag_refs' \in 0..2
    <3>1. \A x, y \in 0..1 : x + y \in 0..2
      OBVIOUS
    <3>2. inside \in 0..1
      BY <1>1
    <3>3. Held' \in 0..1 /\ diag_refs' = inside + Held'
      BY <2>1, <2>2
    <3>4. inside + Held' \in 0..2
      BY <3>1, <3>2, <3>3
    <3> QED BY <3>3, <3>4
  <2> QED BY <2>1, <2>3, DInvKept DEF DInv, DriverTypeOK
<1>3. RefCounted' /\ OneTest' /\ CodeStays'
  BY <1>1, <1>2 DEF RefCounted, Held, OneTest, CodeStays
<1>4. AppTypeOK' /\ OneWriter'
  <2> USE DEF READY, INPROCESS, STOP_SUCC, STOP_FAIL, STOP_NOMEM, Results, AppTypeOK, OneWriter
  <2>1. CASE OtherLoads
    BY <1>1, <2>1 DEF OtherLoads, Finds
  <2>2. CASE OtherStores
    <3>1. "other" \notin seen
      BY <2>2 DEF OtherStores
    <3>2. raced' = (raced \/ (g_stat = INPROCESS /\ "other" \notin seen))
      BY <2>2 DEF OtherStores, Races
    <3>3. raced \in BOOLEAN /\ raced' \in BOOLEAN /\ UNCHANGED seen
      BY <3>2, <2>2 DEF OtherStores
    <3>4. AppTypeOK'
      BY <1>1, <3>3, <2>2 DEF OtherStores
    <3>5. ~raced' => ~raced /\ g_stat # INPROCESS
      BY <3>1, <3>2
    <3>6. OneWriter'
      BY <1>1, <3>1, <3>3, <3>5, <2>2 DEF OtherStores
    <3> QED BY <3>4, <3>6
  <2>3. CASE OtherChecks
    BY <1>1, <2>3 DEF OtherChecks, Finds
  <2>4. CASE OtherEnters
    <3>1. "other" \notin seen
      BY <2>4 DEF OtherEnters
    <3>2. raced' = (raced \/ (g_stat = INPROCESS /\ "other" \notin seen))
      BY <2>4 DEF OtherEnters, Races
    <3>3. raced \in BOOLEAN /\ raced' \in BOOLEAN /\ UNCHANGED seen
      BY <3>2, <2>4 DEF OtherEnters
    <3>4. AppTypeOK'
      BY <1>1, <3>3, <2>4 DEF OtherEnters
    <3>5. ~raced' => ~raced /\ g_stat # INPROCESS
      BY <3>1, <3>2
    <3>6. OneWriter'
      BY <1>1, <3>1, <3>3, <3>5, <2>4 DEF OtherEnters
    <3> QED BY <3>4, <3>6
  <2>5. CASE OtherEnds
    BY <1>1, <2>5 DEF OtherEnds
  <2> QED BY <2>1, <2>2, <2>3, <2>4, <2>5 DEF OtherStep
<1> QED BY <1>2, <1>3, <1>4

LEMMA ClearKeeps ==
  ASSUME DInv, AppInv, NEW f \in {"mecc", "cecc"}, Clear(f)
  PROVE  DInv' /\ AppInv'
<1> USE DEF AppInv
<1>1. UNCHANGED <<diag_mod, files, diag_refs, kt, cnt, banks, status, thrd, bank, loaded, excuse,
                  g_stat, pages, leaked, other, seen, raced, app>>
  BY DEF Clear, appVars
<1>2. g_cnt' \in [{"mecc", "cecc"} -> 0..ULONG_MAX] /\ diag_refs \in 0..2
  BY AbsDiagThreadAssumption DEF Clear, DInv, DriverTypeOK
<1>3. DInv' /\ Going' = Going
  BY <1>1, <1>2, DInvKept DEF Going
<1> QED BY <1>1, <1>3 DEF AppTypeOK, AppType, RefCounted, Held, OneTest, OneWriter, CodeStays

LEMMA DiagInitIInv == DiagInit => DiagIInv
<1> SUFFICES ASSUME DiagInit PROVE DiagIInv
  OBVIOUS
<1>1. DInv
  BY InitDInv DEF DiagInit
<1>2. AppTypeOK
  <2>1. app \in AppType
    BY ReturnTyped DEF DiagInit
  <2>2. g_stat \in READY..STOP_NOMEM
    BY DEF DiagInit, READY, STOP_NOMEM
  <2>3. pages \in 0..PGCNT /\ leaked \in 0..PGCNT
    BY AbsDiagAssumption DEF DiagInit
  <2>4. /\ other \in {"idle", "ready", "check", "enter", "testing"}
        /\ seen \subseteq {"app", "other"} /\ raced \in BOOLEAN
    BY DEF DiagInit
  <2> QED BY <2>1, <2>2, <2>3, <2>4 DEF AppTypeOK
<1>3. RefCounted /\ OneTest /\ OneWriter /\ CodeStays
  BY AbsDiagAssumption DEF DiagInit, DriverInit, Caller, RefCounted, Held, OneTest, OneWriter, CodeStays, Inside,
                           READY, INPROCESS
<1> QED BY <1>1, <1>2, <1>3, Parts DEF AppInv

\* IInv is inductive.
LEMMA DiagNextIInv ==
  ASSUME DiagIInv, [DiagNext]_diagVars
  PROVE  DiagIInv'
<1>0. DInv /\ AppInv
  BY Parts
<1>1. SUFFICES DInv' /\ AppInv'
  BY PTL, Parts
<1>2. CASE (LoadStep \/ McamceStop \/ UnloadStep \/ ThreadStep \/ HardwareError) /\ UNCHANGED appVars
  BY <1>0, <1>2, DriverKeeps
<1>3. CASE AppStep
  BY <1>0, <1>3, DiagOpenKeeps, ReadNextKeeps, ReadStatKeeps, CloseReadKeeps, TryKeeps, CheckKeeps, DiagEnterKeeps,
     SetupKeeps, DoTestKeeps, CloseKeeps DEF AppStep, ReadDev, ReadMecc, ReadCecc
<1>4. CASE OtherStep \/ ClearMecc \/ ClearCecc
  BY <1>0, <1>4, OtherKeeps, ClearKeeps DEF ClearMecc, ClearCecc
<1>5. CASE UNCHANGED diagVars
  <2>1. UNCHANGED <<driverVars, appVars>>
    BY <1>5 DEF diagVars
  <2>2. DInv' /\ diag_refs' = diag_refs /\ Going' = Going
    BY <1>0, <2>1, DInvKept DEF driverVars, DInv, DriverTypeOK, Going
  <2> QED BY <1>0, <2>1, <2>2 DEF appVars, AppInv, AppTypeOK, AppType, RefCounted, Held, OneTest, OneWriter, CodeStays
<1> QED BY <1>2, <1>3, <1>4, <1>5 DEF DiagNext, AtRest

LEMMA DiagInvariance == DiagSpec => []DiagIInv
<1> QED BY DiagInitIInv, DiagNextIInv, PTL DEF DiagSpec

-----------------------------------------------------------------------------
(* The properties. *)

\* When rmmod gives the module's memory back, the thread has left its loop unless it
\* had not run yet or did not stop in time; the banks are there while it polls; no
\* call of the program is inside (abs_diag_main.c:81-109, abs_diag_thrd.c:62-118).
THEOREM UnloadIsSafeSound == DiagSpec => []UnloadIsSafe
<1>1. DiagIInv => UnloadIsSafe
  BY DEF DiagIInv, UnloadIsSafe
<1> QED BY <1>1, DiagInvariance, PTL

\* As long as no store of g_stat replaces an INPROCESS set after its caller's load, one
\* test at a time has the pages, and INPROCESS is neither left behind nor taken away,
\* whoever reads and writes the file (cachetest.c:105-152).
THEOREM TestIsAloneSound == DiagSpec => []TestIsAlone
<1>1. DiagIInv => TestIsAlone
  BY DEF DiagIInv, TestIsAlone, OneTest, OneWriter
<1> QED BY <1>1, DiagInvariance, PTL
=============================================================================
