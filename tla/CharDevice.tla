----------------------------- MODULE CharDevice -----------------------------
(* The character device of the driver memtest (MemoryModule.c): how it is     *)
(* made and taken away, and mmtest_mmap(), by which the program gets the      *)
(* memory it tests.  A request is mapped piece by piece: for each variable    *)
(* MTRR the part of the request it covers, with vm_start, vm_end and vm_pgoff *)
(* of the caller's vma set to that piece for the call of remap_pfn_range().   *)
(* The ioctls are in BootmemRegions.  Addresses count pages.                  *)
EXTENDS Integers, FiniteSets, FiniteSetsExt

CONSTANTS Frames,               \* the page frames of the machine, 0..n
          MTRR_MAX_VAR_RANGES,  \* the variable MTRRs
          MTRRs,                \* what a variable MTRR may hold
          VmStart               \* where the caller's vma begins

\* The lowest bit of the mask, a set of bit numbers here, gives the size.
Size(m) == 2^Min(m.mask)

ASSUME CharDeviceAssumption ==
  /\ MTRR_MAX_VAR_RANGES \in Nat \ {0} /\ VmStart \in Nat
  /\ IsFiniteSet(Frames) /\ Frames # {} /\ Frames = 0..(Cardinality(Frames) - 1)
  /\ \A m \in MTRRs : m \in [valid: BOOLEAN, base: Frames, mask: SUBSET Nat]
                      /\ m.mask # {} /\ Size(m) \in Nat

VARIABLES mod,     \* where init or exit of the module stands
          held,    \* what the module has taken from the kernel
          opened,  \* the device is open, which holds the module
          pc,      \* where mmtest_mmap() is
          asked,   \* the request: first frame, number of pages
          mtrr,    \* mtrr_state.var_ranges
          i,       \* the MTRR the loop is at
          vma,     \* vm_start, vm_end, vm_pgoff
          pte      \* the page table: frame of a virtual page, or NoFrame

deviceVars == <<mod, held, opened>>
mapVars == <<pc, asked, mtrr, i, vma, pte>>
vars == <<deviceVars, mapVars>>

NoFrame == -1

\* Room around the vma shows a page that is mapped outside of it.
VirtualPages == VmStart..(VmStart + 3 * Cardinality(Frames))

Requests == {r \in [start_pfn: Frames, pages: 1..Cardinality(Frames)] :
               r.start_pfn + r.pages <= Cardinality(Frames)}

\* start_pfn and end_pfn are of 32 bits: the frames lie below 16 TB.
Original == [vm_start |-> VmStart, vm_end |-> VmStart + asked.pages,
             vm_pgoff |-> asked.start_pfn]

TypeOK ==
  /\ mod \in {"class", "region", "device", "alloc", "add", "live", "failed",
              "gone"}
  /\ held \subseteq {"class", "region", "device", "cdev"}
  /\ opened \in BOOLEAN
  /\ pc \in {"idle", "loop", "remapped", "refused", "returned",
             "failed", "BUG"}
  /\ asked \in Requests /\ mtrr \in [1..MTRR_MAX_VAR_RANGES -> MTRRs]
  /\ i \in 1..(MTRR_MAX_VAR_RANGES + 1)
  /\ vma \in [vm_start: VirtualPages, vm_end: VirtualPages, vm_pgoff: Frames]
  /\ pte \in [VirtualPages -> Frames \cup {NoFrame}]

Init ==
  /\ mod = "class" /\ held = {} /\ opened = FALSE
  /\ pc = "idle" /\ i = 1
  /\ asked \in Requests /\ mtrr \in [1..MTRR_MAX_VAR_RANGES -> MTRRs]
  /\ vma = Original
  /\ pte = [v \in VirtualPages |-> NoFrame]

-----------------------------------------------------------------------------
(* mmtest_init_module(), mmtest_exit_module()                                 *)

\* What a step of the initialisation takes, and what comes after it.
Steps == [class |-> "region", region |-> "device", device |-> "alloc",
          alloc |-> "add", add |-> "live"]
Takes == [class |-> {"class"}, region |-> {"region"}, device |-> {"device"},
          alloc |-> {"cdev"}, add |-> {}]

InitStep ==
  /\ mod \in DOMAIN Steps
  /\ mod' = Steps[mod] /\ held' = held \cup Takes[mod]
  /\ UNCHANGED <<opened, mapVars>>

\* The labels unregister_chrdev and destroy_mmtest_class.  Neither destroys the
\* device, and alloc failing leaves no cdev to delete.
InitFails ==
  /\ mod \in DOMAIN Steps
  /\ mod' = "failed"
  /\ held' = held \ {"class", "region", "cdev"}
  /\ UNCHANGED <<opened, mapVars>>

\* mmtest_exit_module() does not give the region back.
mmtest_exit_module ==
  /\ mod = "live" /\ ~opened
  /\ mod' = "gone" /\ held' = held \ {"device", "class", "cdev"}
  /\ UNCHANGED <<opened, mapVars>>

\* The kernel finds the cdev once cdev_add() has returned.
mmtest_open ==
  /\ mod = "live" /\ ~opened /\ pc = "idle"
  /\ opened' = TRUE /\ pc' = "loop"
  /\ UNCHANGED <<mod, held, asked, mtrr, i, vma, pte>>

mmtest_release ==
  /\ opened /\ pc \in {"returned", "failed"}
  /\ opened' = FALSE
  /\ UNCHANGED <<mod, held, mapVars>>

-----------------------------------------------------------------------------
(* mmtest_mmap()                                                              *)

end_pfn == asked.start_pfn + asked.pages
mtrr_start == mtrr[i].base
mtrr_end == mtrr[i].base + Size(mtrr[i])

\* The MTRR is off, or covers nothing of the request.
Skipped == \/ ~mtrr[i].valid
           \/ asked.start_pfn >= mtrr_end \/ end_pfn <= mtrr_start

map_start_pfn == IF asked.start_pfn > mtrr_start THEN asked.start_pfn
                                                 ELSE mtrr_start

map_end_pfn == IF end_pfn > mtrr_end THEN mtrr_end ELSE end_pfn

SkipMTRR ==
  /\ pc = "loop" /\ i <= MTRR_MAX_VAR_RANGES /\ Skipped
  /\ i' = i + 1
  /\ UNCHANGED <<deviceVars, pc, asked, mtrr, vma, pte>>

Piece == LET start == vma.vm_start + (map_start_pfn - asked.start_pfn)
         IN [vm_start |-> start, vm_end |-> start + (map_end_pfn - map_start_pfn),
             vm_pgoff |-> map_start_pfn]

RemapFromRequest == asked.start_pfn

\* The first frame given to remap_pfn_range().
RemapFrom == map_start_pfn

Mapped(v, n) == v.vm_start..(v.vm_start + n - 1)

\* remap_pfn_range() fails with the first n pages mapped; a page that is mapped
\* already is a bug to it.
MapPiece ==
  /\ pc = "loop" /\ i <= MTRR_MAX_VAR_RANGES /\ ~Skipped
  /\ vma' = Piece
  /\ LET all == map_end_pfn - map_start_pfn
     IN IF \E v \in Mapped(Piece, all) : pte[v] # NoFrame
          THEN pc' = "BUG" /\ UNCHANGED pte
          ELSE \E n \in 0..all :
                 /\ pte' = [v \in VirtualPages |->
                              IF v \in Mapped(Piece, n)
                                THEN RemapFrom + (v - Piece.vm_start)
                                ELSE pte[v]]
                 /\ pc' = IF n = all THEN "remapped" ELSE "refused"
  /\ UNCHANGED <<deviceVars, asked, mtrr, i>>

\* vm_start, vm_end and vm_pgoff are put back.
Restore ==
  /\ pc = "remapped"
  /\ pc' = "loop" /\ i' = i + 1 /\ vma' = Original
  /\ UNCHANGED <<deviceVars, asked, mtrr, pte>>

\* What the kernel unmaps when the error comes back.
Unmapped(v) == [w \in VirtualPages |->
                  IF w \in v.vm_start..(v.vm_end - 1) THEN NoFrame ELSE pte[w]]

GiveUpAsIs ==
  /\ pc = "refused" /\ pc' = "failed"
  /\ pte' = Unmapped(vma)
  /\ UNCHANGED <<deviceVars, vma, asked, mtrr, i>>

\* They are put back before the error is returned, too.
GiveUp ==
  /\ pc = "refused" /\ pc' = "failed"
  /\ vma' = Original /\ pte' = Unmapped(Original)
  /\ UNCHANGED <<deviceVars, asked, mtrr, i>>

MmapReturns ==
  /\ pc = "loop" /\ i > MTRR_MAX_VAR_RANGES
  /\ pc' = "returned"
  /\ UNCHANGED <<deviceVars, asked, mtrr, i, vma, pte>>

Next == InitStep \/ InitFails \/ mmtest_exit_module \/ mmtest_open
        \/ mmtest_release \/ SkipMTRR \/ MapPiece \/ Restore \/ GiveUp
        \/ MmapReturns

Spec == Init /\ [][Next]_vars

-----------------------------------------------------------------------------
(* Properties                                                                 *)

\* What the program writes at offset n of the mapping reaches frame
\* start_pfn + n, in whatever order the MTRRs cut the request into pieces
\* (MemoryModule.c:159-175): a piece is placed by a vm_start that was put back.
MapsTrue ==
  \A v \in VirtualPages : pte[v] # NoFrame =>
    /\ v \in VmStart..(VmStart + asked.pages - 1)
    /\ pte[v] = asked.start_pfn + (v - VmStart)

CoveredBy(n, frame) == /\ mtrr[n].valid /\ frame >= mtrr[n].base
                       /\ frame < mtrr[n].base + Size(mtrr[n])

\* A page of the request is there when mmap() has succeeded if and only if some
\* MTRR covers it: the five comparisons lose no page at a boundary.
CoveredIsMapped ==
  pc = "returned" =>
    \A n \in 0..(asked.pages - 1) :
      pte[VmStart + n] # NoFrame
        <=> \E m \in 1..MTRR_MAX_VAR_RANGES : CoveredBy(m, asked.start_pfn + n)

\* An mmap() that failed leaves the vma as it was and no page mapped, also not
\* those of the pieces before the one that failed.
FailureUndone ==
  pc = "failed" => vma = Original /\ \A v \in VirtualPages : pte[v] = NoFrame

\* remap_pfn_range() meets a mapped page only where two MTRRs overlap.
BugOnlyOnOverlap ==
  pc = "BUG" => \E m, n \in 1..MTRR_MAX_VAR_RANGES, f \in Frames :
                  m # n /\ CoveredBy(m, f) /\ CoveredBy(n, f)

\* A load that failed has given back class, region and cdev, whichever step it
\* was (MemoryModule.c:357-361), and an open device has all it needs: the device
\* node, visible before the cdev is added, cannot be opened too early.
LoadIsWhole ==
  /\ mod = "failed" => held \subseteq {"device"}
  /\ opened => held = {"class", "region", "device", "cdev"} /\ mod = "live"

\* The program gets the frames it asked for, each at its place.
MappingRight == TypeOK /\ MapsTrue /\ CoveredIsMapped

\* Whatever fails leaves nothing half done behind.
FailuresUndone == FailureUndone /\ BugOnlyOnOverlap /\ LoadIsWhole

-----------------------------------------------------------------------------
(* The inductive invariant behind MappingRight and FailuresUndone.            *)

\* Between two pieces the vma is the caller's.
VmaPutBack == pc \in {"idle", "loop", "returned", "failed"} => vma = Original

\* The page table shows the pieces of the MTRRs before i, and after remap_pfn_range()
\* that of i.
Covered(last) ==
  \A n \in 0..(asked.pages - 1) :
    pte[VmStart + n] # NoFrame
      <=> \E m \in 1..MTRR_MAX_VAR_RANGES : m <= last /\ CoveredBy(m, asked.start_pfn + n)

PiecesMapped ==
  /\ pc = "idle" => i = 1
  /\ pc \in {"idle", "loop", "returned"} => Covered(i - 1)
  /\ pc = "remapped" => Covered(i) /\ i <= MTRR_MAX_VAR_RANGES
  /\ pc = "returned" => i > MTRR_MAX_VAR_RANGES

\* What the module holds at each step of its load.
Holds == [class |-> {}, region |-> {"class"}, device |-> {"class", "region"},
          alloc |-> {"class", "region", "device"},
          add |-> {"class", "region", "device", "cdev"},
          live |-> {"class", "region", "device", "cdev"}]

LoadHolds ==
  /\ mod \in DOMAIN Holds => held = Holds[mod]
  /\ mod = "failed" => held \subseteq {"device"}
  /\ opened => mod = "live"

IInv == TypeOK /\ MapsTrue /\ VmaPutBack /\ PiecesMapped /\ LoadHolds /\ FailureUndone
        /\ BugOnlyOnOverlap
=============================================================================
