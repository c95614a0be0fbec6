--------------------------- MODULE ModuleLifecycle ---------------------------
(***************************************************************************)
(* Who holds which resource when: main() calls init_module(), which fills  *)
(* the lists of ranges and maps the read/write ones, module_test(), whose  *)
(* test child inherits all of it, and close_module().  Ctrl-C can arrive   *)
(* between any two steps; its handler releases what it finds and exits.    *)
(*                                                                         *)
(* A region stands for the range made of it, for its list node (with the   *)
(* nodes of its slices) and for its mapping.  The MCE child uses none of   *)
(* them.  What the kernel frees when a process ends is left as it is, to   *)
(* see what the program itself released.                                   *)
(***************************************************************************)
EXTENDS Naturals, FiniteSets

CONSTANT Region  \* the boot-memory regions of the driver

ASSUME RegionAssumption == IsFiniteSet(Region)

Proc == {"main", "test"}

VARIABLES
  list_info,        \* the option that lists the regions
  clear_ecc,        \* the option that clears the machine-check log
  region_type,      \* "rw" or "ro"
  todo,             \* regions init_module() has not looked at
  stage,
  after,            \* how a process ends once it has released its resources
  heads,            \* the list heads are initialized (all zero before)
  RW_list, RD_list,
  heap,             \* allocated nodes
  loose,            \* nodes that are allocated but on no list
  mapped,           \* regions mapped into the process
  mmtest_fd,        \* "none", "open" or "closed"
  istr,             \* the test child's table of ranges
  pending,          \* signals a process has not handled
  outcome,
  ctrl_c            \* Ctrl-C was pressed

input == <<list_info, clear_ecc, region_type>>
lists == <<heads, RW_list, RD_list, heap, loose>>
fate == <<outcome, after>>
signals == <<pending, ctrl_c>>
lifeVars == <<input, todo, stage, lists, mapped, mmtest_fd, istr, fate, signals>>

-----------------------------------------------------------------------------
Running(p) == stage[p] \notin {"none", "ended"}

\* A process takes its own steps when no signal is pending.
At(p, l) == stage[p] = l /\ pending[p] = {}

Goto(p, l) == stage' = [stage EXCEPT ![p] = l]

End(p, o) == Goto(p, "ended") /\ outcome' = [outcome EXCEPT ![p] = o]

\* Go on at l, or fail.
GotoOrFail(p, l) == (Goto(p, l) /\ UNCHANGED outcome) \/ End(p, "FAIL")

Listed(p) == RW_list[p] \cup RD_list[p]

-----------------------------------------------------------------------------
(* init_module() *)

\* signal_a(SIGINT, sig_ctrlC_exit) comes first.
Install ==
  /\ At("main", "install")
  /\ GotoOrFail("main", "config")
  /\ UNCHANGED <<input, todo, after, lists, mapped, mmtest_fd, istr, signals>>

\* The e820 map, the test items, get_mem_info() and the check of the window:
\* the lists are not there yet.
Configure ==
  /\ At("main", "config")
  /\ GotoOrFail("main", "lists")
  /\ UNCHANGED <<input, todo, after, lists, mapped, mmtest_fd, istr, signals>>

InitLists ==
  /\ At("main", "lists")
  /\ heads' = [heads EXCEPT !["main"] = TRUE]
  /\ Goto("main", "open")
  /\ UNCHANGED <<input, todo, RW_list, RD_list, heap, loose, mapped, mmtest_fd, istr, fate, signals>>

Open ==
  /\ At("main", "open")
  /\ \/ /\ mmtest_fd' = [mmtest_fd EXCEPT !["main"] = "open"]
        /\ Goto("main", "regions") /\ UNCHANGED outcome
     \/ End("main", "FAIL") /\ UNCHANGED mmtest_fd
  /\ UNCHANGED <<input, todo, after, lists, mapped, istr, signals>>

\* An ioctl() or an mmap() fails: the device is closed, the mappings stay.
RegionFails ==
  /\ At("main", "regions")
  /\ mmtest_fd' = [mmtest_fd EXCEPT !["main"] = "closed"]
  /\ End("main", "FAIL")
  /\ UNCHANGED <<input, todo, after, lists, mapped, istr, signals>>

\* The region is outside of the window, or what is left of it is too small.
SkipRegion(r) ==
  /\ At("main", "regions") /\ loose["main"] = {} /\ r \in todo
  /\ todo' = todo \ {r}
  /\ UNCHANGED <<input, stage, lists, mapped, mmtest_fd, istr, fate, signals>>

\* mmap() of a read/write range, unless it is only listed, and malloc() of a node.
MapRegion(r) ==
  /\ At("main", "regions") /\ loose["main"] = {} /\ r \in todo
  /\ todo' = todo \ {r}
  /\ mapped' = [mapped EXCEPT !["main"] =
                  @ \cup (IF list_info \/ region_type[r] = "ro" THEN {} ELSE {r})]
  /\ loose' = [loose EXCEPT !["main"] = {r}]
  /\ heap' = [heap EXCEPT !["main"] = @ \cup {r}]
  /\ UNCHANGED <<input, stage, heads, RW_list, RD_list, mmtest_fd, istr, fate, signals>>

\* list_add() makes the node visible with its last assignment.
AddRegion(r) ==
  /\ At("main", "regions") /\ r \in loose["main"]
  /\ IF region_type[r] = "rw"
     THEN RW_list' = [RW_list EXCEPT !["main"] = @ \cup {r}] /\ UNCHANGED RD_list
     ELSE RD_list' = [RD_list EXCEPT !["main"] = @ \cup {r}] /\ UNCHANGED RW_list
  /\ loose' = [loose EXCEPT !["main"] = {}]
  /\ UNCHANGED <<input, todo, stage, heads, heap, mapped, mmtest_fd, istr, fate, signals>>

\* Listing ends the program, and so do an empty window and the clearing of the
\* log; test_policy() can fail.
RegionsDone ==
  /\ At("main", "regions") /\ todo = {} /\ loose["main"] = {}
  /\ IF list_info
     THEN Goto("main", "free") /\ after' = [after EXCEPT !["main"] = "LISTED"] /\ UNCHANGED outcome
     ELSE IF Listed("main") = {} THEN End("main", "FAIL") /\ UNCHANGED after
     ELSE IF clear_ecc THEN UNCHANGED after /\ \E o \in {"CLEARED", "FAIL"} : End("main", o)
     ELSE \/ Goto("main", "fork") /\ UNCHANGED fate
          \/ Goto("main", "unmap") /\ after' = [after EXCEPT !["main"] = "FAIL"] /\ UNCHANGED outcome
  /\ UNCHANGED <<input, todo, lists, mapped, mmtest_fd, istr, signals>>

-----------------------------------------------------------------------------
(* module_test() and close_module() *)

Inherit(f) == f' = [f EXCEPT !["test"] = f["main"]]

\* The test child gets a copy of everything; the fork can fail.
Fork ==
  /\ At("main", "fork")
  /\ \/ /\ stage' = [stage EXCEPT !["main"] = "wait", !["test"] = "rd"]
        /\ Inherit(heads) /\ Inherit(RW_list) /\ Inherit(RD_list) /\ Inherit(heap)
        /\ Inherit(loose) /\ Inherit(mapped) /\ Inherit(mmtest_fd)
        /\ UNCHANGED outcome
     \/ End("main", "FAIL") /\ UNCHANGED <<lists, mapped, mmtest_fd>>
  /\ UNCHANGED <<input, todo, istr, after, signals>>

\* Variant: close_module() without release_munmap_close().
WaitUnclosed ==
  /\ At("main", "wait") /\ stage["test"] = "ended"
  /\ \/ /\ outcome["test"] = "PASS" /\ Goto("main", "free")
        /\ after' = [after EXCEPT !["main"] = "PASS"] /\ UNCHANGED outcome
     \/ End("main", "FAIL") /\ UNCHANGED after
  /\ UNCHANGED <<input, todo, lists, mapped, mmtest_fd, istr, signals>>

\* main() closes the module only after a successful test; it may also fail by
\* what it finds of machine checks.
Wait ==
  /\ At("main", "wait") /\ stage["test"] = "ended"
  /\ \/ /\ outcome["test"] = "PASS" /\ Goto("main", "unmap")
        /\ after' = [after EXCEPT !["main"] = "PASS"] /\ UNCHANGED outcome
     \/ End("main", "FAIL") /\ UNCHANGED after
  /\ UNCHANGED <<input, todo, lists, mapped, mmtest_fd, istr, signals>>

\* read_only_test() maps and unmaps each range; a failing mmap() closes the
\* device, a failing isys_cpu_bind() does not.
ReadOnlyTest ==
  /\ At("test", "rd")
  /\ \/ Goto("test", "copy") /\ UNCHANGED <<outcome, mmtest_fd>>
     \/ /\ RD_list["test"] # {}
        /\ End("test", "FAIL")
        /\ \E fd \in {mmtest_fd["test"], "closed"} : mmtest_fd' = [mmtest_fd EXCEPT !["test"] = fd]
  /\ UNCHANGED <<input, todo, after, lists, mapped, istr, signals>>

\* read_write_test() copies the ranges to istr and releases the lists.
CopyLists ==
  /\ At("test", "copy") /\ RW_list["test"] # {}
  /\ istr' = RW_list["test"]
  /\ Goto("test", "free")
  /\ after' = [after EXCEPT !["test"] = "testing"]
  /\ UNCHANGED <<input, todo, lists, mapped, mmtest_fd, outcome, signals>>

NoReadWriteTest ==
  /\ At("test", "copy") /\ RW_list["test"] = {}
  /\ End("test", "PASS")
  /\ UNCHANGED <<input, todo, after, lists, mapped, mmtest_fd, istr, signals>>

\* The threads are joined; then release_munmap_close(), release_list_resource()
\* and a second close().  Without a pattern file there is none of this.
EndTests ==
  /\ At("test", "testing")
  /\ \/ /\ \E o \in {"PASS", "FAIL"} : after' = [after EXCEPT !["test"] = o]
        /\ Goto("test", "unmap")
        /\ UNCHANGED outcome
     \/ End("test", "FAIL") /\ UNCHANGED after
  /\ UNCHANGED <<input, todo, lists, mapped, mmtest_fd, istr, signals>>

-----------------------------------------------------------------------------
(* release_munmap_close() and release_list_resource() *)

\* munmap() of a range on the list; without a list, none.
Unmap(p, r) ==
  /\ At(p, "unmap") /\ r \in RW_list[p] \cap mapped[p]
  /\ mapped' = [mapped EXCEPT ![p] = @ \ {r}]
  /\ UNCHANGED <<input, todo, stage, lists, mmtest_fd, istr, fate, signals>>

CloseDevice(p) ==
  /\ At(p, "unmap") /\ RW_list[p] \cap mapped[p] = {}
  /\ mmtest_fd' = [mmtest_fd EXCEPT ![p] = "closed"]
  /\ Goto(p, "free")
  /\ UNCHANGED <<input, todo, lists, mapped, istr, fate, signals>>

\* Variant: free() comes before list_del().
UnlinkFreed(p, r) ==
  /\ At(p, "free") /\ loose[p] = {} /\ r \in Listed(p)
  /\ IF r \in heap[p]
     THEN heap' = [heap EXCEPT ![p] = @ \ {r}] /\ UNCHANGED <<RW_list, RD_list, loose>>
     ELSE /\ RW_list' = [RW_list EXCEPT ![p] = @ \ {r}]
          /\ RD_list' = [RD_list EXCEPT ![p] = @ \ {r}]
          /\ UNCHANGED <<heap, loose>>
  /\ UNCHANGED <<input, todo, stage, heads, mapped, mmtest_fd, istr, fate, signals>>

\* list_del()
Unlink(p, r) ==
  /\ At(p, "free") /\ loose[p] = {} /\ r \in Listed(p)
  /\ RW_list' = [RW_list EXCEPT ![p] = @ \ {r}]
  /\ RD_list' = [RD_list EXCEPT ![p] = @ \ {r}]
  /\ loose' = [loose EXCEPT ![p] = {r}]
  /\ UNCHANGED <<input, todo, stage, heads, heap, mapped, mmtest_fd, istr, fate, signals>>

Free(p, r) ==
  /\ At(p, "free") /\ r \in loose[p]
  /\ heap' = [heap EXCEPT ![p] = @ \ {r}]
  /\ loose' = [loose EXCEPT ![p] = {}]
  /\ UNCHANGED <<input, todo, stage, heads, RW_list, RD_list, mapped, mmtest_fd, istr, fate, signals>>

Released(p) ==
  /\ At(p, "free") /\ Listed(p) = {} /\ loose[p] = {}
  /\ IF after[p] = "testing" THEN Goto(p, "testing") /\ UNCHANGED outcome ELSE End(p, after[p])
  /\ UNCHANGED <<input, todo, after, lists, mapped, mmtest_fd, istr, signals>>

-----------------------------------------------------------------------------
(* Signals *)

CtrlC ==
  /\ ~ctrl_c /\ Running("main") /\ stage["main"] # "install"
  /\ ctrl_c' = TRUE
  /\ pending' = [p \in Proc |-> IF Running(p) THEN pending[p] \cup {"SIGINT"} ELSE pending[p]]
  /\ UNCHANGED <<input, todo, stage, lists, mapped, mmtest_fd, istr, fate>>

\* sig_ctrlC_exit() aborts the test child, unmaps and closes, and walks the
\* lists.  release_munmap_close() and the first walk look whether RW_list is
\* set up; the walk of RD_list does not look, and its next pointer is NULL.
sig_ctrlC_exit(p) ==
  /\ Running(p) /\ "SIGINT" \in pending[p]
  /\ pending' = [q \in Proc |-> IF q = p THEN {}
                                ELSE IF q = "test" /\ Running(q) THEN pending[q] \cup {"SIGABRT"}
                                ELSE pending[q]]
  /\ mapped' = [mapped EXCEPT ![p] = @ \ RW_list[p]]
  /\ mmtest_fd' = [mmtest_fd EXCEPT ![p] = IF @ = "none" THEN @ ELSE "closed"]
  /\ heap' = [heap EXCEPT ![p] = @ \ Listed(p)]
  /\ RW_list' = [RW_list EXCEPT ![p] = {}]
  /\ RD_list' = [RD_list EXCEPT ![p] = {}]
  /\ End(p, IF heads[p] THEN "EINTR" ELSE "crashed")
  /\ UNCHANGED <<input, todo, after, heads, loose, istr, ctrl_c>>

Aborted ==
  /\ Running("test") /\ "SIGABRT" \in pending["test"]
  /\ pending' = [pending EXCEPT !["test"] = {}]
  /\ End("test", "killed")
  /\ UNCHANGED <<input, todo, after, lists, mapped, mmtest_fd, istr, ctrl_c>>

-----------------------------------------------------------------------------
LifeInit ==
  /\ list_info \in BOOLEAN /\ clear_ecc \in BOOLEAN /\ region_type \in [Region -> {"rw", "ro"}]
  /\ todo = Region
  /\ stage = [p \in Proc |-> IF p = "main" THEN "install" ELSE "none"]
  /\ after = [p \in Proc |-> "none"]
  /\ heads = [p \in Proc |-> FALSE]
  /\ RW_list = [p \in Proc |-> {}] /\ RD_list = [p \in Proc |-> {}]
  /\ heap = [p \in Proc |-> {}] /\ loose = [p \in Proc |-> {}]
  /\ mapped = [p \in Proc |-> {}] /\ mmtest_fd = [p \in Proc |-> "none"]
  /\ istr = {} /\ pending = [p \in Proc |-> {}]
  /\ outcome = [p \in Proc |-> "none"] /\ ctrl_c = FALSE

InitModule == \/ Install \/ Configure \/ InitLists \/ Open \/ RegionFails \/ RegionsDone
              \/ \E r \in Region : SkipRegion(r) \/ MapRegion(r) \/ AddRegion(r)
ModuleTest == Fork \/ Wait \/ ReadOnlyTest \/ CopyLists \/ NoReadWriteTest \/ EndTests
ReleaseStep(p) == \/ CloseDevice(p) \/ Released(p)
                  \/ \E r \in Region : Unmap(p, r) \/ Unlink(p, r) \/ Free(p, r)

\* main() has returned.
Finished == (\A p \in Proc : ~Running(p)) /\ UNCHANGED lifeVars

LifeNext == \/ InitModule \/ ModuleTest \/ CtrlC \/ Aborted \/ Finished
        \/ \E p \in Proc : ReleaseStep(p) \/ sig_ctrlC_exit(p)

LifeSpec == LifeInit /\ [][LifeNext]_lifeVars

-----------------------------------------------------------------------------
Label == {"none", "install", "config", "lists", "open", "regions", "fork", "wait", "rd", "copy",
          "testing", "unmap", "free", "ended"}
Outcome == {"none", "PASS", "FAIL", "LISTED", "CLEARED", "EINTR", "killed", "crashed"}

LifeTypeOK ==
  /\ list_info \in BOOLEAN /\ clear_ecc \in BOOLEAN
  /\ region_type \in [Region -> {"rw", "ro"}] /\ todo \subseteq Region
  /\ stage \in [Proc -> Label] /\ after \in [Proc -> Outcome \cup {"testing"}]
  /\ heads \in [Proc -> BOOLEAN]
  /\ RW_list \in [Proc -> SUBSET Region] /\ RD_list \in [Proc -> SUBSET Region]
  /\ heap \in [Proc -> SUBSET Region] /\ loose \in [Proc -> SUBSET Region]
  /\ mapped \in [Proc -> SUBSET Region] /\ mmtest_fd \in [Proc -> {"none", "open", "closed"}]
  /\ istr \subseteq Region
  /\ pending \in [Proc -> SUBSET {"SIGINT", "SIGABRT"}]
  /\ outcome \in [Proc -> Outcome] /\ ctrl_c \in BOOLEAN

\* The lists hold no freed node and share none with the steps that insert or
\* free one: wherever Ctrl-C interrupts init_module() or a release, its handler frees
\* no node a second time.
NoDoubleFree ==
  \A p \in Proc : Listed(p) \subseteq heap[p] /\ Listed(p) \cap loose[p] = {}

\* The threads test ranges that are mapped into the test child, although its
\* lists are gone by then: releasing a list does not unmap.
TestsOnMapped == stage["test"] = "testing" => istr # {} /\ istr \subseteq mapped["test"]

\* After a PASS main() has given everything back: no mapping, no node and no
\* open device is left, whatever the test child did with its copies of them.
PassReleases ==
  outcome["main"] = "PASS" =>
    mapped["main"] = {} /\ heap["main"] = {} /\ mmtest_fd["main"] = "closed"

\* What a process frees it owns, once, and what the threads touch is mapped,
\* though each list has two copies after the fork() and Ctrl-C may run the
\* release in the middle of another (mem_controller.c:171-208).
ResourcesSound == NoDoubleFree /\ TestsOnMapped
-----------------------------------------------------------------------------
(* The inductive invariant behind NoDoubleFree, TestsOnMapped and PassReleases. *)

\* Every node is on a list or in the hands of the one step that holds it, and
\* main() makes a node of a region only when the loop has come to it.
Nodes ==
  /\ NoDoubleFree
  /\ \A p \in Proc : heap[p] = Listed(p) \cup loose[p]
  /\ \A p \in Proc : \A q, r \in loose[p] : q = r
  /\ todo \cap heap["main"] = {}

\* Until it is released, a range is mapped exactly while it has a node.
MainHolds ==
  /\ PassReleases
  /\ stage["main"] \in {"install", "config", "lists", "open"} => RW_list["main"] = {} /\ loose["main"] = {}
  /\ \A r \in mapped["main"] : region_type[r] = "rw"
  /\ stage["main"] \notin {"free", "ended"} => mapped["main"] \subseteq RW_list["main"] \cup loose["main"]
  /\ stage["main"] \in {"regions", "fork", "wait"} /\ ~list_info => RW_list["main"] \subseteq mapped["main"]
  /\ stage["main"] = "regions" /\ ~list_info =>
       \A r \in loose["main"] : region_type[r] = "rw" => r \in mapped["main"]
  /\ stage["main"] \in {"fork", "wait", "unmap"} => loose["main"] = {} /\ ~list_info
  /\ stage["main"] = "free" /\ after["main"] = "PASS" => mapped["main"] = {} /\ mmtest_fd["main"] = "closed"
  /\ after["main"] = "PASS" => stage["main"] \in {"unmap", "free", "ended"}
  /\ after["main"] # "testing"
  /\ stage["main"] # "ended" => outcome["main"] = "none"

\* The child's copy of the ranges stays mapped until its tests are over.
ChildHolds ==
  /\ stage["test"] = "unmap" => after["test"] # "testing"
  /\ stage["test"] \in {"rd", "copy"} => RW_list["test"] \subseteq mapped["test"]
  /\ stage["test"] = "testing" \/ (stage["test"] = "free" /\ after["test"] = "testing") =>
       istr # {} /\ istr \subseteq mapped["test"]

IInv == LifeTypeOK /\ Nodes /\ MainHolds /\ ChildHolds
=============================================================================
