# testMoBoMemory in TLA+

`testMoBoMemory` is a command-line memory tester for a mother board: it asks the
kernel module `memtest` for the physical memory regions, maps the writable ones,
splits them into slices, tests the slices with one thread per core, and watches
`/dev/mcelog` for machine checks meanwhile.  Its verdict is one exit status.
This directory specifies that program in TLA+; paths below are relative to
`src/testMoBoMemory/`.

## 1. Inventory

| component | source | state it keeps | operations | hard behaviours | what makes it correct |
|---|---|---|---|---|---|
| test controller | `app/mem_src/mem_controller.c` `module_test()` 789-977, handlers 120-166, 503-512; `mem_main.c` 609-693 | `pida`, `pidb`, `mce_flag`, `termination_flag`, `ret_flag` | fork, wait, kill, five signal handlers, verdict | three processes, signals at any point, half-known pids, failing forks | PASS only when earned, a reported machine check is never masked, no process left behind, it ends |
| MCE child | `app/mem_src/mcelog/mcelog.c` 1036-1255, `eventloop.c` 156-206 | the poll table, the log | install, open, poll, read, notify | killed before its handler is there; dies unnoticed | it ends when it is aborted; each read is notified |
| error codes | `mem_err.h`, `testlib/memory_err.h`, `mem_main.c` 59-133 | none | five conversions in a row | a low byte of 0 would be a PASS | no failure becomes 0 |
| command line | `mem_main.c` 208-536, 609-661, `utils.c` | `test_parm` | instance check, options, `parse()` | defaults, repeated options | a request is served as asked or refused |
| test items, test window | `task_generator.c` 426-452, 524-810 | `test_item[]`, ranges | expansion of `-t 0~4,9`, intersection with each region, rounding, lists | equal bounds, empty windows, an array filled to its end | exactly the asked items and the window's memory |
| module life cycle | `task_generator.c` `init_module()` 368-810, `close_module()` 820-827, `release_*` | lists of ranges, mappings, the descriptor | init, test, close, Ctrl-C | partial initialization, release in two processes | nothing released twice or left mapped |
| test policy | `task_generator.c` 67-314 | slice lists | split of each range, choice of cores | rounding, rest, stale `remain` | slices partition the range |
| range table | `mem_controller.c` 536-578, 645-660 | `istr` | copy, release, sort | unbounded index, overlay of counters and slices | every slice reaches the threads |
| read/write test | `mem_controller.c` 304-423, 522-726 | `thread[]`, `thread_stru[]`, `ret_val[]`, `ret` | create, join, collect, run a slice | arrays reused by every round, failed creations, neighbours overwritten by a join | success means every slice tested without error |
| read-only test | `mem_controller.c` 425-499 | none | map, read, unmap | - | an unmappable range is a failure |
| algorithms, cache tests | `app/testlib/mem_test.c`, `cache_*.c`, `mem_controller.c` 304-365 | memory words, pattern, counters | 12 test functions and 4 of the cache | partial chunks, patterns carried between sweeps, results overwritten | a good memory passes, the fault an algorithm is made for is reported |
| spill and tag test | `app/testlib/cache_spill.c`, `absdiag_dev.c` | state of the driver's test | four files of `abs_diag` | somebody else's test, bounded retries | it returns |
| driver `memtest`: boot-memory map | `driver/kmod/module_s/memtest/src/numa.c`, `e820_kernel.c`, `app/mem_src/e820.c` | `nodemap`, `bregion` | parse SRAT, add active ranges, generate regions | overlapping and adjacent ranges, table limits, tables never reset | regions sorted, disjoint, all of RAM |
| driver `memtest`: character device | `MemoryModule.c` | what is held, open count, the vma | init, exit, open, mmap in pieces, release | failing steps, MTRRs that overlap | maps the frames asked for, undoes what it did |
| driver `abs_diag` | `driver/kmod/module_s/abs_diag/src` | kernel thread, bank table, counters, `g_stat` | load, unload, poll of the banks, cache test | three actors without a lock | unloading takes nothing from the thread, errors are counted |
| driver `addrmap` | `driver/kmod/module_s/addrmap/src` | one address for all users | write an address, read its translation | another process writes in between | an answer is about one address, the right one when nobody interferes |
| memory error accounting | `mcelog/{memdb,page,leaky-bucket,rbtree,intel}.c`, `mcelog.c` | DIMMs, sockets, pages, buckets | account, age, trigger, offline | bursts over a period's end, lost errors, failed offlining | each record is one error on each account |
| record collection | `mcelog.c` `decodefatal()` 640-880 | a half-read record | fields, restart, dump | records without a mark between them | a decoded record is of one piece |
| daemon | `mcelog/{eventloop,server,client,trigger}.c` | poll table, connections, child processes | accept, read, write, fork, SIGCHLD | callbacks that change the table walked, partial sends, handler within `mcelog_fork()` | answers whole and once, children counted, every client served |
| DMI, configuration, decoding's text, file helpers, lists, logging | see section 6 | | | | - |
| not built | `*_bak.c`, `mcelog/{db,dimm,diskdb,dbquery}.c` and others | | | | dead code |

How they interact: `main()` parses the command line and calls `init_module()`, `module_test()`,
`close_module()`.  `init_module()` fills `test_config` (ranges, items), maps the writable ranges
through the driver and lets `test_policy()` split them.  `module_test()` forks the
MCE child and the test child; they inherit the lists and mappings and from then on
talk with their parent only through signals (`SIGUSR1` from the MCE child,
`SIGUSR2` to the test child, `SIGABRT` to the MCE child) and exit statuses.  The
test child copies the lists to a table, frees them and runs its threads.

## 2. Modules

Left: the module; `MC*` modules only give the constants of its runs their values,
`*Proofs` modules hold its theorems; `AbsDiag` has all its constants in its `.cfg`.

**`TestController`** (with `ErrorCodes`) - `module_test()`, `main()` around it, the
MCE child and the frame of the test child.  `pc[p]` is the next system call of
process `p`; `pida[p]`, `pidb[p]` are the process's *own copies* of the two globals,
copied by `fork()`; `pending[p]` is the set of signals not yet delivered,
`status[p]` what `waitpid()` will report.  One action per system call together with
the code up to the next one (`ForkMce`, `StorePida`, ...), so a signal can arrive
between a `fork()` and the assignment of its result.  Each signal handler is an
action (`sig_mce_exit`, `sig_ctrlC_exit`, `USR2_signal_exit`, ...); a process takes
its own steps only while it has nothing pending.  `ErrorCodes` translates the five
conversions of a code (`exit()`'s byte, `pr_exit()`, `+ 0xA1000000`, `code_map[]`,
the shell's byte) as arithmetic on 32-bit codes, kept as pairs of 16 bits.

**`TestPolicy`** - `test_policy()`: one action per range; `SliceList` is the loop over
the cores, with the rounding to pages and the variable `remain` that survives a range.

**`RangeTable`** extends `TestPolicy` - the copy of the lists to `istr`, the release
of the lists and the bubble sort.  The table is a sequence of slots of three words,
because the code bounds no index: a row's 17th slice lands on its own `slice_num`,
`start` and `end`.

**`ReadWriteTest`** - `read_write_test()` and its threads: `thread[]`,
`thread_stru[]` and `ret_val[]` with what stays in them between rounds, failures of
`pthread_create()`, and the join that stores eight bytes into an element of four.
What an algorithm returns is an input here; `MemoryTests` says what it is.

**`ModuleLifecycle`** - who holds which list node, mapping and descriptor in `main()`
and the test child, from `init_module()` to `close_module()`, with Ctrl-C between any
two steps and in the middle of `list_add()` or of a release.

**`BootmemRegions`** - the driver's tables: parsing of the SRAT, registration of the
e820 map node by node, merging, sorting and the cut at `mem=`.  The tables outlive the
program, so the model runs the program several times.

**`MemoryTests`** composes **`PatternTests`** (own address, moving inversions, random
sequence, modulo 20, March C, bit fade) and **`LoopTests`** (walking ones, random
address, block move), which share the variables and the
hardware of **`TestFunction`**.  A pattern test is a table: the calls a test item makes
(`Calls`, `Call`), the sweeps of a call (`movinv1`, `movinvr`, `modtst`, `march_c`,
`Sweep`) and one engine that visits a word per step (`NextChunk`, `VisitWord`,
`EndChunk`), with the pattern `movinv32()` carries from word to word
(`RestartPattern`, `NextPattern`).  The hardware is external: a word is a function
from bits, and at most one fault acts on loads and stores.

The cache tests are in **`CacheTests`**, a third part of `MemoryTests`: walking and stuck bit,
mixed reads and writes, random data.

**`StartUp`** extends **`CommandLine`** - `CheckInstance()`, each option of `parse()`, the root check;
then `init_module()`: the expansion of the items, each region of the driver cut with the window by
the five cases of the code (`WindowRange`), the rounding to pages, the two lists and the gaps that are
listed as not testable.  A string is its class (`Hex(digits)`, an item row, an operand).

**`AbsDiag`** extends **`AbsDiagThread`** - the driver `abs_diag` with its three actors: the task in
`insmod` or `rmmod`, the kernel thread that polls the machine check banks (its `g_cnt ++` in two
steps, `loaded`), the hardware; and the spill and tag test of the program on top, with somebody else
who reads and writes the driver's file again and again.  Each load and each store of `g_stat` is a step of
its own, in both calls of `cachetest_stat()` of a read and in `cachetest()`.

**`CharDevice`** and **`AddrMap`** - the other two drivers: `mmtest_mmap()` piece by piece (`Piece`,
`RemapFrom`, `Restore`...) with the module's init and exit; and `addrmap`'s file, whose address
is shared by all processes.  They share no state and are explored one at a time in one run.

**`MceAccounting`** - `process()` of a record: type of the CPU, time, `intel_memory_error()`, with the
databases in **`MemDb`** (leaky buckets, hash chains of DIMMs and sockets) and **`PageErrors`** (pages,
offlining).  **`ErrorLedger`** is what it promises: a count per account, where the accounts of a record are read off the
record itself - page, DIMM and socket - and not off what the databases did with it.  **`RbTree`** is the
red-black tree the pages hang on, as in the code with colours, parents and rotations, and **`RbTreeUse`** a
client of it; **`OrderedSet`** is what it promises.  **`DecodeFatal`** is `mcelog --ascii`, which collects
records from the log of a dying kernel.

**`McelogDaemon`** extends **`TriggerChildren`** (`mcelog_fork()` with the steps of `list_add_tail()`, `child_handler()`, the
limit on children; `childlist` is what a walk from the list's head finds, `head_prev` the entry before the head) with the
table of descriptors (and what unregistering leaves behind in it) and the server's
connections with clients that connect, ask, read a part of the answer and hang up.

How the modules fit together: `BootmemRegions` says which pages the program is offered,
`ModuleLifecycle` how long their mappings live, `TestPolicy` and `RangeTable` how they
become slices, `ReadWriteTest` how slices become threads and results, `MemoryTests`
what a thread does with its slice, `TestController` how the results of the processes
become the exit status; `StartUp` gives the ranges and items the others start from, `CharDevice` the
mappings.  The interfaces are constants: `RWResults` of `TestController` is
what `ReadWriteTest` returns, `AlgorithmErrors` of `ReadWriteTest` what `MemoryTests`
returns, and `PageSlices`, proved of `TestPolicy`, is the assumption of `MemoryTests` on
its slices.

## 3. Runs

A property here is often a conjunction of named parts, each stated and commented on its own in the module;
the table names the parts.

| run | expected | what it shows | bounds, and why they are enough |
|---|---|---|---|
| `TestController` | pass | `PassIsEarned`, `MceNotMasked`, `ChildrenReaped` (`AbortReachesMceChild`, `NoOrphan`); under fairness `Terminates` and `CtrlCEndsAll` | three faults of the log, one Ctrl-C, either fork failing; results of each kind of code.  Signals do not queue, so more faults only repeat states |
| `RangeTable` | pass | `SlicesRight` (`RangesPartitioned`, `CoresAssigned`, `PageSlices`), `TableHandsOver` (`EverySliceTested`, `LargestFirst`) | up to four ranges of 1-11 pages, 0-6 cores of at most 5, each `-d`: fewer pages than cores, as many, more, with and without rest; a table of 3 rows of 3 slices, so that slices overwrite the row's counters, the next row and what is behind the table; ints of 8 values, so that overwritten fields wrap |
| `ReadWriteTest` | pass | `SuccessIsEarned`, `RoundsApart` (`NoStraggler`), `SliceTestedOnce`; under fairness `TestEnds` | two items, rows of 3 and 1 slices, 3 thread ids, one failed creation: a stale id can name its own old thread, another running one, or none |
| `ModuleLifecycle` | pass | `ResourcesSound` (`NoDoubleFree`, `TestsOnMapped`), `PassReleases` | three regions (symmetric), each read-only or read/write; one Ctrl-C per process |
| `BootmemRegions` | pass | `RegionsSafe` (`OnlyRam`, `KernelUntouched`), `RegionsComplete` (`AllRamListed`, `RegionsDisjoint`), `RerunAddsNothing` | 16 pages of 2 bytes, up to three of nine blocks in any order, one of them shorter than a page; six e820 maps: three by address, one unordered, one with an entry without length, one with entries that overlap; four limits, tables of 4, two runs.  `RegionsComplete` and `RerunAddsNothing` are about maps and SRATs without overlaps (section 5 says what happens with the others) |
| `MemoryTests` | pass | `VerdictRight` (`NoFalseAlarm`; what the stuck bit, March C, the address and the cache tests report), `OwnSliceOnly`; under fairness `Returns` | words of 4 bits, chunks of 8 words, slices of half a chunk, one and one and a half (walking ones: a slice without a bank's first word, two with one or two of the words that lie `UL_BYTES * BankWords` apart; block move: half a chunk and one and a half; cache: two banks and a half); stuck, transition, coupling faults at the first and the last word, dead lines below and above a page |
| `MemoryTests_s` | violation | `SlowModeVerifies` | the same |
| `StartUp` | pass | `ItemsAsAsked`, `WindowRight` (`WindowTested`, `RangesOrdered`, `GapsAreTheRest`), `ZeroIsEarned` | pages of 3 bytes, two lists of regions, every window over them, so that each bound lies below, at and above each bound of a region and of a page; every option alone, and pairs of the main ones; item lists up to and beyond the array |
| `AbsDiag` | pass | `UnloadIsSafe` (`ThreadPastLoop`, `BanksOutliveCheck`, `CodeStays`), `TestIsAlone`; `ErrorCounted` and, under fairness, `SpillReturns` | one bank that may log any kind of error, a counter that wraps after 1, two pages, two tries, one sleep before `rmmod` gives up, at most one file that cannot be made |
| `CharDevice` | pass | `MappingRight`, `FailuresUndone`; of `addrmap`, `AddressIsOwn` | four frames and three MTRRs on any aligned ranges - gaps, touching, overlapping; two processes, two addresses, pages that are there, swapped or absent |
| `MceAccounting` | pass | `RedBlack`, `ImplementsOrderedSet`, `DatabasesHold`, `BurstTriggers`, `OfflinedOnce`, `ImplementsLedger`, `RecordsWhole` | trees of 6 keys, which take every case of insertion and removal; seven records (kinds of CPU, with and without address, time, DIMM), four of them, three periods, five configurations, hashes that collide; logs of four out of nine lines |
| `McelogDaemon` | pass | `TableRight`, `AnswersRight`, `ChildrenRight`; under fairness `ClientsServed` | three clients, one of them refused, a table of 4 slots, answers in three pieces, three triggers with a limit of two, four events; the handler between any two of the six steps of `mcelog_fork()`, with the list empty, of one child and of two |

`CHECK_DEADLOCK FALSE` stands where the component simply ends (a return, the last run of
the program); the others end in states with a self-loop or go on.

**Fairness.**  `TestController`: weak fairness of each process, because the kernel
schedules every runnable process and delivers pending signals; nothing is assumed
about machine checks or Ctrl-C.  `ReadWriteTest`: weak fairness of the main thread and of
each thread, whose algorithms are finite loops - which `Returns` of `MemoryTests`
checks, from weak fairness of the one thread there.  `AbsDiag`: weak fairness of the kernel thread, of
the steps of an `insmod` or `rmmod` that has begun and of the program's calls; nothing of other users or the hardware.  `McelogDaemon`: weak fairness of the event loop, of the
code of `mcelog_fork()` and of each client that reads its answer; a client need not ask anything.  The other
specifications state safety only.

**Refinement.**  `ImplementsOrderedSet` maps `RbTreeUse` to `OrderedSet` by the walk of `rb_first()` and
`rb_next()`; `ImplementsLedger` maps `MceAccounting` to `ErrorLedger` by what the databases hold when they
are looked up as their users do.  The ledger's step for a record names the record, so the refinement has to say which one was
read: `nread` and the history variable `latest` say so, and a record that is read is no stuttering step.  What the ledger
takes the CPU for is `cpu.type`, as the code has it when the record is counted.

**Bounds on the memory model.**  Real sizes are 64-bit words, chunks of 32 M words, a
stride of 20, banks of 1 MB.  The model keeps what matters of them: a pattern shorter than
a chunk and than a slice (so it wraps), a stride that divides neither, a bank smaller than a
slice, and slices that end within, at and behind a chunk.  Slices are whole pages
(`PageSlices`): with a slice of `n * SPINSZ + 2` words the top-down loop of `movinv1()`
would skip a word, which whole pages exclude.  The block move needs an even number of
iterations (the table has 80): with an odd number the blocks it compares are shifted by
half and a good memory fails.  The compared blocks must lie in the lower half of the first
chunk, as they do until a slice has 8 M chunks.

**Atomicity.**  `abs_diag`: a 64-bit MSR or pointer is read or written at once; `g_cnt ++` is a load and a
store, and so is `cachetest_stat()`, with another load and store of `g_stat` in `cachetest()` (112, 113).  Loads of the
same variable with nothing between them (142-147, and `p->mcamce` in `dt_on_timer()`) are one, as the kernel's `-O2`
makes them.  `g_stat` has no lock, so `TestIsAlone` holds only until a store replaces an `INPROCESS` that was set after
the load the store was decided on (`raced`, with `seen` who found `INPROCESS` at its last load).  Two callers are enough for
that: one that loaded the result of a test, or found `READY`, just before the other began to test.  `TriggerChildren`: `num_children++` is two steps because the Makefile builds without `-O`; so are the load of `head->prev`
and the stores of `next->prev` and `prev->next` in `list_add_tail()` (`list.h:49`, 52, 79) - the stores to the new entry are seen by nobody
before the last of them.  `child_handler()` is one step, for `SIGCHLD` is blocked while it runs.  `ChildrenRight` says what it keeps
right always, and what until it has taken out the entry that `list_add_tail()` had loaded (`torn`); from then on a store to
freed memory may abort the program (`MallocAborts`).  What else such a store does, and the handler's `free()` within the program's own
`malloc()`, are left out.  A callback of the event loop is one step except for the fork it makes.
Times and counts of the buckets in `MemDb` stay below the width of their types.

## 4. Proofs

All theorems hold for every value of the constants that satisfies the named assumptions
of the module, and all follow the same argument: an inductive invariant `IInv`, a lemma
that `Init` implies it, one that each action preserves it, and `Invariance`.

* `TestControllerProofs` (assumes only that no result of a test has a low byte of 0 unless
  it is success, and facts on `errno`): `TypeCorrect`, `PassSound`, `MceSound`, `AbortSound`,
  `NoOrphanSound`, and of the last two `ChildrenSound`.  `IInv` adds to the type `ProcessTree` (which process exists at which step
  of `main()`, and who knows whose pid), `Notification` (a machine check that was seen is in
  `mce_flag` or pending), `TestStatus` (the test child's status is success only after all
  phases), `InterruptReachesAll` and `ReturnedCode` (the code `main()` carries reflects what it
  has learnt).  None of the properties is inductive: `PassIsEarned` speaks of the exit, and what
  makes it true was written down by another process many steps earlier.
* `TestPolicyProofs` (a page has at least one byte, ranges are whole pages):
  `PartitionSound`, `CoresSound`, `PagesSound`, together `PolicySound`, and `TypeCorrect`.  `IInv` adds `RemainClean`, that the
  variable that survives a range is 0 where mode `SPECIFIC` uses it.  The core is arithmetic:
  `StepFacts`, `SplitFacts` bound the step and the rest, `SliceListFacts` says what the loop builds.
  `TableHandsOverSound`, of `RangeTable` (an int holds the number of a core and of a row's slices), proves `TableHandsOver` from
  `TableIInv`: `RowsAreRanges` (the rows in use and the ranges copied are the same, which swapping two rows keeps because no
  slot of one row is a slot of another) and `PassesSort`, the bubble sort's invariant: the last `n` rows are in their place, row
  `m` is the smallest up to it, and once a pass has come to the rows in their place there is one more of them.  `LargestFirst` holds
  also where slices have overwritten a row's bounds.  TLC checked `TableIInv` at the run's bounds.
* `ModuleProofs`, for `ModuleLifecycle` (finitely many regions): `FreedOnce`, `TestsSound` (together
  `OwnershipSound`), `PassSound`, `TypeCorrect`.  `IInv` adds `Nodes` (the lists hold allocated nodes, each once), `MainHolds` and
  `ChildHolds` (what each process holds at each step, in particular while Ctrl-C's handler works).
* `ModuleProofs`, for `MemoryTests` (any slice that begins on a page, any sizes of chunks and
  banks, any fault among the slice's own cells): `OwnSliceOnlySound`.  Assumed are `SliceAssumption`, `AddressAssumption`, `ChunkAssumption` (a chunk of the
  block move is whole pairs of blocks), `CacheAssumption` and `PatternAssumption`.  `MemIInv` consists of `SliceRight` (the arguments stay as
  they are) and `Positions`: where each function stands between two stores - the chunk and the pointer of a sweep
  upwards or downwards, the bank of the walking ones, the block of a move, the word that carries a pattern on.
  The walking ones store to addresses with one more bit set and go on by `UL_BYTES * BankWords` words; both are
  compared with the end before the store.  A dead line sends a store to another cell (`CellOf`); `FaultIn` chooses lines that
  join words of the same slice, which `SliceFaults` carries through the proof.
* `ModuleProofs`, for `MemoryTests` (in addition `SweepAssumption`, `FaultAssumption`): `VerdictSound`, that is `VerdictRight` for every
  memory; `GoodMemoryPasses` is the part about a good one, `TypeOK` and `NoFalseAlarm`.  A slice is whole pages and a chunk (`SPINSZ`) too: a sweep
  downwards would leave out the first word if a chunk ended right above it.  A block move turns the halves of its
  blocks around in each iteration, so they must be even in number (there are 80), and looks at one block for
  each chunk, all in the first chunk's lower half, as 32 MB of them hold.  `VerdictIInv` is `MemIInv`, `MemTypes`, `PatternState` (call, sweep, chunk
  and word of a pattern test) and what the memory holds if it is good: `GoodPattern` - a word the sweep has visited
  holds what it writes, any other what it expects, of a pattern that `movinv32()` turns on with each word and
  rebuilds for the way back (`Rotations`: shifting back what was shifted on), for `modtst()` only the words of the call's offset - and
  `LoopsGood`, for each other test: the words filled so far, the half of each block turned around so far (`MoveGood`), the word that carries
  a pattern on (`CarryGood`), the half slice copied (`RandDataGood`).
* Of a faulty memory `FaultyIInv` adds to `VerdictIInv`, for each kind of fault, how far a test can get before it reports
  (`FaultyGood`).  *A stuck bit* (`StuckGood`): the second sweep passes the word only if the pattern has the value the bit is stuck at,
  and then the third, which expects the complement, does not; of the calls of `modtst()` two look at the word, with a pattern and
  its complement.  *A bit that cannot change* (`TransitionGood`) is found by March C's fourth sweep at the latest.  *A coupling*
  (`CouplingGood`): in the first iteration the one word changes in the direction that matters in a sweep upwards (`First`) and again in one
  downwards three sweeps later; the other word's bit has one value then and the other now, so one of the two does harm
  (`Harm`), and the next visit to that word, in the same sweep or a later one, reads it before it writes (`Due`).  That `march_c()` forgets the result
  of its seventh sweep loses nothing: the eighth sees the same bit.  *A dead line* (`LineGood`): the own address test and March C find in the
  cell of two words what they stored through the other; the walking ones (`WalkLineGood`) come to the line in their first walk, because the bits they skip
  and those they walk double the mask through the divisors of the line, and store over the word they watch.  *A stuck bit of a word the cache
  tests look at* (`WatchedGood`): the pattern passes the bit over zeros only if it is stuck at 1, and over ones never.
* `BootmemRegionsProofs`: `OnlyRamOffered`, `KernelSafe` and both as `RegionsSound`, for every SRAT - blocks in any order,
  overlapping, contradicting - every firmware map and any number of runs; `TypeCorrect`
  says that no table overflows.  `IInv` adds `Tables` (what is registered when) and `RangesRam`
  (each registered range consists of whole pages of RAM), which merging preserves because the
  merged range is covered by the two it was made of.
  `RegionsCompleteSound` and `RerunSound` prove `RegionsComplete` and `RerunAddsNothing` from `CompleteIInv`.  A *piece* is
  what one RAM entry and one block have in common; if neither overlaps another, no two pieces do.  The entries of the table are
  made of the pieces registered so far (`EntriesDisjoint`), so no entry is surrounded by a later one, and each piece registered
  lies in one entry, which later only grows (`NothingLost`); the cut loses only what the limit cuts (`RegionsSoFar`).  Listed
  by address, the pieces of a node come in order, so entries never touch and a piece that found the table full touches none
  (`EntriesApart`): on a later run a piece fits only the entry that holds it, and sorting changes nothing.  TLC found
  `CompleteIInv` invariant at the run's bounds before it was proved; without any one of its antecedents it is violated.

* `ReadWriteTestProofs` (at least one row, item and thread id; no result of an algorithm that failed, and no
  stale `errno`, is `ERR_SUCCESS`): `SuccessIsEarnedSound`, `RoundsApartSound`, `SliceTestedOnceSound`.  `IInv` adds
  `Rounds` (where the loops stand), `Owned` (a thread that is not free belongs to the one slot of this round that names it and
  is yet to be joined), `BegunInOrder` and `Covered` (what was begun, and that without a failure everything before was), and
  `Noted`: a failure is in `ret`, in a result that will be collected, or in that of a thread not yet joined.  That the last
  failure of a row is found by `LastError` is proved for rows of every length.
* `DriverProofs`, for `abs_diag` (at least one page and one try): `UnloadIsSafeSound`, `TestIsAloneSound`.  `DiagIInv` adds `ThreadTold` (what `kt`
  tells `rmmod` of the thread), `PollStopped` (the poll is stopped before anything is taken away, so a thread that nobody
  waits for never reaches the banks), `RefCounted` (the use count is the program's file and somebody else's), `OneTest` and
  `OneWriter` (until `raced`, `INPROCESS` is there exactly while somebody tests, and who found it at the last load is not
  about to store).
* `DriverProofs`, for `memtest`'s `mmap()` (finitely many frames, any MTRRs): `MappingRightSound`, `FailuresUndoneSound`.  `IInv`
  adds `VmaPutBack`, `PiecesMapped` (the page table shows exactly the pieces of the MTRRs gone through) and `LoadHolds`
  (what each step of the load holds).  That the length of an MTRR is a number is assumed (`CharDeviceAssumption`):
  it is a power of two, of which the provers have no theory; TLC evaluates it.
* `DriverProofs`, for `addrmap` (finitely many processes, any page tables; the highest bit is a multiple of the page):
  `AddressIsOwnSound`.  `AddrIInv` adds `OneInside` (one process in a call, under the semaphore, with the module's use count) and
  `Told` (what was read so far is the beginning of one message if it came at once or the address is the process's own).
* `McelogProofs`, for the daemon (any clients, any commands whose answers are sequences of pieces): `ChildrenRightSound` from `ChildIInv`,
  whose heart is `CountEnough`: the count, and a count that `mcelog_fork()` has loaded and not yet stored, are at least the number of
  children, in the list or not, so that a `SIGCHLD` in between can only make the daemon run too few triggers; and `Linked`, both
  ends of the list while no tail was taken out under `list_add_tail()`.  `TableRightSound` and
  `AnswersRightSound` from `IInv`: `SlotsRight` (a slot is the server's, the machine checks' or that of one live clientcon with an open
  connection, and it waits for what its buffer needs), `ContextsRight` (a clientcon that lives has a slot), `PassRight` (a slot that
  the pass still has to visit does not report input alone while an answer is being sent, though slots move under it and a
  new client inherits old events), `QueueRight` and `AnswersUnderWay` (what a client has, what is under way and what waits in the
  buffer are the whole answer, or its commands are unread).

* `McelogProofs`, for the accounting (any records, configurations and pages; `RecordsAssumption`, `ConfigsAssumption`: the fields
  have the types the code gives them; `HashAssumption`: `dimmhash()` is an index of the table; `PagesAssumption`: finitely many
  pages, none is 0): `DatabasesHoldSound` (its parts `DimmsCountedSound`, `BucketsFedSound`, `PagesAscendSound`),
  `BurstTriggersSound`, `OfflinedOnceSound`, all from `AccountsRight`: `AInv`.  It says that each DIMM is once in the chain of its hash
  and that `md_numdimms` counts them (`DbRight`, `ChainsRight`); of each bucket that, of the errors since it was full, the last
  `count` came in the period begun at its stamp and the older ones are spread over `agetime` and more (`Spread`, `Apart`), which neither
  errors without a time nor the division of the aging undo; of each page what has been done about it (`PageRight`); and of the
  tree of pages (`Shape`) that every node lies in the range its place gives it and was born after its parent, so that the
  walk down finds it and `rb_next()`, which goes up by the parents, ascends and ends, however unbalanced the tree is.
* `McelogProofs`, for the refinement: `ImplementsLedgerSound`, from the same `AInv`.  Each operation of the databases has a lemma that says by how much it
  changes what a lookup of each account shows (`SameCounted`, `MoreCounted`: `get_memdimm()`, triggers and the DMI table by nothing,
  `account_memdb()` and `account_over()` by one account); `NextIsNext`, `FirstIsFirst` and `WalkAscends` that a walk of the tree
  meets every page that was inserted and no other (`Members`); `Recorded` puts them together for a record that is
  counted and `NothingRecorded` for any other; `PlacesRead` says that the DIMM, socket and page they name are the accounts the ledger reads off the record,
  and `ProcessInLedger` that the step is the ledger's `Read` of that record.
* `McelogProofs`, for `decodefatal()` (any log of lines; `LinesAssumption`: a line is text or a list of keywords):
  `RecordsWholeSound` from `FIInv`.  `MadeOf` says that the record being built consists of what the lines since the last end of a record
  gave, in any number of them, and `Numbered` that each record printed belongs to one such end, in their order, so that no line's field
  can turn up in another line's record.
* `StartUpProofs` (a page has at least one byte, regions are lists of whole pages in ascending order): `ItemsFollowOptions`
  (`ItemsAsAsked`), `WindowFollowsOptions` (`WindowRight`: `WindowTested`, `RangesOrdered`, `GapsAreTheRest`), `ZeroEarned`
  (`ZeroIsEarned`).  `IInv` adds `Stages` and `CodeSound` (which step may follow which
  return code), `ItemsGiven` and `ItemsExpanded` (the list of the parser and that of the controller), `RangesPlaced` (a range lies in
  its region, ranges ascend) and `WindowScanned` (after `n` regions the pages found are those of the window in them).  That the
  gaps are what the ranges leave over is a tiling argument: gap `i` begins where range `i` ends.

TLC checked `AInv`, `FIInv`, `MemIInv`, `FaultyGood` and the `IInv` of `StartUp` at the bounds of the runs before they were proved.

Induction over data is by the least element of a set of numbers (`LeastNat`): the least length at which a fact fails.  The
accounting needs it most: `ByRank`, `Fixpoint` and `Recursion` say that a function that recurs to arguments of lower rank exists and is what its definition
says; the loops over the chains, over the DMI table, down the tree and up from a node are such functions.  The log's
lines, a row's results and the commands of a client are the others.

Only model-checked: liveness (`Terminates`, `CtrlCEndsAll`, `TestEnds`, `Returns`, `ErrorCounted`, `SpillReturns`,
`ClientsServed`), which needs fairness and `ENABLED`; `RedBlack` and `ImplementsOrderedSet`, whose definitions are `RECURSIVE`
operators.

## 5. Where code and documentation disagree

With a run of its own: `-s` is documented to turn data verification on and switches the comparison of the random
address test off (`SlowModeVerifies`).

Seen in the models, and left out of the runs because no property can hold there:

* a machine check ends the tests without `-e` when `SIGUSR2` arrives before the test child has installed its handler
  (`mem_controller.c:879`; the usage, `mem_main.c:191`, makes the exit depend on `-e`);
* more than 16 cores overwrite the range table: a row has `HALF_CORE_COUNT` slots (`memory.h:31`, `mem_controller.c:564`);
  `EverySliceTested` excludes these tables (`TableFits`), the run does not;
* `-e` does not stop `read_write_test()` after an item that failed (`mem_controller.c:706`);
* Ctrl-C before `init_module()` has initialized the lists crashes the handler (`mem_controller.c:201`) instead of ending
  with `EINTR` (`ChangeLog:7`);
* adjacent ranges that stay apart in the first run overlap after the second (`numa.c:518`), when the firmware does not list
  its RAM, or the SRAT its blocks, by address (`Ascending`); `RegionsDisjoint` and `RerunAddsNothing` promise later runs nothing then;
* an e820 entry that begins below a registered one of its node and ends behind it only extends the end of it (`numa.c:518`):
  the pages below are lost; and an entry that ends where it begins is not registered but leaves `nr_map` counting
  one too few, so the last entry is lost (`e820.c:101`).  `FirmwareSane` excludes both;
* a block that ends in the page it starts in is a region without a page, and the sort puts it anywhere; `RegionsDisjoint` excludes it
  (`BlocksHavePages`).

Met while modelling:

* with `-e`, a machine check reported before `pidb` is stored (`mem_controller.c:154`, 870) is not
  forwarded, and the tests run to their end although the usage says "exit when error happens";
* `generate_bootmem_region()` returns -1 when the regions do not fit, the ioctl drops it
  (`MemoryModule.c:267`) and the program's "Set mem limit fails" (`e820.c:83`) is never printed;
* `release_munmap_close()` in the test child (`mem_controller.c:712-720`) unmaps nothing, because
  the lists were freed at line 578;
* the comment at `task_generator.c:288`, "the remainder areas is not been included in testing areas",
  is out of date: the last slice takes the rest (`RangesPartitioned`);
* `bit_fade()` says "Do -1 and 0 patterns" (`mem_test.c:1575`) and tests 0 only; its item, 11, is
  refused by the command line;
* `block_move()` says "Now check the data" (793) and compares one block of 64 bytes per chunk;
* the 64-bit `rand_function()` returns numbers whose lower half is 0; `p += bank` (436) counts words;
  `march_c()` compares without `-s` too, and without `-s` only it and the random address test do;
* `test_cache_spill_tag()` does not report that the driver's test failed, only that it could not run
  (`cache_spill.c:131`, 135);
* a rate's `h` is `3600 * 60` seconds, so that `10 / 24h` means 60 days, and `s` is refused, although the comment says
  `[hmds]` (`leaky-bucket.c:97-99`);
* `mempage_insert()` links a page as a red leaf and never calls `rb_insert_color()`: the tree of pages is ordered but not
  balanced, and `RedBlack` is a property of `RbTreeUse` only;
* `mce_prepare()` overwrites a time that was set (`mcelog.c:330`);
* bit 12 of the error code is masked by `decode_mca()` and not by `intel_memory_error()` (`intel.c:87`), so filtered
  corrected errors reach no account;
* `while (isspace(*s)) line++` never ends (`server.c:112`): a client's command that begins with a blank is left out of the model;
* with `--no-filter` errors are not accounted at all;
* the comments at `eventloop.c:106` and `trigger.c:114` say the SIGCHLD handler runs only right after `ppoll()`, but the
  `sigaddset()` that would see to it is commented out (116): the handler can run inside `mcelog_fork()`, find a child that is
  not in the list and `abort()`; inside `list_add_tail()` (`list.h:49-52`, 79) it can free the tail the new child is being linked to, so
  that the new child is never found and the program aborts when it ends.  `ChildrenRight` promises nothing of the list then (`torn`);
* in `decodefatal()` the branch `else if (n > 3) FIELD(status)` cannot be taken, text does not reset `missing` while
  there is no data yet, and the `%n` of the RIP format is not reached;
* `addrmap` takes a reference on the address space and drops none (`convt.c`), and its `f_on_read()` returns what
  `copy_to_user()` did *not* copy as a positive count.

## 6. Not modelled, and why

`PROJECT.json` lists every component and, under "hazards", those no property covers.

* The text of a decoded machine check, DMI, logging and messages: no state and no verdict depends on them.
* The configuration file of mcelog (`config.c`, `msg.c`, `memutil.c`, `yellow.c`): the values are inputs of `MceAccounting`.
* `fileops.c` reads `/proc` and `/sys`, inputs of the models; lists are sequences and sets.
* Switching the cache in `abs_diag` and its extended MSRs: nothing in the repository uses them.
* `read_only_test()` is one step of `TestController`: its loop keeps no state.
* A failing `accept()` (`server.c:247`): the client goes on waiting, and the next turn of the loop tries again; `ClientsServed`
  is about descriptors that do not run out for ever.
* A `-t` with more than `ITEM_COUNT` items, which overflows `test_str` (`mem_main.c:378`); a list that expands to more elements than
  `test_item` has is in the model, up to the first element too many (`undefined`).
* Page frames from 2^32 on, 16 TB: `start_pfn` and `end_pfn` are 32 bits wide (`MemoryModule.c:95-96`).
* The accounting, the server and the triggers are linked into the program but not started by it: `mcelog.c`'s `main()` is
  switched off (`#if 0`, 1257), and in the program `do_mce_check()` runs `process()` with every option off.  They
  are modelled as the library they are.
* Files that no Makefile builds; the contents and the timing of kernel, caches and other programs.

Hazards without a property: the second `fork()` fails and the MCE child stays (`mem_controller.c:870`; `NoOrphan`
excludes it); Ctrl-C before the lists exist (201);
more regions than `raw_reg` holds (`task_generator.c:622`); a new client meets the events of the one before it in its
slot (`eventloop.c:73`).  In each the code does go wrong or gives no guarantee, so that no property holds.

## 7. Plan

Done: the modules above, with proofs of thirteen components.  Next, in this order:

1. An abstract specification of the verdict (a test that ends with PASS, a failure or a machine
   check), and `TestController` shown to implement it.
