------------------------------- MODULE AbsDiag -------------------------------
(* The cache spill and tag test: test_cache_spill_tag() of the program        *)
(* (testlib/cache_spill.c, absdiag_dev.c), which reads the four files of the  *)
(* driver abs_diag, and the test the driver runs when its file is written     *)
(* (cachetest.c, cachetest_procfs.c), beside the driver's thread and while    *)
(* the module may be loading or on its way out.  One caller at a time is what *)
(* CheckInstance() leaves; a test somebody else started may be running.       *)
EXTENDS AbsDiagThread

CONSTANTS PGCNT,      \* the pages of cachetest.c
          SpillTries  \* 10 in test_cache_spill_tag()

ASSUME AbsDiagAssumption == PGCNT \in Nat \ {0} /\ SpillTries \in Nat \ {0}

VARIABLES g_stat,  \* cachetest.c: the state of the test
          pages,   \* pages of g_buf[] held by the caller's test
          leaked,  \* pages no g_buf[] names any more
          other,   \* somebody else's read or write of the file
          seen,    \* ghost: who found INPROCESS when it last loaded g_stat
          raced,   \* ghost: a store replaced an INPROCESS its caller had not found
          app      \* the caller: where it is, its file, abs.cash_test_stat, ret

appVars == <<g_stat, pages, leaked, other, seen, raced, app>>
diagVars == <<driverVars, appVars>>

READY == 0
INPROCESS == 1
STOP_SUCC == 2
STOP_FAIL == 3
STOP_NOMEM == 4

DiagTypeOK ==
  /\ DriverTypeOK
  /\ g_stat \in READY..STOP_NOMEM
  /\ pages \in 0..PGCNT /\ leaked \in 0..PGCNT
  /\ other \in {"idle", "ready", "check", "enter", "testing"} /\ seen \subseteq {"app", "other"} /\ raced \in BOOLEAN
  /\ app \in [pc: {"open", "read", "reset", "reread", "rereset", "shown", "try", "write",
                   "ready", "check", "enter", "setup", "test", "close", "done"},
              file: {"dev", "mecc", "cecc", "cachetest"},
              verified: BOOLEAN, i: 0..SpillTries,
              stat: READY..STOP_NOMEM,
              ret: {"SUCC", "EFAIL", "EOPEN", "ENOMEM", "INPROC",
                    "ERR_DD_OPEN", "ERR_TIMEOUT"}]

\* The caller with its local variables as they are on entry.
Caller(pc, ret) == [pc |-> pc, file |-> "dev", verified |-> FALSE, i |-> 0,
                    stat |-> READY, ret |-> ret]

Return(ret) == Caller("done", ret)

DiagInit ==
  /\ DriverInit
  /\ g_stat = READY /\ other = "idle" /\ seen = {} /\ raced = FALSE
  /\ pages = 0 /\ leaked = 0
  /\ app = Caller("open", "SUCC")

-----------------------------------------------------------------------------
(* The files.  The kernel opens none of a module on its way out; f_on_open()  *)
(* and f_on_release() hold the module.                                        *)

Openable(f) == FileNo(f) <= Len(files) /\ files[FileNo(f)] /\ ~Going

KeepDriver == UNCHANGED <<diag_mod, files, kt, cnt, banks, status, thrd, bank, g_cnt,
                          loaded, excuse>>

diag_on_open == diag_refs' = diag_refs + 1 /\ KeepDriver

diag_on_release == diag_refs' = diag_refs - 1 /\ KeepDriver

\* verify_absdiag_dev(): fopen() of the next file.
OpenToRead ==
  /\ app.pc = "open"
  /\ IF Openable(app.file)
       THEN diag_on_open /\ app' = [app EXCEPT !.pc = "read"]
       ELSE app' = Return("ERR_DD_OPEN") /\ UNCHANGED driverVars
  /\ UNCHANGED <<g_stat, pages, leaked, other, seen, raced>>

ReadNext(f) ==
  /\ app.pc = "read" /\ app.file = f
  /\ diag_on_release
  /\ app' = [app EXCEPT !.pc = "open", !.file = ProcFiles[FileNo(f) + 1]]
  /\ UNCHANGED <<g_stat, pages, leaked, other, seen, raced>>

\* f_on_read() of abs_diagdev_procfs.c, mecc_procfs.c and cecc_procfs.c, fgets()
\* and fclose().  What is read is stored in cashing, mem_ecc_num and
\* cash_ecc_num, which nothing in the test looks at.
ReadDev == ReadNext("dev")

ReadMecc == ReadNext("mecc")

ReadCecc == ReadNext("cecc")

\* cache_test_state()
cache_test_state(stat) == CASE stat = INPROCESS -> "INPROC"
                            [] stat = STOP_FAIL -> "EFAIL"
                            [] stat = STOP_NOMEM -> "ENOMEM"
                            [] OTHER -> "SUCC"

\* A load of g_stat, as the ghost seen keeps it, and a store that may come too late.
Finds(who) == seen' = (IF g_stat = INPROCESS THEN seen \cup {who} ELSE seen \ {who})

Races(who) == raced' = (raced \/ (g_stat = INPROCESS /\ who \notin seen))

\* cachetest_stat() loads g_stat - once, in a build with optimization - and, when
\* it is the result of a test, stores READY, so that a result is handed out once.
\* Nothing keeps another call away between the two.  stat is what the caller keeps.
Results == {STOP_SUCC, STOP_FAIL, STOP_NOMEM}

StatLoad(from, reset, next, stat) ==
  /\ app.pc = from
  /\ app' = [app EXCEPT !.stat = stat,
                        !.pc = IF g_stat \in Results THEN reset ELSE next]
  /\ Finds("app")
  /\ UNCHANGED <<driverVars, g_stat, pages, leaked, other, raced>>

StatStore(from, next) ==
  /\ app.pc = from
  /\ g_stat' = READY /\ Races("app")
  /\ app' = [app EXCEPT !.pc = next]
  /\ UNCHANGED <<driverVars, pages, leaked, other, seen>>

\* f_on_read() of cachetest_procfs.c calls cachetest_stat() twice and prints
\* what the second call returns.
ReadStat ==
  \/ app.file = "cachetest" /\ StatLoad("read", "reset", "reread", app.stat)
  \/ StatStore("reset", "reread")
  \/ StatLoad("reread", "rereset", "shown", g_stat)
  \/ StatStore("rereset", "shown")

\* fgets() and fclose(), which end verify_absdiag_dev(); the second
\* verify_absdiag_dev() ends test_cache_spill_tag().
CloseRead ==
  /\ app.pc = "shown"
  /\ diag_on_release
  /\ app' = IF app.verified THEN Return(cache_test_state(app.stat))
                            ELSE [app EXCEPT !.pc = "try"]
  /\ UNCHANGED <<g_stat, pages, leaked, other, seen, raced>>

-----------------------------------------------------------------------------
(* test_cache_spill_tag() between the two verify_absdiag_dev()                *)

Verify(a) == [a EXCEPT !.pc = "open", !.file = "dev", !.verified = TRUE]

TryForever ==
  /\ app.pc = "try"
  /\ app' = [app EXCEPT !.pc = IF @ = "try" /\ app.stat = READY THEN "open"
                               ELSE "try", !.verified = TRUE]
  /\ UNCHANGED <<driverVars, g_stat, pages, leaked, other, seen, raced>>

\* One turn of the loop with cache_test(): what it looks at was read before the
\* loop, so INPROCESS stays INPROCESS until the tries are used up; after a result
\* no test is started, only the state is read again.
Try ==
  /\ app.pc = "try"
  /\ LET a == [app EXCEPT !.i = @ + 1]
     IN \/ /\ a.i >= SpillTries
           /\ app' = Return("ERR_TIMEOUT")
           /\ UNCHANGED driverVars
        \/ /\ a.i < SpillTries /\ a.stat = INPROCESS
           /\ app' = [a EXCEPT !.ret = "INPROC"]
           /\ UNCHANGED driverVars
        \/ /\ a.i < SpillTries /\ a.stat = READY
           /\ IF Openable("cachetest")
                THEN app' = [a EXCEPT !.pc = "write"] /\ diag_on_open
                ELSE app' = Return("EOPEN") /\ UNCHANGED driverVars
        \/ /\ a.i < SpillTries /\ a.stat \in Results
           /\ app' = Verify(a)
           /\ UNCHANGED driverVars
  /\ UNCHANGED <<g_stat, pages, leaked, other, seen, raced>>

-----------------------------------------------------------------------------
(* cachetest(), run by f_on_write() in the caller's context                   *)

\* cachetest_stat(); what it returns is not looked at.
WriteStat == StatLoad("write", "ready", "check", app.stat) \/ StatStore("ready", "check")

CacheTestUnchecked ==
  /\ app.pc = "check" /\ Finds("app")
  /\ app' = [app EXCEPT !.pc = "enter"]
  /\ UNCHANGED <<driverVars, g_stat, pages, leaked, other, raced>>

\* g_stat is loaded again.  EBUSY is ignored by f_on_write(), as is whatever
\* cachetest() returns.
CacheTestCheck ==
  /\ app.pc = "check" /\ Finds("app")
  /\ app' = [app EXCEPT !.pc = IF g_stat = READY THEN "enter" ELSE "close"]
  /\ UNCHANGED <<driverVars, g_stat, pages, leaked, other, raced>>

CacheTestEnter ==
  /\ app.pc = "enter"
  /\ g_stat' = INPROCESS /\ Races("app")
  /\ app' = [app EXCEPT !.pc = "setup"]
  /\ UNCHANGED <<driverVars, pages, leaked, other, seen>>

\* tmemsetup(): no page is given back when one is refused.
tmemsetup ==
  /\ app.pc = "setup"
  /\ \/ /\ pages' = pages + 1
        /\ app' = [app EXCEPT !.pc = IF pages + 1 = PGCNT THEN "test"
                                                          ELSE "setup"]
        /\ UNCHANGED <<g_stat, leaked>>
     \/ /\ g_stat' = STOP_NOMEM
        /\ leaked' = pages /\ pages' = 0
        /\ app' = [app EXCEPT !.pc = "close"]
  /\ UNCHANGED <<driverVars, other, seen, raced>>

\* do_test() with each pattern, tmemclean(), the result.
DoTest(ok) ==
  /\ app.pc = "test"
  /\ pages' = 0
  /\ g_stat' = IF ok THEN STOP_SUCC ELSE STOP_FAIL
  /\ app' = [app EXCEPT !.pc = "close"]
  /\ UNCHANGED <<driverVars, leaked, other, seen, raced>>

\* fclose() in text_write().
CloseWritten ==
  /\ app.pc = "close"
  /\ diag_on_release
  /\ app' = Verify(app)
  /\ UNCHANGED <<g_stat, pages, leaked, other, seen, raced>>

\* Somebody else reads the file, in two such calls, or writes it: the same load
\* and store, and for a write the same check, the same assignment, and the test's
\* end.  The module is held meanwhile.  What it loaded decides whether a store
\* comes; whether it reads or writes shows only after it.
OtherLoads ==
  /\ other = "idle" /\ Openable("cachetest") /\ Finds("other")
  /\ other' = (IF g_stat \in Results THEN "ready" ELSE "check") /\ diag_on_open
  /\ UNCHANGED <<g_stat, pages, leaked, raced, app>>

OtherStores ==
  /\ other = "ready"
  /\ g_stat' = READY /\ Races("other")
  /\ \/ other' = "idle" /\ diag_on_release
     \/ other' = "check" /\ UNCHANGED driverVars
  /\ UNCHANGED <<pages, leaked, seen, app>>

OtherChecks ==
  /\ other = "check" /\ Finds("other")
  /\ IF g_stat = READY THEN other' = "enter" /\ UNCHANGED driverVars
                       ELSE other' = "idle" /\ diag_on_release
  /\ UNCHANGED <<g_stat, pages, leaked, raced, app>>

OtherEnters ==
  /\ other = "enter" /\ other' = "testing"
  /\ g_stat' = INPROCESS /\ Races("other")
  /\ UNCHANGED <<driverVars, pages, leaked, seen, app>>

OtherEnds ==
  /\ other = "testing" /\ other' = "idle" /\ diag_on_release
  /\ g_stat' \in Results
  /\ UNCHANGED <<pages, leaked, seen, raced, app>>

OtherStep == OtherLoads \/ OtherStores \/ OtherChecks \/ OtherEnters \/ OtherEnds

Clear(f) ==
  /\ Openable(f) /\ g_cnt[f] > 0 /\ g_cnt' = [g_cnt EXCEPT ![f] = 0]
  /\ UNCHANGED <<diag_mod, files, diag_refs, kt, cnt, banks, status, thrd, bank, loaded,
                 excuse, appVars>>

\* f_on_write() of mecc_procfs.c (clear_mem_ecc()) and of cecc_procfs.c.
ClearMecc == Clear("mecc")

ClearCecc == Clear("cecc")

-----------------------------------------------------------------------------

AppStep ==
  \/ OpenToRead \/ ReadDev \/ ReadMecc \/ ReadCecc \/ ReadStat \/ CloseRead \/ Try
  \/ WriteStat \/ CacheTestCheck \/ CacheTestEnter \/ tmemsetup
  \/ (\E ok \in BOOLEAN : DoTest(ok)) \/ CloseWritten

\* Nothing is left to do: a system at rest.
AtRest == app.pc = "done" /\ diag_mod = "gone" /\ UNCHANGED diagVars

DiagNext ==
  \/ (LoadStep \/ McamceStop \/ UnloadStep \/ ThreadStep \/ HardwareError)
     /\ UNCHANGED appVars
  \/ AppStep \/ OtherStep \/ ClearMecc \/ ClearCecc \/ AtRest

\* Every task that can run is run; a test that runs ends.
DiagSpec == DiagInit /\ [][DiagNext]_diagVars /\ DriverFairness /\ WF_diagVars(AppStep)

-----------------------------------------------------------------------------
(* Properties                                                                 *)

\* rmmod waits for the thread (abs_diag_thrd.c:87): the module's memory goes
\* only when the thread has left its loop and touches no global any more.  Two
\* ways around the wait are in the code: rmmod before the new thread has run
\* once, and a thread that did not stop in 1000 sleeps.
ThreadPastLoop ==
  Going /\ diag_mod \notin {"stopping", "waiting"} /\ excuse = "none"
    => thrd \in {"none", "returning", "ended"}

\* The poll never writes to banks that mcamce_clean() has freed, although no
\* lock is held (abs_diag_main.c:87-89): stopping the poll, waiting for the
\* thread and freeing come in that order.
BanksOutliveCheck ==
  thrd \in {"check", "mecc", "cecc"} /\ excuse # "timeout" => banks = "held"

\* Where the program has a file open.
Inside == {"read", "reset", "reread", "rereset", "shown", "write", "ready", "check",
           "enter", "setup", "test", "close"}

\* The driver's code stays while a call of the program or of somebody else is
\* inside it (try_module_get() in the f_on_open() of the four files).
CodeStays == app.pc \in Inside \/ other # "idle" => ~Going

\* Unloading the driver pulls nothing away from the thread or from a call.
UnloadIsSafe == DiagTypeOK /\ ThreadPastLoop /\ BanksOutliveCheck /\ CodeStays

\* The pages of g_buf[] have one user, and the state INPROCESS is neither left
\* behind by a test that has ended nor taken from one that runs
\* (cachetest.c:105-152), whoever reads and writes the file meanwhile - until a
\* store of g_stat, which no lock guards, replaces an INPROCESS that was set after
\* the store's caller had loaded g_stat: READY stored (148) by one that had found a
\* result, or INPROCESS (113) by one that had found READY.  Both happen.
TestIsAlone ==
  ~raced =>
  /\ ~(other = "testing" /\ app.pc \in {"setup", "test"})
  /\ g_stat = INPROCESS <=> other = "testing" \/ app.pc \in {"setup", "test"}
  /\ pages > 0 => app.pc \in {"setup", "test"}
  /\ leaked < PGCNT

\* A memory error in a bank the thread polls is seen by a reader of the counter
\* at some time (mcamce.c:97-139), whoever clears it and however often, unless
\* the module is unloaded.
ErrorCounted ==
  \A b \in 1..BankCount :
    (thrd = "loop" /\ kt.mcamce /\ banks = "held" /\ status[b] = "memory")
      ~> (g_cnt["mecc"] > 0 \/ Going)

\* test_cache_spill_tag() returns, whatever the state of the module and of
\* somebody else's test (cache_spill.c:158-178).
SpillReturns == <>(app.pc = "done")

-----------------------------------------------------------------------------
(* The inductive invariant behind UnloadIsSafe and TestIsAlone.               *)

\* Where rmmod is past the wait; where the thread is in its loop and where it is at
\* the banks.
Past == {"stopped", "cleaned", "unlink", "gone"}
AtBanks == {"check", "mecc", "cecc"}
Running == AtBanks \cup {"loop", "timer", "sleep", "shutdown"}

\* kt tells rmmod where the thread is, once the thread has been started.
ThreadTold ==
  /\ diag_mod \in {"files", "mcamce", "thread"} => thrd = "none"
  /\ diag_mod = "start" => kt.mcamce_refcnt = 0
  /\ thrd \in Running => ~kt.exit
  /\ thrd = "created" /\ diag_mod \notin Past => kt.exit
  /\ diag_mod = "waiting" => thrd # "created"
  /\ thrd \in {"mecc", "cecc"} => bank <= BankCount

\* The poll is stopped before anything else goes, so a thread that rmmod did not
\* wait for because it had not run never comes to the banks.
PollStopped ==
  /\ Going => ~kt.mcamce
  /\ excuse # "none" => diag_mod \in Past
  /\ excuse = "early" => thrd \notin AtBanks

\* The use count is the program's open file and somebody else's.
RefCounted == diag_refs = (IF app.pc \in Inside THEN 1 ELSE 0)
                          + (IF other = "idle" THEN 0 ELSE 1)

\* The program writes its file once, and holds pages only while it tests.
OneTest ==
  /\ pages > 0 => app.pc \in {"setup", "test"}
  /\ app.pc = "setup" => pages < PGCNT
  /\ app.verified => app.pc \in {"open", "read", "reset", "reread", "rereset", "shown"}
  /\ leaked < PGCNT

\* INPROCESS is a lock as long as no store replaces one its caller did not find; and
\* who found it stores nothing.
OneWriter ==
  /\ ~raced => /\ ~(other = "testing" /\ app.pc \in {"setup", "test"})
               /\ g_stat = INPROCESS <=> other = "testing" \/ app.pc \in {"setup", "test"}
  /\ app.pc \in {"reset", "rereset", "ready", "enter"} => "app" \notin seen
  /\ other \in {"ready", "enter"} => "other" \notin seen

DiagIInv ==
  /\ DiagTypeOK /\ ThreadTold /\ PollStopped /\ RefCounted /\ OneTest /\ OneWriter
  /\ ThreadPastLoop /\ BanksOutliveCheck /\ CodeStays
=============================================================================
