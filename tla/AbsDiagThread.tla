---------------------------- MODULE AbsDiagThread ----------------------------
(* The driver abs_diag (driver/kmod/module_s/abs_diag/src) without its cache  *)
(* test: loading and unloading (abs_diag_main.c), its four files in /proc,    *)
(* the kernel thread (kthrd.c, abs_diag_thrd.c) and the poll of the machine   *)
(* check banks (mcamce.c) that counts errors for /proc/abs_diag_mecc and      *)
(* _cecc.  Three actors share the module's globals without a lock: the task   *)
(* in insmod or rmmod, the kernel thread, and the hardware.                   *)
EXTENDS Integers, Sequences, FiniteSets

CONSTANTS BankCount,  \* MCG_CAP bits 0..7: the machine check banks
          ULONG_MAX,  \* ~(unsigned long)0, where a counter wraps
          StopTries,  \* 1000 in dt_thrd_stop(): sleeps of 500 ms
          MaxMissing  \* bound: entries in /proc that cannot be created

ASSUME AbsDiagThreadAssumption ==
  /\ BankCount \in Nat /\ ULONG_MAX \in Nat \ {0} /\ StopTries \in Nat \ {0}
  /\ MaxMissing \in 0..4

VARIABLES diag_mod,  \* where the task in insmod or rmmod stands
          files,     \* the entries in /proc, in the order of abs_diag_init()
          diag_refs, \* the module's use count (try_module_get, module_put)
          kt,        \* ktdata_t of abs_diag_thrd.c
          cnt,       \* dt_thrd_stop(): sleeps so far
          banks,     \* mcamce_p4_t.banks
          status,    \* the hardware's MSR_IA32_MCi_STATUS, sorted by its code
          thrd,      \* where the kernel thread stands
          bank,      \* mcamce_check(): the bank it is at
          g_cnt,     \* the counters of mecc_procfs.c and cecc_procfs.c
          loaded,    \* g_cnt ++: the value that was loaded
          excuse     \* ghost: why rmmod did not wait for the thread

driverVars == <<diag_mod, files, diag_refs, kt, cnt, banks, status, thrd, bank, g_cnt,
                loaded, excuse>>

ProcFiles == <<"dev", "mecc", "cecc", "cachetest">>

FileNo(f) == CHOOSE n \in 1..4 : ProcFiles[n] = f

\* A bus error and a parity error of the tags are "other": counted nowhere.
Kinds == {"clear", "memory", "tlb", "other"}

\* abs_diag_exit() is running or has run: the kernel opens no file any more.
Going == diag_mod \in {"stopping", "waiting", "stopped", "cleaned", "unlink", "gone"}

DriverTypeOK ==
  /\ diag_mod \in {"files", "mcamce", "thread", "start", "live", "stopping",
              "waiting", "stopped", "cleaned", "unlink", "gone"}
  /\ files \in Seq(BOOLEAN) /\ Len(files) <= 4
  /\ diag_refs \in 0..2
  /\ kt \in [term: BOOLEAN, exit: BOOLEAN, mcamce: BOOLEAN,
             mcamce_refcnt: 0..1]
  /\ cnt \in 0..StopTries
  /\ banks \in {"none", "held", "freed"}
  /\ status \in [1..BankCount -> Kinds]
  /\ thrd \in {"none", "created", "loop", "timer", "check", "mecc", "cecc",
               "sleep", "shutdown", "returning", "ended"}
  /\ bank \in 1..(BankCount + 1)
  /\ g_cnt \in [{"mecc", "cecc"} -> 0..ULONG_MAX]
  /\ loaded \in 0..ULONG_MAX
  /\ excuse \in {"none", "early", "timeout"}

DriverInit ==
  /\ diag_mod = "files" /\ files = <<>> /\ diag_refs = 0
  /\ kt = [term |-> FALSE, exit |-> FALSE, mcamce |-> FALSE,
           mcamce_refcnt |-> 0]
  /\ cnt = 0 /\ banks = "none" /\ thrd = "none" /\ bank = 1
  /\ status = [b \in 1..BankCount |-> "clear"]
  /\ g_cnt = [f \in {"mecc", "cecc"} |-> 0] /\ loaded = 0
  /\ excuse = "none"

-----------------------------------------------------------------------------
(* insmod: what each of the seven calls returns is overwritten by the next.   *)

Missing(fs) == Cardinality({n \in 1..Len(fs) : ~fs[n]})

\* create_proc_entry() may fail.
Create(f) ==
  /\ diag_mod = "files" /\ FileNo(f) = Len(files) + 1
  /\ \E made \in BOOLEAN :
       /\ made \/ Missing(files) < MaxMissing
       /\ files' = Append(files, made)
  /\ diag_mod' = IF f = "cachetest" THEN "mcamce" ELSE "files"
  /\ UNCHANGED <<diag_refs, kt, cnt, banks, status, thrd, bank, g_cnt, loaded, excuse>>

abs_diagdev_procfs_init == Create("dev")

mecc_procfs_init == Create("mecc")

cecc_procfs_init == Create("cecc")

cachetest_procfs_init == Create("cachetest")

\* mcamce_init(): no controller, no banks and no memory all leave banks NULL.
McamceInit ==
  /\ diag_mod = "mcamce"
  /\ banks' \in (IF BankCount > 0 THEN {"none", "held"} ELSE {"none"})
  /\ diag_mod' = "thread"
  /\ UNCHANGED <<files, diag_refs, kt, cnt, status, thrd, bank, g_cnt, loaded, excuse>>

\* abs_diag_thrd_init(): exit is 1 until the new thread runs.
ThrdInit ==
  /\ diag_mod = "thread"
  /\ kt' = [term |-> FALSE, exit |-> TRUE, mcamce |-> FALSE,
            mcamce_refcnt |-> 0]
  /\ thrd' \in {"created", "none"}
  /\ diag_mod' = "start"
  /\ UNCHANGED <<files, diag_refs, cnt, banks, status, bank, g_cnt, loaded, excuse>>

McamceStopFrees ==
  /\ diag_mod = "live" /\ diag_refs = 0
  /\ banks' = IF banks = "held" THEN "freed" ELSE banks
  /\ diag_mod' = "stopping"
  /\ kt' = [kt EXCEPT !.mcamce = FALSE]
  /\ UNCHANGED <<files, diag_refs, cnt, status, thrd, bank, g_cnt, loaded, excuse>>

\* mcamce_thrd_start()
McamceStart ==
  /\ diag_mod = "start"
  /\ kt' = [kt EXCEPT !.mcamce = TRUE, !.mcamce_refcnt = @ + 1]
  /\ diag_mod' = "live"
  /\ UNCHANGED <<files, diag_refs, cnt, banks, status, thrd, bank, g_cnt, loaded,
                 excuse>>

-----------------------------------------------------------------------------
(* rmmod                                                                      *)

\* mcamce_thrd_stop(), the first call of abs_diag_exit().
McamceStop ==
  /\ diag_mod = "live" /\ diag_refs = 0
  /\ kt' = [kt EXCEPT !.mcamce = FALSE,
                      !.mcamce_refcnt = IF @ > 0 THEN @ - 1 ELSE @]
  /\ diag_mod' = "stopping"
  /\ UNCHANGED <<files, diag_refs, cnt, banks, status, thrd, bank, g_cnt, loaded,
                 excuse>>

\* dt_thrd_stop(): a thread that has not run yet counts as not running.
ThrdStop ==
  /\ diag_mod = "stopping"
  /\ IF kt.exit
       THEN /\ diag_mod' = "stopped"
            /\ excuse' = IF thrd = "created" THEN "early" ELSE excuse
            /\ UNCHANGED kt
       ELSE diag_mod' = "waiting" /\ kt' = [kt EXCEPT !.term = TRUE]
            /\ UNCHANGED excuse
  /\ UNCHANGED <<files, diag_refs, cnt, banks, status, thrd, bank, g_cnt, loaded>>

\* dt_thrd_stop(): the loop that waits for the thread.
StopWait ==
  /\ diag_mod = "waiting"
  /\ \/ kt.exit /\ diag_mod' = "stopped" /\ cnt' = 0 /\ UNCHANGED excuse
     \/ ~kt.exit /\ cnt < StopTries /\ cnt' = cnt + 1
        /\ UNCHANGED <<diag_mod, excuse>>
     \/ ~kt.exit /\ cnt = StopTries /\ diag_mod' = "stopped"
        /\ excuse' = "timeout" /\ cnt' = 0
  /\ UNCHANGED <<files, diag_refs, kt, banks, status, thrd, bank, g_cnt, loaded>>

\* abs_diag_thrd_clean(): the memset also clears exit and term.
ThrdClean ==
  /\ diag_mod = "stopped"
  /\ kt' = [term |-> FALSE, exit |-> FALSE, mcamce |-> FALSE,
            mcamce_refcnt |-> 0]
  /\ diag_mod' = "cleaned"
  /\ UNCHANGED <<files, diag_refs, cnt, banks, status, thrd, bank, g_cnt, loaded,
                 excuse>>

\* mcamce_clean(): kfree(banks).
McamceClean ==
  /\ diag_mod = "cleaned"
  /\ banks' = IF banks = "held" THEN "freed" ELSE banks
  /\ diag_mod' = "unlink"
  /\ UNCHANGED <<files, diag_refs, kt, cnt, status, thrd, bank, g_cnt, loaded, excuse>>

\* remove_proc_entry(), the last file first.
Remove(f) ==
  /\ diag_mod = "unlink" /\ FileNo(f) = Len(files)
  /\ files' = SubSeq(files, 1, Len(files) - 1)
  /\ diag_mod' = IF f = "dev" THEN "gone" ELSE "unlink"
  /\ UNCHANGED <<diag_refs, kt, cnt, banks, status, thrd, bank, g_cnt, loaded, excuse>>

cachetest_procfs_clean == Remove("cachetest")

cecc_procfs_clean == Remove("cecc")

mecc_procfs_clean == Remove("mecc")

abs_diagdev_procfs_clean == Remove("dev")

-----------------------------------------------------------------------------
(* The kernel thread                                                          *)

ThreadAt(from, to) == thrd = from /\ thrd' = to

\* run_proc(), f_on_run(): dt_thrd_run().
ThreadRun ==
  /\ ThreadAt("created", "loop")
  /\ kt' = [kt EXCEPT !.exit = FALSE]
  /\ UNCHANGED <<diag_mod, files, diag_refs, cnt, banks, status, bank, g_cnt, loaded,
                 excuse>>

\* f_on_run(): while (!kt->term).
ThreadLoop ==
  /\ ThreadAt("loop", IF kt.term THEN "shutdown" ELSE "timer")
  /\ UNCHANGED <<diag_mod, files, diag_refs, kt, cnt, banks, status, bank, g_cnt, loaded,
                 excuse>>

\* dt_on_timer(): the pointer is loaded once; banks_cnt is 0 without banks.
OnTimer ==
  /\ ThreadAt("timer", IF kt.mcamce /\ banks = "held" THEN "check" ELSE "sleep")
  /\ UNCHANGED <<diag_mod, files, diag_refs, kt, cnt, banks, status, bank, g_cnt, loaded,
                 excuse>>

CounterOfExact(kind) == IF kind = "tlb" THEN "cecc" ELSE "none"

CounterOf(kind) == CASE kind = "memory" -> "mecc"
                     [] kind = "tlb" -> "cecc"
                     [] OTHER -> "none"

\* mcamce_check(): one bank.  A tag parity error is looked for with
\* 1 == (lo & (1<<16)), which no value satisfies; no status is ever cleared.
CheckBank ==
  /\ thrd = "check"
  /\ IF bank > BankCount THEN thrd' = "sleep" /\ bank' = 1 /\ UNCHANGED loaded
     ELSE LET counter == CounterOf(status[bank])
          IN IF counter = "none"
               THEN bank' = bank + 1 /\ UNCHANGED <<thrd, loaded>>
               ELSE thrd' = counter /\ loaded' = g_cnt[counter] /\ UNCHANGED bank
  /\ UNCHANGED <<diag_mod, files, diag_refs, kt, cnt, banks, status, g_cnt, excuse>>

\* The store of g_cnt ++, which is not under g_sem.
Add(f) ==
  /\ thrd = f
  /\ g_cnt' = [g_cnt EXCEPT ![f] = IF loaded < ULONG_MAX THEN loaded + 1
                                                         ELSE 0]
  /\ thrd' = "check" /\ bank' = bank + 1 /\ loaded' = 0
  /\ UNCHANGED <<diag_mod, files, diag_refs, kt, cnt, banks, status, excuse>>

mecc_procfs_add == Add("mecc")

cecc_procfs_add == Add("cecc")

\* msleep(KTHRD_DFLT_SLEEP)
ThreadSleep ==
  /\ ThreadAt("sleep", "loop")
  /\ UNCHANGED <<diag_mod, files, diag_refs, kt, cnt, banks, status, bank, g_cnt, loaded,
                 excuse>>

\* dt_thrd_shutdown()
ThreadShutdown ==
  /\ ThreadAt("shutdown", "returning")
  /\ kt' = [kt EXCEPT !.mcamce_refcnt = 0, !.exit = TRUE]
  /\ UNCHANGED <<diag_mod, files, diag_refs, cnt, banks, status, bank, g_cnt, loaded,
                 excuse>>

\* f_on_run() and run_proc() return, still in the module's text.
ThreadReturn ==
  /\ ThreadAt("returning", "ended")
  /\ UNCHANGED <<diag_mod, files, diag_refs, kt, cnt, banks, status, bank, g_cnt, loaded,
                 excuse>>

\* The hardware logs an error in a bank that holds none.
HardwareError ==
  /\ \E b \in 1..BankCount, k \in Kinds \ {"clear"} :
       status[b] = "clear" /\ status' = [status EXCEPT ![b] = k]
  /\ UNCHANGED <<diag_mod, files, diag_refs, kt, cnt, banks, thrd, bank, g_cnt, loaded,
                 excuse>>

LoadStep ==
  \/ abs_diagdev_procfs_init \/ mecc_procfs_init \/ cecc_procfs_init
  \/ cachetest_procfs_init \/ McamceInit \/ ThrdInit \/ McamceStart

UnloadStep ==
  \/ ThrdStop \/ StopWait \/ ThrdClean \/ McamceClean
  \/ cachetest_procfs_clean \/ cecc_procfs_clean \/ mecc_procfs_clean
  \/ abs_diagdev_procfs_clean

ThreadStep == ThreadRun \/ ThreadLoop \/ OnTimer \/ CheckBank
              \/ mecc_procfs_add \/ cecc_procfs_add
              \/ ThreadSleep \/ ThreadShutdown \/ ThreadReturn

\* User context and the thread are scheduled; nobody has to call rmmod.
DriverFairness == WF_driverVars(LoadStep) /\ WF_driverVars(UnloadStep)
                  /\ WF_driverVars(ThreadStep)
=============================================================================
