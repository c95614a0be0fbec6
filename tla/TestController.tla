--------------------------- MODULE TestController ---------------------------
(***************************************************************************)
(* module_test() and the part of main() around it: the main process forks  *)
(* a child that polls /dev/mcelog (the MCE child) and a child that runs    *)
(* the memory tests (the test child), waits for the tests, aborts the MCE  *)
(* child and turns what it learnt into one exit status.  The processes     *)
(* talk only through signals, exit statuses and the pids that fork()       *)
(* returned.                                                               *)
(*                                                                         *)
(* A step of a process is a system call with the code around it.  The      *)
(* kernel runs the handlers of pending signals before a system call        *)
(* returns, and fork() restarts when a signal is pending, so a process     *)
(* takes its own steps only while it has no pending signal (Quiet).        *)
(* Signals do not queue: pending is a set.                                 *)
(***************************************************************************)
EXTENDS ErrorCodes, FiniteSets

CONSTANTS RDResults,   \* what read_only_test() may return
          RWResults,   \* what read_write_test() may return
          Errnos,      \* the values of errno after a failed system call
          MaxFaults    \* bound on machine checks and failed reads of the log

ASSUME ResultsAssumption ==
  /\ RDResults \subseteq Code /\ RWResults \subseteq Code
  /\ ERR_SUCCESS \in RDResults \cap RWResults

\* No error code of the tests loses its meaning when exit() keeps one byte.
ASSUME LowByteAssumption ==
  \A c \in RDResults \cup RWResults : LowByte(c) = 0 => c = ERR_SUCCESS

ASSUME ErrnoAssumption == Errnos \subseteq 1..255

ASSUME FaultsAssumption == MaxFaults \in Nat

Child == {"mce", "test"}
Proc == {"main", "mce", "test"}
Signal == {"SIGINT", "SIGABRT", "SIGUSR1", "SIGUSR2"}
Phase == {"rd", "rw"}

EINTR == 4
SIGABRT == 6
SIGUSR2 == 12

MainPC == {"get_mce", "signals", "fork_a", "store_a", "fork_b", "store_b", "wait_b",
           "kill_a", "wait_a", "get_msr", "verdict", "close", "exited"}
MainRunning == MainPC \ {"exited"}
MceRunning == {"start", "setup", "poll", "notify"}
TestRunning == {"start", "rd", "rw"}
Gone == {"zombie", "reaped"}
PCLabel == {"none"} \cup MainPC \cup MceRunning \cup TestRunning \cup Gone

Running == [kind |-> "running", code |-> 0]
Exited(b) == [kind |-> "exited", code |-> b]
Killed(s) == [kind |-> "signaled", code |-> s]
Status == {Running} \cup [kind : {"exited", "signaled"}, code : Byte]

VARIABLES
  exit_on_error,      \* the -e option
  RD_empty, RW_empty, \* number of non-empty read-only / read-write lists
  pc,                 \* control point of each process
  pida, pidb,         \* each process's copy of the two pids, "none" for 0
  pending,            \* signals sent to a process and not yet handled
  status,             \* how a child ended
  mce_flag, termination_flag, ret_flag,  \* statics of the main process
  ret,                \* what module_test() returns to main()
  test_ret,           \* ret of the test child
  records,            \* records waiting in /dev/mcelog
  faults,             \* machine checks and failed reads so far
  \* history
  phases,             \* test phases that tested all their ranges without error
  notified,           \* the MCE child has signalled the main process
  interrupted,        \* Ctrl-C was pressed
  forkFailed          \* fork() failed

input == <<exit_on_error, RD_empty, RW_empty>>
pids == <<pida, pidb>>
flags == <<mce_flag, termination_flag>>
device == <<records, faults>>
history == <<phases, notified, interrupted, forkFailed>>
vars == <<input, pc, pids, pending, status, flags, ret_flag, ret, test_ret, device, history>>

-----------------------------------------------------------------------------
Alive(p) == pc[p] \notin {"none", "exited"} \cup Gone

Quiet(p) == pending[p] = {}

Goto(p, l) == pc' = [pc EXCEPT ![p] = l]

\* kill(2): a zombie still has its pid; a reaped or never forked process has not.
KillSucceeds(p) == p # "none" /\ pc[p] \notin {"none", "reaped"}

Sent(q, s) == IF q # "none" /\ Alive(q) THEN {s} ELSE {}

\* Process p ends with status st: its pending signals go with it.
End(p, st) ==
  /\ Goto(p, "zombie")
  /\ status' = [status EXCEPT ![p] = st]

\* module_test() returns c and main() returns its command-line code.
Return(c) ==
  /\ ret' = c
  /\ Goto("main", "exited")

-----------------------------------------------------------------------------
(* The main process: module_test() and the end of main(). *)

\* do_mce_check(GET_MCE): drains the log; when the read fails the errno is taken for the record
\* count and the records stay; when open() or an ioctl() fails module_test gives up.
GetMce ==
  /\ pc["main"] = "get_mce" /\ Quiet("main")
  /\ \/ /\ records' = 0
        /\ Goto("main", "signals")
        /\ UNCHANGED <<ret, faults>>
     \/ /\ faults < MaxFaults
        /\ faults' = faults + 1
        /\ Goto("main", "signals")
        /\ UNCHANGED <<ret, records>>
     \/ /\ Return(ERR_MCE_MSG)
        /\ UNCHANGED device
  /\ UNCHANGED <<input, pids, pending, status, flags, ret_flag, test_ret, history>>

\* Block HUP, QUIT, TERM and PIPE, install sig_mce_exit for SIGUSR1.
Signals ==
  /\ pc["main"] = "signals" /\ Quiet("main")
  /\ \/ Goto("main", "fork_a") /\ UNCHANGED ret
     \/ \E e \in Errnos : Return(Errno(e))
  /\ UNCHANGED <<input, pids, pending, status, flags, ret_flag, test_ret, device, history>>

\* fork() of the MCE child.  The pid is stored in a step of its own: a signal
\* can be handled between the return of fork() and the assignment.
ForkMce ==
  /\ pc["main"] = "fork_a" /\ Quiet("main")
  /\ \/ /\ pc' = [pc EXCEPT !["main"] = "store_a", !["mce"] = "start"]
        /\ pida' = [pida EXCEPT !["mce"] = "none"]
        /\ pidb' = [pidb EXCEPT !["mce"] = pidb["main"]]
        /\ UNCHANGED <<ret, forkFailed>>
     \/ /\ \E e \in Errnos : Return(Errno(e))
        /\ forkFailed' = TRUE
        /\ UNCHANGED pids
  /\ UNCHANGED <<input, pending, status, flags, ret_flag, test_ret, device, phases, notified,
                 interrupted>>

StorePida ==
  /\ pc["main"] = "store_a" /\ Quiet("main")
  /\ pida' = [pida EXCEPT !["main"] = "mce"]
  /\ Goto("main", "fork_b")
  /\ UNCHANGED <<input, pidb, pending, status, flags, ret_flag, ret, test_ret, device, history>>

\* fork() of the test child; on failure the MCE child is left running.
ForkTest ==
  /\ pc["main"] = "fork_b" /\ Quiet("main")
  /\ \/ /\ pc' = [pc EXCEPT !["main"] = "store_b", !["test"] = "start"]
        /\ pida' = [pida EXCEPT !["test"] = pida["main"]]
        /\ pidb' = [pidb EXCEPT !["test"] = "none"]
        /\ UNCHANGED <<ret, forkFailed>>
     \/ /\ \E e \in Errnos : Return(Errno(e))
        /\ forkFailed' = TRUE
        /\ UNCHANGED pids
  /\ UNCHANGED <<input, pending, status, flags, ret_flag, test_ret, device, phases, notified,
                 interrupted>>

StorePidb ==
  /\ pc["main"] = "store_b" /\ Quiet("main")
  /\ pidb' = [pidb EXCEPT !["main"] = "test"]
  /\ Goto("main", "wait_b")
  /\ UNCHANGED <<input, pida, pending, status, flags, ret_flag, ret, test_ret, device, history>>

\* pr_exit(): the exit status, or 1 for a child that a signal killed.
pr_exit(st) == IF st.kind = "exited" THEN st.code ELSE 1

\* waitpid(pidb): restarted after a handler (SA_RESTART), so it only returns
\* when the test child has ended.
WaitTest ==
  /\ pc["main"] = "wait_b" /\ Quiet("main")
  /\ pc[pidb["main"]] = "zombie"
  /\ pc' = [pc EXCEPT !["main"] = "kill_a", ![pidb["main"]] = "reaped"]
  /\ ret_flag' = pr_exit(status[pidb["main"]])
  /\ UNCHANGED <<input, pids, pending, status, flags, ret, test_ret, device, history>>

\* Variants: the MCE child is left alone, or waited for without a signal.
AbortMceSkipped ==
  /\ pc["main"] = "kill_a" /\ Quiet("main")
  /\ Goto("main", "get_msr")
  /\ UNCHANGED <<input, pids, pending, status, flags, ret_flag, ret, test_ret, device, history>>

AbortMceUnsent ==
  /\ pc["main"] = "kill_a" /\ Quiet("main")
  /\ Goto("main", "wait_a")
  /\ UNCHANGED <<input, pids, pending, status, flags, ret_flag, ret, test_ret, device, history>>

\* kill(pida, SIGABRT)
AbortMce ==
  /\ pc["main"] = "kill_a" /\ Quiet("main")
  /\ IF KillSucceeds(pida["main"])
     THEN /\ pending' = [p \in Proc |-> IF p = pida["main"]
                                        THEN pending[p] \cup Sent(p, "SIGABRT") ELSE pending[p]]
          /\ Goto("main", "wait_a")
          /\ UNCHANGED ret
     ELSE /\ \E e \in Errnos : Return(Errno(e))
          /\ UNCHANGED pending
  /\ UNCHANGED <<input, pids, status, flags, ret_flag, test_ret, device, history>>

\* waitpid(pida); what pr_exit_a() makes of the status is not used.
WaitMce ==
  /\ pc["main"] = "wait_a" /\ Quiet("main")
  /\ pc[pida["main"]] = "zombie"
  /\ pc' = [pc EXCEPT !["main"] = "get_msr", ![pida["main"]] = "reaped"]
  /\ UNCHANGED <<input, pids, pending, status, flags, ret_flag, ret, test_ret, device, history>>

\* do_mce_check(GET_MSR_MCE): opens the log and reads nothing.
GetMsr ==
  /\ pc["main"] = "get_msr" /\ Quiet("main")
  /\ \/ Goto("main", "verdict") /\ UNCHANGED ret
     \/ Return(ERR_MCE_MSG)
  /\ UNCHANGED <<input, pids, pending, status, flags, ret_flag, test_ret, device, history>>

Verdict ==
  /\ pc["main"] = "verdict" /\ Quiet("main")
  /\ IF termination_flag = 1 \/ mce_flag = 1 THEN Return(ERR_MCE_TERMINATE)
     ELSE IF ret_flag # 0 THEN Return(ChildErr(ret_flag))
     ELSE Goto("main", "close") /\ UNCHANGED ret
  /\ UNCHANGED <<input, pids, pending, status, flags, ret_flag, test_ret, device, history>>

\* close_module() and the PASS at the end of main().
Close ==
  /\ pc["main"] = "close" /\ Quiet("main")
  /\ Return(ERR_SUCCESS)
  /\ UNCHANGED <<input, pids, pending, status, flags, ret_flag, test_ret, device, history>>

\* Variant: the flag is set behind the kill() that may return early.
sig_mce_exit_late ==
  /\ Alive("main") /\ "SIGUSR1" \in pending["main"]
  /\ LET reached == pidb["main"] = "none" \/ KillSucceeds(pidb["main"])
     IN /\ mce_flag' = IF reached THEN 1 ELSE mce_flag
        /\ termination_flag' = IF exit_on_error /\ reached THEN 1 ELSE termination_flag
  /\ pending' = [p \in Proc |->
                   IF p = "main" THEN pending[p] \ {"SIGUSR1"}
                   ELSE IF p = pidb["main"] THEN pending[p] \cup Sent(p, "SIGUSR2")
                   ELSE pending[p]]
  /\ UNCHANGED <<input, pc, pids, status, ret_flag, ret, test_ret, device, history>>

\* sig_mce_exit(): when kill() fails the handler returns before it looks at
\* exit_on_error.
sig_mce_exit ==
  /\ Alive("main") /\ "SIGUSR1" \in pending["main"]
  /\ mce_flag' = 1
  /\ termination_flag' = IF exit_on_error /\ (pidb["main"] = "none" \/ KillSucceeds(pidb["main"]))
                         THEN 1 ELSE termination_flag
  /\ pending' = [p \in Proc |->
                   IF p = "main" THEN pending[p] \ {"SIGUSR1"}
                   ELSE IF p = pidb["main"] THEN pending[p] \cup Sent(p, "SIGUSR2")
                   ELSE pending[p]]
  /\ UNCHANGED <<input, pc, pids, status, ret_flag, ret, test_ret, device, history>>

-----------------------------------------------------------------------------
(* Ctrl-C: every process inherits sig_ctrlC_exit and its copy of the pids. *)

\* The signals sig_ctrlC_exit of process p sends to process q.
CtrlCSends(p, q) == IF q \in {pida[p], pidb[p]} THEN Sent(q, "SIGABRT") ELSE {}

\* Variant: only the main process exits.
sig_ctrlC_return(p) ==
  /\ Alive(p) /\ "SIGINT" \in pending[p]
  /\ IF p = "main" THEN Return(Errno(EINTR)) ELSE UNCHANGED <<pc, ret>>
  /\ pending' = [q \in Proc |-> IF q = p THEN pending[p] \ {"SIGINT"}
                                 ELSE pending[q] \cup CtrlCSends(p, q)]
  /\ UNCHANGED <<input, pids, status, flags, ret_flag, test_ret, device, history>>

sig_ctrlC_exit(p) ==
  /\ Alive(p) /\ "SIGINT" \in pending[p]
  /\ IF p = "main" THEN Return(Errno(EINTR)) /\ UNCHANGED status
                   ELSE End(p, Exited(EINTR)) /\ UNCHANGED ret
  /\ pending' = [q \in Proc |-> IF q = p THEN {} ELSE pending[q] \cup CtrlCSends(p, q)]
  /\ UNCHANGED <<input, pids, flags, ret_flag, test_ret, device, history>>

\* The terminal sends SIGINT to the whole foreground process group.
CtrlC ==
  /\ ~interrupted /\ Alive("main")
  /\ interrupted' = TRUE
  /\ pending' = [p \in Proc |-> pending[p] \cup Sent(p, "SIGINT")]
  /\ UNCHANGED <<input, pc, pids, status, flags, ret_flag, ret, test_ret, device, phases, notified,
                 forkFailed>>

-----------------------------------------------------------------------------
(* The MCE child: do_mce_check(MCE_LOOP). *)

\* checkdmi(), then signal(SIGABRT, signal_int_exit).
MceInstall ==
  /\ pc["mce"] = "start" /\ Quiet("mce")
  /\ Goto("mce", "setup")
  /\ UNCHANGED <<input, pids, pending, status, flags, ret_flag, ret, test_ret, device, history>>

\* open() and ioctl()s; on failure the child exits with errno and nobody notices.
MceOpen ==
  /\ pc["mce"] = "setup" /\ Quiet("mce")
  /\ \/ Goto("mce", "poll") /\ UNCHANGED status
     \/ \E e \in Errnos : End("mce", Exited(e))
  /\ UNCHANGED <<input, pids, pending, flags, ret_flag, ret, test_ret, device, history>>

\* poll_loop(): the log is readable; process() reads all of it or fails.
MceRead ==
  /\ pc["mce"] = "poll" /\ Quiet("mce")
  /\ records > 0
  /\ \/ records' = 0 /\ UNCHANGED faults
     \/ faults < MaxFaults /\ faults' = faults + 1 /\ UNCHANGED records
  /\ Goto("mce", "notify")
  /\ UNCHANGED <<input, pids, pending, status, flags, ret_flag, ret, test_ret, history>>

\* kill(getppid(), SIGUSR1); an orphan's parent is init.
MceNotify ==
  /\ pc["mce"] = "notify" /\ Quiet("mce")
  /\ pending' = [pending EXCEPT !["main"] = @ \cup Sent("main", "SIGUSR1")]
  /\ notified' = (notified \/ Alive("main"))
  /\ Goto("mce", "poll")
  /\ UNCHANGED <<input, pids, status, flags, ret_flag, ret, test_ret, device, phases, interrupted,
                 forkFailed>>

\* SIGABRT: signal_int_exit once it is installed, else the default action.
MceAbort ==
  /\ Alive("mce") /\ "SIGABRT" \in pending["mce"]
  /\ End("mce", IF pc["mce"] = "start" THEN Killed(SIGABRT) ELSE Exited(SIGABRT))
  /\ pending' = [pending EXCEPT !["mce"] = {}]
  /\ UNCHANGED <<input, pids, flags, ret_flag, ret, test_ret, device, history>>

-----------------------------------------------------------------------------
(* The test child. *)

\* signal_a(SIGUSR2, USR2_signal_exit); if it fails the child returns errno
\* through module_test() and main().
TestInstall ==
  /\ pc["test"] = "start" /\ Quiet("test")
  /\ \/ Goto("test", "rd") /\ UNCHANGED <<status, test_ret>>
     \/ \E e \in Errnos : test_ret' = Errno(e) /\ End("test", Exited(LowByte(Errno(e))))
  /\ UNCHANGED <<input, pids, pending, flags, ret_flag, ret, device, history>>

\* History: a phase that had ranges to test and found no error.
PhaseDone(phase, empty, r) == IF empty = 0 \/ r # ERR_SUCCESS THEN {} ELSE {phase}

\* Variant: a failed read-only test is only logged.
TestReadOnlyLogged ==
  /\ pc["test"] = "rd" /\ Quiet("test")
  /\ \E r \in IF RD_empty = 0 THEN {test_ret} ELSE RDResults :
       /\ test_ret' = r
       /\ Goto("test", "rw")
       /\ phases' = phases \cup PhaseDone("rd", RD_empty, r)
  /\ UNCHANGED <<input, pids, pending, status, flags, ret_flag, ret, device, notified, interrupted,
                 forkFailed>>

TestReadOnly ==
  /\ pc["test"] = "rd" /\ Quiet("test")
  /\ \E r \in IF RD_empty = 0 THEN {test_ret} ELSE RDResults :
       /\ test_ret' = r
       /\ IF r = ERR_SUCCESS THEN Goto("test", "rw") /\ UNCHANGED status
                             ELSE End("test", Exited(LowByte(r)))
       /\ phases' = phases \cup PhaseDone("rd", RD_empty, r)
  /\ UNCHANGED <<input, pids, pending, flags, ret_flag, ret, device, notified, interrupted,
                 forkFailed>>

TestReadWrite ==
  /\ pc["test"] = "rw" /\ Quiet("test")
  /\ \E r \in IF RW_empty = 0 THEN {test_ret} ELSE RWResults :
       /\ test_ret' = r
       /\ End("test", Exited(LowByte(r)))
       /\ phases' = phases \cup PhaseDone("rw", RW_empty, r)
  /\ UNCHANGED <<input, pids, pending, flags, ret_flag, ret, device, notified, interrupted,
                 forkFailed>>

\* SIGUSR2: USR2_signal_exit once it is installed, else the default action,
\* which kills the child with or without -e.
USR2_signal_exit ==
  /\ Alive("test") /\ "SIGUSR2" \in pending["test"]
  /\ IF pc["test"] = "start" THEN End("test", Killed(SIGUSR2))
     ELSE IF exit_on_error THEN End("test", Exited(SIGUSR2))
     ELSE UNCHANGED <<pc, status>>
  /\ pending' = [pending EXCEPT !["test"] = IF pc'["test"] = "zombie" THEN {} ELSE @ \ {"SIGUSR2"}]
  /\ UNCHANGED <<input, pids, flags, ret_flag, ret, test_ret, device, history>>

\* SIGABRT from a Ctrl-C handler; the test child keeps the default action.
TestAbort ==
  /\ Alive("test") /\ "SIGABRT" \in pending["test"]
  /\ End("test", Killed(SIGABRT))
  /\ pending' = [pending EXCEPT !["test"] = {}]
  /\ UNCHANGED <<input, pids, flags, ret_flag, ret, test_ret, device, history>>

-----------------------------------------------------------------------------
\* The machine logs a machine check.
MachineCheck ==
  /\ faults < MaxFaults
  /\ faults' = faults + 1
  /\ records' = records + 1
  /\ UNCHANGED <<input, pc, pids, pending, status, flags, ret_flag, ret, test_ret, history>>

\* main() returned and no other process is left that can act.
Finished ==
  /\ pc["main"] = "exited"
  /\ UNCHANGED vars

Init ==
  /\ exit_on_error \in BOOLEAN
  /\ RD_empty \in {0, 1} /\ RW_empty \in {0, 1} /\ RD_empty + RW_empty > 0
  /\ pc = [p \in Proc |-> IF p = "main" THEN "get_mce" ELSE "none"]
  /\ pida = [p \in Proc |-> "none"] /\ pidb = [p \in Proc |-> "none"]
  /\ pending = [p \in Proc |-> {}]
  /\ status = [p \in Child |-> Running]
  /\ mce_flag = 0 /\ termination_flag = 0 /\ ret_flag = 0
  /\ ret = ERR_SUCCESS /\ test_ret = ERR_SUCCESS
  /\ records = 0 /\ faults = 0
  /\ phases = {} /\ notified = FALSE /\ interrupted = FALSE /\ forkFailed = FALSE

MainStep == \/ GetMce \/ Signals \/ ForkMce \/ StorePida \/ ForkTest \/ StorePidb \/ WaitTest
            \/ AbortMce \/ WaitMce \/ GetMsr \/ Verdict \/ Close
            \/ sig_mce_exit \/ sig_ctrlC_exit("main")
MceStep == \/ MceInstall \/ MceOpen \/ MceRead \/ MceNotify
           \/ MceAbort \/ sig_ctrlC_exit("mce")
TestStep == \/ TestInstall \/ TestReadOnly \/ TestReadWrite
            \/ USR2_signal_exit \/ TestAbort \/ sig_ctrlC_exit("test")
Environment == CtrlC \/ MachineCheck

Next == MainStep \/ MceStep \/ TestStep \/ Environment \/ Finished

\* The scheduler runs every process that can run and the test algorithms
\* terminate; nothing is assumed of the terminal or of the machine.
Fairness == WF_vars(MainStep) /\ WF_vars(MceStep) /\ WF_vars(TestStep)

Spec == Init /\ [][Next]_vars

FairSpec == Spec /\ Fairness

-----------------------------------------------------------------------------
InputType == exit_on_error \in BOOLEAN /\ RD_empty \in {0, 1} /\ RW_empty \in {0, 1}
PcType ==
  /\ pc \in [Proc -> PCLabel]
  /\ pc["main"] \in MainPC
  /\ pc["mce"] \in {"none"} \cup MceRunning \cup Gone
  /\ pc["test"] \in {"none"} \cup TestRunning \cup Gone
PidType == pida \in [Proc -> {"none", "mce"}] /\ pidb \in [Proc -> {"none", "test"}]
SignalType == pending \in [Proc -> SUBSET Signal]
StatusType == status \in [Child -> Status]
FlagType == mce_flag \in {0, 1} /\ termination_flag \in {0, 1} /\ ret_flag \in Byte
CodeType == ret \in Code /\ test_ret \in Code
DeviceType == records \in Nat /\ faults \in 0..MaxFaults
HistoryType ==
  /\ phases \subseteq Phase
  /\ notified \in BOOLEAN /\ interrupted \in BOOLEAN /\ forkFailed \in BOOLEAN

TypeOK == /\ InputType /\ PcType /\ PidType /\ SignalType /\ StatusType
          /\ FlagType /\ CodeType /\ DeviceType /\ HistoryType

\* The phases that have something to test.
Needed == (IF RD_empty = 0 THEN {} ELSE {"rd"}) \cup (IF RW_empty = 0 THEN {} ELSE {"rw"})

\* The shell sees 0 only when main() printed PASS: the test child ran every
\* phase that has ranges to the end without an error, and the MCE child never reported a
\* machine check.  Every failure survives exit()'s low byte, pr_exit(), the
\* addition of 0xA1000000, code_map[] and the low byte of main()'s own status.
PassIsEarned ==
  pc["main"] = "exited" /\ ExitStatus(ret) = 0 =>
    /\ ret = ERR_SUCCESS
    /\ phases = Needed /\ test_ret = ERR_SUCCESS
    /\ ~notified

\* Once the MCE child has signalled the main process, module_test() never
\* passes and never blames a test: whatever the order of SIGUSR1, SIGUSR2, the
\* end of the test child and the reaping of it, sig_mce_exit() leaves a mark
\* that outranks the test child's status.
MceNotMasked ==
  pc["main"] = "exited" /\ notified => ret # ERR_SUCCESS /\ ret[1] # ChildErr(0)[1]

\* When module_test() aborts the MCE child and waits for it, that child has been
\* forked and not reaped: kill(pida, SIGABRT) cannot fail or hit a recycled pid.
AbortReachesMceChild ==
  pc["main"] \in {"kill_a", "wait_a"} => pida["main"] = "mce" /\ pc["mce"] \notin {"none", "reaped"}

\* main() leaves no child behind that goes on running: when it has exited, each
\* child has ended or is about to be ended by a signal.  The one exception in
\* the code is the return after a failed second fork().
NoOrphan ==
  pc["main"] = "exited" /\ ~forkFailed =>
    \A c \in Child : Alive(c) => pending[c] \cap {"SIGINT", "SIGABRT"} # {}

\* main() always ends: neither waitpid() blocks for ever.
Terminates == <>(pc["main"] = "exited")

\* Ctrl-C ends all three processes.
CtrlCEndsAll == interrupted ~> (\A p \in Proc : ~Alive(p))

\* The children of module_test() are accounted for at its end: the kill() and
\* the waitpid() for the MCE child meet it (mem_controller.c:929-935), whatever
\* order the signals came in, and nothing goes on running without its parent.
ChildrenReaped == AbortReachesMceChild /\ NoOrphan
-----------------------------------------------------------------------------
(* The inductive invariant behind the four safety properties. *)

BeforeMce == {"get_mce", "signals", "fork_a"}
BeforeTest == BeforeMce \cup {"store_a", "fork_b"}
MceUnreaped == {"store_a", "fork_b", "store_b", "wait_b", "kill_a", "wait_a"}
PidaKnown == MainRunning \ (BeforeMce \cup {"store_a"})
PidbKnown == {"wait_b", "kill_a", "wait_a", "get_msr", "verdict", "close"}
TestReaped == PidbKnown \ {"wait_b"}
MceReaped == {"get_msr", "verdict", "close"}

\* Which children exist at each point of module_test(), and which pids it knows.
ProcessTree ==
  /\ pc["main"] \in BeforeMce => pc["mce"] = "none"
  /\ pc["main"] \in BeforeTest => pc["test"] = "none"
  /\ pc["main"] \in MceUnreaped => pc["mce"] \in MceRunning \cup {"zombie"}
  /\ pc["main"] \in {"store_b", "wait_b"} => pc["test"] \in TestRunning \cup {"zombie"}
  /\ pc["main"] \in TestReaped => pc["test"] = "reaped"
  /\ pc["main"] \in MceReaped => pc["mce"] = "reaped"
  /\ pc["main"] \in PidaKnown => pida["main"] = "mce"
  /\ pc["main"] \in PidbKnown => pidb["main"] = "test"

\* A notification is pending or recorded until main() has exited, and cannot
\* be pending once the MCE child is reaped.
Notification ==
  /\ notified /\ pc["main"] # "exited" => mce_flag = 1 \/ "SIGUSR1" \in pending["main"]
  /\ pc["main"] \in MceReaped => "SIGUSR1" \notin pending["main"]
  /\ pc["main"] = "close" => mce_flag = 0 /\ ret_flag = 0

\* The test child's status is 0 only after complete and successful tests.
TestStatus ==
  /\ pc["test"] \in {"none"} \cup TestRunning => test_ret = ERR_SUCCESS
  /\ pc["test"] = "rw" /\ RD_empty # 0 => "rd" \in phases
  /\ phases \subseteq Needed
  /\ pc["test"] \in Gone /\ pr_exit(status["test"]) = 0 => phases = Needed /\ test_ret = ERR_SUCCESS
  /\ pc["main"] \in TestReaped => ret_flag = pr_exit(status["test"])

\* While Ctrl-C is pending at main(), every child that runs is about to end.
Doomed(c) == Alive(c) => pending[c] \cap {"SIGINT", "SIGABRT"} # {}
InterruptReachesAll ==
  /\ "SIGINT" \in pending["main"] => \A c \in Child : Doomed(c)
  /\ pc["main"] = "exited" /\ ~forkFailed => \A c \in Child : Doomed(c)

FailureCodes == {Errno(e) : e \in 1..255} \cup {ERR_MCE_MSG, ERR_MCE_TERMINATE}

\* What main() can have returned.
ReturnedCode ==
  pc["main"] = "exited" =>
    \/ ret \in FailureCodes
    \/ ~notified /\ \E b \in 1..255 : ret = ChildErr(b)
    \/ /\ ~notified /\ ret = ERR_SUCCESS
       /\ pc["test"] = "reaped" /\ phases = Needed /\ test_ret = ERR_SUCCESS

IInv == TypeOK /\ ProcessTree /\ Notification /\ TestStatus /\ InterruptReachesAll /\ ReturnedCode
=============================================================================
