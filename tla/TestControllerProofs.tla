------------------------ MODULE TestControllerProofs ------------------------
(***************************************************************************)
(* Proofs about TestController: IInv is inductive, and with it type        *)
(* correctness and the four safety properties hold for every set of test   *)
(* results, of errnos and every bound on faults that the assumptions of    *)
(* TestController allow.                                                   *)
(***************************************************************************)
EXTENDS TestController, TLAPS

CtrlCExit == \E p \in Proc : sig_ctrlC_exit(p)

-----------------------------------------------------------------------------
(* Facts about codes and statuses. *)

\* The 16-bit halves the codes are made of.
LEMMA WordFacts ==
  /\ {0, 13, 40960, 41216, 43690} \subseteq Word
  /\ \A w \in Word : w % 256 \in Byte
  /\ \A b \in Byte : b \in Word /\ b % 256 = b
<1>1. {0, 13, 40960, 41216, 43690} \subseteq Word
  BY DEF Word
<1>2. \A w \in Word : w % 256 \in Byte
  BY DEF Word, Byte
<1>3. \A b \in Byte : b \in Word
  BY DEF Byte, Word
<1>4. \A b \in Byte : b % 256 = b
  BY DEF Byte
<1> QED BY <1>1, <1>2, <1>3, <1>4

\* The codes that module_test() builds are codes, and exit() keeps an errno or
\* a child's status whole.
LEMMA CodeFacts ==
  /\ ERR_SUCCESS \in Code /\ ERR_MCE_MSG \in Code /\ ERR_MCE_TERMINATE \in Code
  /\ \A b \in Byte : Errno(b) \in Code /\ ChildErr(b) \in Code /\ LowByte(Errno(b)) = b
  /\ \A c \in Code : LowByte(c) \in Byte
<1>1. ERR_SUCCESS \in Code /\ ERR_MCE_MSG \in Code /\ ERR_MCE_TERMINATE \in Code
  BY WordFacts DEF Code, ERR_SUCCESS, ERR_MCE_MSG, ERR_MCE_TERMINATE, AppErr
<1>2. ASSUME NEW b \in Byte PROVE Errno(b) \in Code /\ ChildErr(b) \in Code
  BY WordFacts DEF Code, Errno, ChildErr
<1>3. ASSUME NEW b \in Byte PROVE LowByte(Errno(b)) = b
  BY WordFacts DEF Errno, LowByte
<1>4. ASSUME NEW c \in Code PROVE LowByte(c) \in Byte
  <2>1. c[2] \in Word
    BY DEF Code
  <2> QED BY <2>1, WordFacts DEF LowByte
<1> QED BY <1>1, <1>2, <1>3, <1>4

\* What pr_exit() makes of the two kinds of end of a child.
LEMMA StatusFacts ==
  /\ \A b \in Byte : Exited(b) \in Status /\ Killed(b) \in Status
  /\ \A b : pr_exit(Exited(b)) = b /\ pr_exit(Killed(b)) = 1
  /\ \A st \in Status : pr_exit(st) \in Byte
BY DEF Exited, Killed, Status, Running, Byte, pr_exit

\* Errnos are bytes other than 0.
LEMMA ErrnoFacts ==
  ASSUME NEW e \in Errnos
  PROVE e \in Byte /\ e # 0 /\ Errno(e) \in FailureCodes
<1>1. e \in 1..255
  BY ErrnoAssumption
<1> QED BY <1>1 DEF Byte, FailureCodes

-----------------------------------------------------------------------------
(* Which actions change which variables. *)

\* Every step leaves alone what the actions named for it do not change.
LEMMA Frame ==
  ASSUME [Next]_vars
  PROVE /\ UNCHANGED input
        /\ UNCHANGED pids \/ ForkMce \/ StorePida \/ ForkTest \/ StorePidb
        /\ UNCHANGED status \/ CtrlCExit \/ MceOpen \/ MceAbort \/ TestInstall \/ TestReadOnly
             \/ TestReadWrite \/ USR2_signal_exit \/ TestAbort
        /\ UNCHANGED pending \/ CtrlCExit \/ AbortMce \/ sig_mce_exit \/ CtrlC \/ MceNotify
             \/ MceAbort \/ USR2_signal_exit \/ TestAbort
        /\ UNCHANGED <<flags, ret_flag>> \/ sig_mce_exit \/ WaitTest
        /\ UNCHANGED ret \/ GetMce \/ Signals \/ ForkMce \/ ForkTest \/ AbortMce \/ GetMsr
             \/ Verdict \/ Close \/ CtrlCExit
        /\ UNCHANGED test_ret \/ TestInstall \/ TestReadOnly \/ TestReadWrite
        /\ UNCHANGED device \/ GetMce \/ MceRead \/ MachineCheck
        /\ UNCHANGED history \/ ForkMce \/ ForkTest \/ CtrlC \/ MceNotify \/ TestReadOnly
             \/ TestReadWrite
<1> USE DEF input, pids, flags, device, history
<1>1. CASE GetMce BY <1>1 DEF GetMce
<1>2. CASE Signals BY <1>2 DEF Signals
<1>3. CASE ForkMce BY <1>3 DEF ForkMce
<1>4. CASE StorePida BY <1>4 DEF StorePida
<1>5. CASE ForkTest BY <1>5 DEF ForkTest
<1>6. CASE StorePidb BY <1>6 DEF StorePidb
<1>7. CASE WaitTest BY <1>7 DEF WaitTest
<1>8. CASE AbortMce BY <1>8 DEF AbortMce
<1>9. CASE WaitMce BY <1>9 DEF WaitMce
<1>10. CASE GetMsr BY <1>10 DEF GetMsr
<1>11. CASE Verdict BY <1>11 DEF Verdict
<1>12. CASE Close BY <1>12 DEF Close
<1>13. CASE sig_mce_exit BY <1>13 DEF sig_mce_exit
<1>14. CASE CtrlC BY <1>14 DEF CtrlC
<1>15. CASE MceInstall BY <1>15 DEF MceInstall
<1>16. CASE MceOpen BY <1>16 DEF MceOpen
<1>17. CASE MceRead BY <1>17 DEF MceRead
<1>18. CASE MceNotify BY <1>18 DEF MceNotify
<1>19. CASE MceAbort BY <1>19 DEF MceAbort
<1>20. CASE TestInstall BY <1>20 DEF TestInstall
<1>21. CASE TestReadOnly BY <1>21 DEF TestReadOnly
<1>22. CASE TestReadWrite BY <1>22 DEF TestReadWrite
<1>23. CASE USR2_signal_exit BY <1>23 DEF USR2_signal_exit
<1>24. CASE TestAbort BY <1>24 DEF TestAbort
<1>25. CASE MachineCheck BY <1>25 DEF MachineCheck
<1>26. CASE CtrlCExit BY <1>26 DEF CtrlCExit, sig_ctrlC_exit
<1>27. CASE UNCHANGED vars BY <1>27 DEF vars
<1> QED BY <1>1, <1>2, <1>3, <1>4, <1>5, <1>6, <1>7, <1>8, <1>9, <1>10, <1>11, <1>12, <1>13, <1>14,
           <1>15, <1>16, <1>17, <1>18, <1>19, <1>20, <1>21, <1>22, <1>23, <1>24, <1>25, <1>26, <1>27
        DEF Next, MainStep, MceStep, TestStep, Environment, Finished, CtrlCExit, Proc

\* PcType is preserved.
LEMMA PcTypeStep ==
  ASSUME PcType, PidType, [Next]_vars
  PROVE PcType'
<1> USE DEF input, pids, flags, device, history, PcType, PidType, Goto, Return, End, PCLabel, MainPC,
            MainRunning, MceRunning, TestRunning, Gone, Proc
<1>1. CASE GetMce BY <1>1 DEF GetMce
<1>2. CASE Signals BY <1>2 DEF Signals
<1>3. CASE ForkMce BY <1>3 DEF ForkMce
<1>4. CASE StorePida BY <1>4 DEF StorePida
<1>5. CASE ForkTest BY <1>5 DEF ForkTest
<1>6. CASE StorePidb BY <1>6 DEF StorePidb
<1>7. CASE WaitTest BY <1>7 DEF WaitTest
<1>8. CASE AbortMce BY <1>8 DEF AbortMce
<1>9. CASE WaitMce BY <1>9 DEF WaitMce
<1>10. CASE GetMsr BY <1>10 DEF GetMsr
<1>11. CASE Verdict BY <1>11 DEF Verdict
<1>12. CASE Close BY <1>12 DEF Close
<1>13. CASE sig_mce_exit BY <1>13 DEF sig_mce_exit
<1>14. CASE CtrlC BY <1>14 DEF CtrlC
<1>15. CASE MceInstall BY <1>15 DEF MceInstall
<1>16. CASE MceOpen BY <1>16 DEF MceOpen
<1>17. CASE MceRead BY <1>17 DEF MceRead
<1>18. CASE MceNotify BY <1>18 DEF MceNotify
<1>19. CASE MceAbort BY <1>19 DEF MceAbort
<1>20. CASE TestInstall BY <1>20 DEF TestInstall
<1>21. CASE TestReadOnly BY <1>21 DEF TestReadOnly
<1>22. CASE TestReadWrite BY <1>22 DEF TestReadWrite
<1>23. CASE USR2_signal_exit BY <1>23 DEF USR2_signal_exit
<1>24. CASE TestAbort BY <1>24 DEF TestAbort
<1>25. CASE MachineCheck BY <1>25 DEF MachineCheck
<1>26. CASE CtrlCExit BY <1>26 DEF CtrlCExit, sig_ctrlC_exit
<1>27. CASE UNCHANGED vars BY <1>27 DEF vars
<1> QED BY <1>1, <1>2, <1>3, <1>4, <1>5, <1>6, <1>7, <1>8, <1>9, <1>10, <1>11, <1>12, <1>13, <1>14,
           <1>15, <1>16, <1>17, <1>18, <1>19, <1>20, <1>21, <1>22, <1>23, <1>24, <1>25, <1>26, <1>27
        DEF Next, MainStep, MceStep, TestStep, Environment, Finished, CtrlCExit, Proc

\* PidType is preserved.
LEMMA PidTypeStep ==
  ASSUME PidType, [Next]_vars
  PROVE PidType'
<1> USE DEF PidType, Proc
<1>1. CASE UNCHANGED pids BY <1>1 DEF pids
<1>2. CASE ForkMce BY <1>2 DEF ForkMce, pids
<1>3. CASE StorePida BY <1>3 DEF StorePida
<1>4. CASE ForkTest BY <1>4 DEF ForkTest, pids
<1>5. CASE StorePidb BY <1>5 DEF StorePidb
<1> QED BY <1>1, <1>2, <1>3, <1>4, <1>5, Frame

\* SignalType is preserved.
LEMMA SignalTypeStep ==
  ASSUME SignalType, [Next]_vars
  PROVE SignalType'
<1> USE DEF SignalType, Proc, Signal
<1>1. CASE UNCHANGED pending BY <1>1
<1>2. CASE CtrlCExit BY <1>2 DEF CtrlCExit, sig_ctrlC_exit, CtrlCSends, Sent
<1>3. CASE AbortMce BY <1>3 DEF AbortMce, Sent
<1>4. CASE sig_mce_exit BY <1>4 DEF sig_mce_exit, Sent
<1>5. CASE CtrlC BY <1>5 DEF CtrlC, Sent
<1>6. CASE MceNotify BY <1>6 DEF MceNotify, Sent
<1>7. CASE MceAbort BY <1>7 DEF MceAbort
<1>8. CASE USR2_signal_exit BY <1>8 DEF USR2_signal_exit
<1>9. CASE TestAbort BY <1>9 DEF TestAbort
<1> QED BY <1>1, <1>2, <1>3, <1>4, <1>5, <1>6, <1>7, <1>8, <1>9, Frame

\* StatusType is preserved: every child ends with a status.
LEMMA StatusTypeStep ==
  ASSUME StatusType, CodeType, [Next]_vars
  PROVE StatusType'
<1> USE StatusFacts DEF StatusType, End, Child
<1>0. {EINTR, SIGABRT, SIGUSR2} \subseteq Byte
  BY DEF EINTR, SIGABRT, SIGUSR2, Byte
<1>1. CASE UNCHANGED status BY <1>1
<1>2. CASE CtrlCExit BY <1>0, <1>2 DEF CtrlCExit, sig_ctrlC_exit, Proc
<1>3. CASE MceOpen BY <1>3, ErrnoFacts DEF MceOpen
<1>4. CASE MceAbort BY <1>0, <1>4 DEF MceAbort
<1>5. CASE TestInstall BY <1>5, ErrnoFacts, CodeFacts DEF TestInstall
<1>6. CASE TestReadOnly BY <1>6, CodeFacts, ResultsAssumption DEF TestReadOnly, CodeType
<1>7. CASE TestReadWrite BY <1>7, CodeFacts, ResultsAssumption DEF TestReadWrite, CodeType
<1>8. CASE USR2_signal_exit BY <1>0, <1>8 DEF USR2_signal_exit
<1>9. CASE TestAbort BY <1>0, <1>9 DEF TestAbort
<1> QED BY <1>1, <1>2, <1>3, <1>4, <1>5, <1>6, <1>7, <1>8, <1>9, Frame

\* FlagType is preserved.
LEMMA FlagTypeStep ==
  ASSUME FlagType, StatusType, ProcessTree, [Next]_vars
  PROVE FlagType'
<1> USE DEF FlagType, flags
<1>1. CASE UNCHANGED <<flags, ret_flag>> BY <1>1
<1>2. CASE sig_mce_exit BY <1>2 DEF sig_mce_exit
<1>3. CASE WaitTest
  <2>1. pidb["main"] = "test" /\ ret_flag' = pr_exit(status[pidb["main"]])
    BY <1>3 DEF WaitTest, ProcessTree, PidbKnown
  <2>2. status["test"] \in Status
    BY DEF StatusType, Child
  <2> QED BY <1>3, <2>1, <2>2, StatusFacts DEF WaitTest
<1> QED BY <1>1, <1>2, <1>3, Frame

\* CodeType is preserved.
LEMMA CodeTypeStep ==
  ASSUME CodeType, FlagType, [Next]_vars
  PROVE CodeType'
<1> USE CodeFacts, ResultsAssumption DEF CodeType, Return
<1>1. ret' \in Code
  <2> USE ErrnoFacts
  <2>1. CASE GetMce BY <2>1 DEF GetMce
  <2>2. CASE Signals BY <2>2 DEF Signals
  <2>3. CASE ForkMce BY <2>3 DEF ForkMce
  <2>4. CASE ForkTest BY <2>4 DEF ForkTest
  <2>5. CASE AbortMce BY <2>5 DEF AbortMce
  <2>6. CASE GetMsr BY <2>6 DEF GetMsr
  <2>7. CASE Verdict BY <2>7 DEF Verdict, FlagType
  <2>8. CASE Close BY <2>8 DEF Close
  <2>9. CASE CtrlCExit
    <3>1. EINTR \in Byte BY DEF EINTR, Byte
    <3> QED BY <2>9, <3>1 DEF CtrlCExit, sig_ctrlC_exit
  <2> QED BY <2>1, <2>2, <2>3, <2>4, <2>5, <2>6, <2>7, <2>8, <2>9, Frame
<1>2. test_ret' \in Code
  <2>1. CASE TestInstall BY <2>1, ErrnoFacts DEF TestInstall
  <2>2. CASE TestReadOnly BY <2>2 DEF TestReadOnly
  <2>3. CASE TestReadWrite BY <2>3 DEF TestReadWrite
  <2> QED BY <2>1, <2>2, <2>3, Frame
<1> QED BY <1>1, <1>2

\* DeviceType is preserved.
LEMMA DeviceTypeStep ==
  ASSUME DeviceType, [Next]_vars
  PROVE DeviceType'
<1> USE FaultsAssumption DEF DeviceType, device
<1>1. CASE UNCHANGED device BY <1>1
<1>2. CASE GetMce BY <1>2 DEF GetMce
<1>3. CASE MceRead BY <1>3 DEF MceRead
<1>4. CASE MachineCheck BY <1>4 DEF MachineCheck
<1> QED BY <1>1, <1>2, <1>3, <1>4, Frame

\* HistoryType is preserved.
LEMMA HistoryTypeStep ==
  ASSUME HistoryType, [Next]_vars
  PROVE HistoryType'
<1> USE DEF HistoryType, history, Phase
<1>1. CASE UNCHANGED history BY <1>1
<1>2. CASE ForkMce BY <1>2 DEF ForkMce
<1>3. CASE ForkTest BY <1>3 DEF ForkTest
<1>4. CASE CtrlC BY <1>4 DEF CtrlC
<1>5. CASE MceNotify BY <1>5 DEF MceNotify
<1>6. CASE TestReadOnly BY <1>6 DEF TestReadOnly, PhaseDone
<1>7. CASE TestReadWrite BY <1>7 DEF TestReadWrite, PhaseDone
<1> QED BY <1>1, <1>2, <1>3, <1>4, <1>5, <1>6, <1>7, Frame

\* All of TypeOK is preserved.
LEMMA TypeStep ==
  ASSUME TypeOK, ProcessTree, [Next]_vars
  PROVE TypeOK'
<1>1. InputType' BY Frame DEF TypeOK, InputType, input
<1> QED BY <1>1, PcTypeStep, PidTypeStep, SignalTypeStep, StatusTypeStep, FlagTypeStep, CodeTypeStep,
           DeviceTypeStep, HistoryTypeStep DEF TypeOK

-----------------------------------------------------------------------------
(* The other parts of IInv are preserved. *)

\* ProcessTree is preserved: forks, waits and the order of module_test().
LEMMA ProcessTreeStep ==
  ASSUME PcType, PidType, ProcessTree, [Next]_vars
  PROVE ProcessTree'
<1> USE DEF input, pids, flags, device, history, PcType, PidType, ProcessTree, Goto, Return, End, Quiet,
            Alive, BeforeMce, BeforeTest, MceUnreaped, PidaKnown, PidbKnown, TestReaped, MceReaped,
            PCLabel, MainPC, MainRunning, MceRunning, TestRunning, Gone, Proc
<1>1. CASE GetMce BY <1>1 DEF GetMce
<1>2. CASE Signals BY <1>2 DEF Signals
<1>3. CASE ForkMce BY <1>3 DEF ForkMce
<1>4. CASE StorePida BY <1>4 DEF StorePida
<1>5. CASE ForkTest BY <1>5 DEF ForkTest
<1>6. CASE StorePidb BY <1>6 DEF StorePidb
<1>7. CASE WaitTest BY <1>7 DEF WaitTest
<1>8. CASE AbortMce BY <1>8 DEF AbortMce
<1>9. CASE WaitMce BY <1>9 DEF WaitMce
<1>10. CASE GetMsr BY <1>10 DEF GetMsr
<1>11. CASE Verdict BY <1>11 DEF Verdict
<1>12. CASE Close BY <1>12 DEF Close
<1>13. CASE sig_mce_exit BY <1>13 DEF sig_mce_exit
<1>14. CASE CtrlC BY <1>14 DEF CtrlC
<1>15. CASE MceInstall BY <1>15 DEF MceInstall
<1>16. CASE MceOpen BY <1>16 DEF MceOpen
<1>17. CASE MceRead BY <1>17 DEF MceRead
<1>18. CASE MceNotify BY <1>18 DEF MceNotify
<1>19. CASE MceAbort BY <1>19 DEF MceAbort
<1>20. CASE TestInstall BY <1>20 DEF TestInstall
<1>21. CASE TestReadOnly BY <1>21 DEF TestReadOnly
<1>22. CASE TestReadWrite BY <1>22 DEF TestReadWrite
<1>23. CASE USR2_signal_exit BY <1>23 DEF USR2_signal_exit
<1>24. CASE TestAbort BY <1>24 DEF TestAbort
<1>25. CASE MachineCheck BY <1>25 DEF MachineCheck
<1>26. CASE CtrlCExit BY <1>26 DEF CtrlCExit, sig_ctrlC_exit
<1>27. CASE UNCHANGED vars BY <1>27 DEF vars
<1> QED BY <1>1, <1>2, <1>3, <1>4, <1>5, <1>6, <1>7, <1>8, <1>9, <1>10, <1>11, <1>12, <1>13, <1>14,
           <1>15, <1>16, <1>17, <1>18, <1>19, <1>20, <1>21, <1>22, <1>23, <1>24, <1>25, <1>26, <1>27
        DEF Next, MainStep, MceStep, TestStep, Environment, Finished, CtrlCExit, Proc

\* Notification is preserved: SIGUSR1 can only be sent by an MCE child that is
\* not reaped, and leaves pending only through sig_mce_exit().
LEMMA NotificationStep ==
  ASSUME PcType, PidType, SignalType, FlagType, ProcessTree, Notification, [Next]_vars
  PROVE Notification'
<1> USE DEF input, pids, flags, device, history, PcType, SignalType, FlagType, ProcessTree, Notification,
            Goto, Return, End, Quiet, Alive, Sent, MceUnreaped, MceReaped, 
            MainPC, MainRunning, MceRunning, TestRunning, Gone, Proc, Child
<1>1. CASE GetMce BY <1>1 DEF GetMce
<1>2. CASE Signals BY <1>2 DEF Signals
<1>3. CASE ForkMce BY <1>3 DEF ForkMce
<1>4. CASE StorePida BY <1>4 DEF StorePida
<1>5. CASE ForkTest BY <1>5 DEF ForkTest
<1>6. CASE StorePidb BY <1>6 DEF StorePidb
<1>7. CASE WaitTest BY <1>7 DEF WaitTest
<1>8. CASE AbortMce BY <1>8 DEF AbortMce
<1>9. CASE WaitMce BY <1>9 DEF WaitMce
<1>10. CASE GetMsr BY <1>10 DEF GetMsr
<1>11. CASE Verdict BY <1>11 DEF Verdict
<1>12. CASE Close BY <1>12 DEF Close
<1>13. CASE sig_mce_exit BY <1>13 DEF sig_mce_exit
<1>14. CASE CtrlC BY <1>14 DEF CtrlC
<1>15. CASE MceInstall BY <1>15 DEF MceInstall
<1>16. CASE MceOpen BY <1>16 DEF MceOpen
<1>17. CASE MceRead BY <1>17 DEF MceRead
<1>18. CASE MceNotify BY <1>18 DEF MceNotify
<1>19. CASE MceAbort BY <1>19 DEF MceAbort
<1>20. CASE TestInstall BY <1>20 DEF TestInstall
<1>21. CASE TestReadOnly BY <1>21 DEF TestReadOnly
<1>22. CASE TestReadWrite BY <1>22 DEF TestReadWrite
<1>23. CASE USR2_signal_exit BY <1>23 DEF USR2_signal_exit
<1>24. CASE TestAbort BY <1>24 DEF TestAbort
<1>25. CASE MachineCheck BY <1>25 DEF MachineCheck
<1>26. CASE CtrlCExit BY <1>26 DEF CtrlCExit, sig_ctrlC_exit, CtrlCSends
<1>27. CASE UNCHANGED vars BY <1>27 DEF vars
<1> QED BY <1>1, <1>2, <1>3, <1>4, <1>5, <1>6, <1>7, <1>8, <1>9, <1>10, <1>11, <1>12, <1>13, <1>14,
           <1>15, <1>16, <1>17, <1>18, <1>19, <1>20, <1>21, <1>22, <1>23, <1>24, <1>25, <1>26, <1>27
        DEF Next, MainStep, MceStep, TestStep, Environment, Finished, CtrlCExit, Proc

\* InterruptReachesAll is preserved: main() cannot fork with SIGINT pending.
LEMMA InterruptReachesAllStep ==
  ASSUME PcType, PidType, SignalType, ProcessTree, InterruptReachesAll, [Next]_vars
  PROVE InterruptReachesAll'
<1> USE DEF input, pids, flags, device, history, PcType, PidType, SignalType, ProcessTree, InterruptReachesAll,
            Doomed, Goto, Return, End, Quiet, Alive, Sent, BeforeMce, BeforeTest, MceReaped, TestReaped, PidbKnown, PidaKnown, 
            MainPC, MainRunning, MceRunning, TestRunning, Gone, Proc, Child, Signal
<1>1. CASE GetMce BY <1>1 DEF GetMce
<1>2. CASE Signals BY <1>2 DEF Signals
<1>3. CASE ForkMce BY <1>3 DEF ForkMce
<1>4. CASE StorePida BY <1>4 DEF StorePida
<1>5. CASE ForkTest BY <1>5 DEF ForkTest
<1>6. CASE StorePidb BY <1>6 DEF StorePidb
<1>7. CASE WaitTest BY <1>7 DEF WaitTest
<1>8. CASE AbortMce
  <2>1. pida["main"] = "mce" /\ KillSucceeds("mce")
    BY <1>8 DEF AbortMce, KillSucceeds, MceUnreaped
  <2> QED BY <1>8, <2>1 DEF AbortMce
<1>9. CASE WaitMce BY <1>9 DEF WaitMce
<1>10. CASE GetMsr BY <1>10 DEF GetMsr
<1>11. CASE Verdict BY <1>11 DEF Verdict
<1>12. CASE Close BY <1>12 DEF Close
<1>13. CASE sig_mce_exit BY <1>13 DEF sig_mce_exit
<1>14. CASE CtrlC BY <1>14 DEF CtrlC
<1>15. CASE MceInstall BY <1>15 DEF MceInstall
<1>16. CASE MceOpen BY <1>16 DEF MceOpen
<1>17. CASE MceRead BY <1>17 DEF MceRead
<1>18. CASE MceNotify BY <1>18 DEF MceNotify
<1>19. CASE MceAbort BY <1>19 DEF MceAbort
<1>20. CASE TestInstall BY <1>20 DEF TestInstall
<1>21. CASE TestReadOnly BY <1>21 DEF TestReadOnly
<1>22. CASE TestReadWrite BY <1>22 DEF TestReadWrite
<1>23. CASE USR2_signal_exit BY <1>23 DEF USR2_signal_exit
<1>24. CASE TestAbort BY <1>24 DEF TestAbort
<1>25. CASE MachineCheck BY <1>25 DEF MachineCheck
<1>26. CASE CtrlCExit BY <1>26 DEF CtrlCExit, sig_ctrlC_exit, CtrlCSends
<1>27. CASE UNCHANGED vars BY <1>27 DEF vars
<1> QED BY <1>1, <1>2, <1>3, <1>4, <1>5, <1>6, <1>7, <1>8, <1>9, <1>10, <1>11, <1>12, <1>13, <1>14,
           <1>15, <1>16, <1>17, <1>18, <1>19, <1>20, <1>21, <1>22, <1>23, <1>24, <1>25, <1>26, <1>27
        DEF Next, MainStep, MceStep, TestStep, Environment, Finished, CtrlCExit, Proc

\* TestStatus is preserved: a test child that exits with 0 has tested all.
LEMMA TestStatusStep ==
  ASSUME TypeOK, ProcessTree, TestStatus, [Next]_vars
  PROVE TestStatus'
<1>1. PcType /\ PidType /\ StatusType /\ CodeType /\ UNCHANGED input
  BY Frame DEF TypeOK
<1>2. ASSUME UNCHANGED <<test_ret, phases, ret_flag>>, status'["test"] = status["test"],
             pc'["test"] = pc["test"], pc'["main"] \in TestReaped => pc["main"] \in TestReaped
      PROVE TestStatus'
  BY <1>1, <1>2 DEF TestStatus, Needed, input
<1>3. ASSUME pc'["main"] = pc["main"], UNCHANGED <<test_ret, phases, ret_flag>>, pc["test"] \in TestRunning,
             pc'["test"] = "zombie", pr_exit(status'["test"]) # 0
      PROVE TestStatus'
  BY <1>1, <1>3 DEF TestStatus, Needed, input, ProcessTree, TestRunning, Gone, TestReaped, PidbKnown
<1> USE DEF input, pids, flags, device, history, PcType, Goto, Return, End, TestReaped, PidbKnown,
            MainPC, MainRunning, Proc
<1>4. CASE GetMce BY <1>1, <1>2, <1>4 DEF GetMce
<1>5. CASE Signals BY <1>1, <1>2, <1>5 DEF Signals
<1>6. CASE ForkMce BY <1>1, <1>2, <1>6 DEF ForkMce
<1>7. CASE StorePida BY <1>1, <1>2, <1>7 DEF StorePida
<1>8. CASE StorePidb BY <1>1, <1>2, <1>8 DEF StorePidb
<1>9. CASE AbortMce BY <1>1, <1>2, <1>9 DEF AbortMce
<1>10. CASE GetMsr BY <1>1, <1>2, <1>10 DEF GetMsr
<1>11. CASE Verdict BY <1>1, <1>2, <1>11 DEF Verdict
<1>12. CASE Close BY <1>1, <1>2, <1>12 DEF Close
<1>13. CASE sig_mce_exit BY <1>1, <1>2, <1>13 DEF sig_mce_exit
<1>14. CASE CtrlC BY <1>1, <1>2, <1>14 DEF CtrlC
<1>15. CASE MceInstall BY <1>1, <1>2, <1>15 DEF MceInstall
<1>16. CASE MceRead BY <1>1, <1>2, <1>16 DEF MceRead
<1>17. CASE MceNotify BY <1>1, <1>2, <1>17 DEF MceNotify
<1>18. CASE MachineCheck BY <1>1, <1>2, <1>18 DEF MachineCheck
<1>19. CASE ForkTest
  <2>1. UNCHANGED <<test_ret, phases, ret_flag, status>> /\ pc["test"] = "none"
    BY <1>19 DEF ForkTest, ProcessTree, BeforeTest
  <2>2. pc'["test"] \in {"none", "start"} /\ pc'["main"] \notin TestReaped
    BY <1>1, <2>1, <1>19 DEF ForkTest
  <2> QED BY <1>1, <2>1, <2>2 DEF TestStatus, Needed, Gone, TestRunning
<1>20. CASE WaitTest
  <2>1. pidb["main"] = "test"
    BY <1>20 DEF WaitTest, ProcessTree
  <2> QED BY <1>1, <2>1, <1>20 DEF WaitTest, TestStatus, Needed, Gone, TestRunning
<1>21. CASE WaitMce
  <2>1. pida["main"] = "mce"
    BY <1>21 DEF WaitMce, ProcessTree, PidaKnown, BeforeMce
  <2> QED BY <1>1, <1>2, <2>1, <1>21 DEF WaitMce
<1>22. CASE MceOpen BY <1>1, <1>2, <1>22 DEF MceOpen, StatusType, Child
<1>23. CASE MceAbort BY <1>1, <1>2, <1>23 DEF MceAbort, StatusType, Child
<1>24. CASE CtrlCExit
  <2>1. PICK p \in Proc : sig_ctrlC_exit(p)
    BY <1>24 DEF CtrlCExit
  <2>2. CASE p = "test"
    <3>1. pr_exit(status'["test"]) # 0
      BY <1>1, <2>1, <2>2, StatusFacts DEF sig_ctrlC_exit, StatusType, Child, EINTR
    <3>2. pc["test"] \in TestRunning
      BY <1>1, <2>1, <2>2 DEF sig_ctrlC_exit, Alive, Gone
    <3> QED BY <1>1, <1>3, <2>1, <2>2, <3>1, <3>2 DEF sig_ctrlC_exit
  <2>3. CASE p # "test"
    BY <1>1, <1>2, <2>1, <2>3 DEF sig_ctrlC_exit, StatusType, Child
  <2> QED BY <2>2, <2>3
<1>25. CASE TestInstall
  <2>1. CASE pc'["test"] = "rd"
    BY <1>1, <2>1, <1>25 DEF TestInstall, TestStatus, TestRunning, Gone, Needed
  <2>2. CASE pc'["test"] # "rd"
    <3>1. PICK e \in Errnos : End("test", Exited(LowByte(Errno(e))))
      BY <1>1, <2>2, <1>25 DEF TestInstall
    <3>2. pr_exit(status'["test"]) # 0
      BY <1>1, <3>1, StatusFacts, CodeFacts, ErrnoFacts DEF StatusType, Child
    <3> QED BY <1>1, <3>1, <3>2, <1>25 DEF TestInstall, TestStatus, ProcessTree, Needed, TestRunning, Gone
  <2> QED BY <2>1, <2>2
<1>26. CASE TestReadOnly
  <2> DEFINE Results == IF RD_empty = 0 THEN {test_ret} ELSE RDResults
  <2>1. PICK r \in Results :
          /\ test_ret' = r
          /\ IF r = ERR_SUCCESS THEN Goto("test", "rw") /\ UNCHANGED status
                                ELSE End("test", Exited(LowByte(r)))
          /\ phases' = phases \cup PhaseDone("rd", RD_empty, r)
    BY <1>26 DEF TestReadOnly
  <2>2. CASE r = ERR_SUCCESS
    BY <1>1, <2>1, <2>2, <1>26 DEF TestReadOnly, PhaseDone, TestStatus, Needed, TestRunning, Gone
  <2>3. CASE r # ERR_SUCCESS
    <3>1. r \in RDResults
      BY <2>1, <2>3, <1>26 DEF TestReadOnly, TestStatus, TestRunning
    <3>2. pr_exit(status'["test"]) # 0
      BY <1>1, <2>1, <2>3, <3>1, LowByteAssumption, StatusFacts DEF StatusType, Child
    <3> QED BY <1>1, <2>1, <2>3, <3>2, <1>26
        DEF TestReadOnly, PhaseDone, TestStatus, ProcessTree, Needed, TestRunning, Gone
  <2> QED BY <2>2, <2>3
<1>27. CASE TestReadWrite
  <2> DEFINE Results == IF RW_empty = 0 THEN {test_ret} ELSE RWResults
  <2>1. PICK r \in Results : /\ test_ret' = r /\ End("test", Exited(LowByte(r)))
                            /\ phases' = phases \cup PhaseDone("rw", RW_empty, r)
    BY <1>27 DEF TestReadWrite
  <2>2. Needed' = Needed /\ phases' \subseteq Needed /\ (r = ERR_SUCCESS => phases' = Needed)
    BY <1>1, <1>27, <2>1 DEF TestReadWrite, PhaseDone, TestStatus, Needed
  <2>3. CASE r = ERR_SUCCESS
    BY <1>1, <2>1, <2>2, <2>3, <1>27 DEF TestReadWrite, TestStatus, ProcessTree, TestRunning, Gone
  <2>4. CASE r # ERR_SUCCESS
    <3>1. r \in RWResults
      BY <2>1, <2>4, <1>27 DEF TestReadWrite, TestStatus, TestRunning
    <3>2. pr_exit(status'["test"]) # 0
      BY <1>1, <2>1, <2>4, <3>1, LowByteAssumption, StatusFacts DEF StatusType, Child
    <3> QED BY <1>1, <2>1, <2>2, <3>2, <1>27 DEF TestReadWrite, TestStatus, ProcessTree, TestRunning, Gone
  <2> QED BY <2>3, <2>4
<1>28. CASE USR2_signal_exit
  <2>1. CASE UNCHANGED <<pc, status>>
    BY <1>2, <2>1, <1>28 DEF USR2_signal_exit
  <2>2. CASE End("test", Killed(SIGUSR2)) \/ End("test", Exited(SIGUSR2))
    <3>1. pr_exit(status'["test"]) # 0
      BY <1>1, <2>2, StatusFacts DEF StatusType, Child, SIGUSR2
    <3> QED BY <1>1, <1>3, <2>2, <3>1, <1>28 DEF USR2_signal_exit, Alive, Gone
  <2> QED BY <2>1, <2>2, <1>28 DEF USR2_signal_exit
<1>29. CASE TestAbort
  <2>1. pr_exit(status'["test"]) # 0
    BY <1>1, <1>29, StatusFacts DEF TestAbort, StatusType, Child
  <2> QED BY <1>1, <1>3, <2>1, <1>29 DEF TestAbort, Alive, Gone
<1>30. CASE UNCHANGED vars BY <1>1, <1>2, <1>30 DEF vars
<1> QED BY <1>4, <1>5, <1>6, <1>7, <1>8, <1>9, <1>10, <1>11, <1>12, <1>13, <1>14, <1>15, <1>16, <1>17,
           <1>18, <1>19, <1>20, <1>21, <1>22, <1>23, <1>24, <1>25, <1>26, <1>27, <1>28, <1>29, <1>30
        DEF Next, MainStep, MceStep, TestStep, Environment, Finished, CtrlCExit, Proc

\* ReturnedCode is preserved: only Verdict and Close return something other
\* than a failure code, and they do so when nothing was notified.
LEMMA ReturnedCodeStep ==
  ASSUME IInv, [Next]_vars
  PROVE ReturnedCode'
<1>1. /\ PcType /\ FlagType /\ HistoryType /\ ProcessTree /\ Notification /\ TestStatus /\ ReturnedCode
      /\ UNCHANGED input
  BY Frame DEF IInv, TypeOK
<1>2. ASSUME pc["main"] = "exited" PROVE ReturnedCode'
  <2> USE DEF PcType, Goto, Return, End, Alive, Gone, Proc, input, pids, flags, device, history
  <2>1. /\ pc'["main"] = "exited" /\ UNCHANGED <<ret, notified>>
        /\ pc["test"] = "reaped" => pc'["test"] = "reaped" /\ UNCHANGED <<phases, test_ret>>
    <3>1. CASE GetMce BY <1>1, <1>2, <3>1 DEF GetMce
    <3>2. CASE Signals BY <1>1, <1>2, <3>2 DEF Signals
    <3>3. CASE ForkMce BY <1>1, <1>2, <3>3 DEF ForkMce
    <3>4. CASE StorePida BY <1>1, <1>2, <3>4 DEF StorePida
    <3>5. CASE ForkTest BY <1>1, <1>2, <3>5 DEF ForkTest
    <3>6. CASE StorePidb BY <1>1, <1>2, <3>6 DEF StorePidb
    <3>7. CASE WaitTest BY <1>1, <1>2, <3>7 DEF WaitTest
    <3>8. CASE AbortMce BY <1>1, <1>2, <3>8 DEF AbortMce
    <3>9. CASE WaitMce BY <1>1, <1>2, <3>9 DEF WaitMce
    <3>10. CASE GetMsr BY <1>1, <1>2, <3>10 DEF GetMsr
    <3>11. CASE Verdict BY <1>1, <1>2, <3>11 DEF Verdict
    <3>12. CASE Close BY <1>1, <1>2, <3>12 DEF Close
    <3>13. CASE sig_mce_exit BY <1>1, <1>2, <3>13 DEF sig_mce_exit
    <3>14. CASE CtrlC BY <1>1, <1>2, <3>14 DEF CtrlC
    <3>15. CASE MceInstall BY <1>1, <1>2, <3>15 DEF MceInstall
    <3>16. CASE MceOpen BY <1>1, <1>2, <3>16 DEF MceOpen
    <3>17. CASE MceRead BY <1>1, <1>2, <3>17 DEF MceRead
    <3>18. CASE MceNotify
      <4>1. notified' = notified
        BY <1>1, <1>2, <3>18 DEF MceNotify, HistoryType
      <4> QED BY <1>1, <1>2, <3>18, <4>1 DEF MceNotify
    <3>19. CASE MceAbort BY <1>1, <1>2, <3>19 DEF MceAbort
    <3>20. CASE TestInstall BY <1>1, <1>2, <3>20 DEF TestInstall
    <3>21. CASE TestReadOnly BY <1>1, <1>2, <3>21 DEF TestReadOnly
    <3>22. CASE TestReadWrite BY <1>1, <1>2, <3>22 DEF TestReadWrite
    <3>23. CASE USR2_signal_exit BY <1>1, <1>2, <3>23 DEF USR2_signal_exit
    <3>24. CASE TestAbort BY <1>1, <1>2, <3>24 DEF TestAbort
    <3>25. CASE MachineCheck BY <1>1, <1>2, <3>25 DEF MachineCheck
    <3>26. CASE CtrlCExit BY <1>1, <1>2, <3>26 DEF CtrlCExit, sig_ctrlC_exit
    <3>27. CASE UNCHANGED vars BY <1>1, <1>2, <3>27 DEF vars
    <3> QED BY <3>1, <3>2, <3>3, <3>4, <3>5, <3>6, <3>7, <3>8, <3>9, <3>10, <3>11, <3>12, <3>13, <3>14,
               <3>15, <3>16, <3>17, <3>18, <3>19, <3>20, <3>21, <3>22, <3>23, <3>24, <3>25, <3>26, <3>27
            DEF Next, MainStep, MceStep, TestStep, Environment, Finished, CtrlCExit, Proc
  <2> QED BY <1>1, <1>2, <2>1 DEF ReturnedCode, Needed, input
<1>3. ASSUME pc["main"] # "exited", pc'["main"] = "exited", ret' \in FailureCodes
      PROVE ReturnedCode'
  BY <1>3 DEF ReturnedCode, FailureCodes
<1>4. CASE pc["main"] # "exited" /\ pc'["main"] = "exited"
  <2> USE DEF PcType, Goto, Return, Proc, input, pids, flags, device, history
  <2>1. CASE Verdict
    <3>1. "SIGUSR1" \notin pending["main"]
      BY <2>1 DEF Verdict, Quiet
    <3>2. CASE termination_flag = 1 \/ mce_flag = 1
      BY <1>1, <1>3, <1>4, <2>1, <3>2 DEF Verdict, FailureCodes
    <3>3. CASE ~(termination_flag = 1 \/ mce_flag = 1)
      <4>1. ~notified /\ ret_flag # 0 /\ ret' = ChildErr(ret_flag)
        BY <1>1, <1>4, <2>1, <3>1, <3>3 DEF Verdict, Notification
      <4>2. ret_flag \in 1..255
        BY <1>1, <4>1 DEF FlagType, Byte
      <4> QED BY <2>1, <4>1, <4>2 DEF Verdict, ReturnedCode
    <3> QED BY <3>2, <3>3
  <2>2. CASE Close
    <3>1. ~notified /\ ret_flag = 0 /\ pc["test"] = "reaped" /\ ret' = ERR_SUCCESS
      BY <1>1, <2>2 DEF Close, Quiet, Notification, ProcessTree, TestReaped, PidbKnown
    <3>2. phases = Needed /\ test_ret = ERR_SUCCESS
      BY <1>1, <2>2, <3>1 DEF Close, TestStatus, Gone, TestReaped, PidbKnown
    <3> QED BY <1>1, <2>2, <3>1, <3>2 DEF Close, ReturnedCode, Needed
  <2>3. CASE GetMce
    BY <1>1, <1>3, <1>4, <2>3, ErrnoFacts DEF GetMce, FailureCodes
  <2>4. CASE Signals
    BY <1>1, <1>3, <1>4, <2>4, ErrnoFacts DEF Signals, FailureCodes
  <2>5. CASE ForkMce
    BY <1>1, <1>3, <1>4, <2>5, ErrnoFacts DEF ForkMce, FailureCodes
  <2>6. CASE ForkTest
    BY <1>1, <1>3, <1>4, <2>6, ErrnoFacts DEF ForkTest, FailureCodes
  <2>7. CASE AbortMce
    BY <1>1, <1>3, <1>4, <2>7, ErrnoFacts DEF AbortMce, FailureCodes
  <2>8. CASE GetMsr
    BY <1>1, <1>3, <1>4, <2>8, ErrnoFacts DEF GetMsr, FailureCodes
  <2>9. CASE CtrlCExit
    <3>1. Errno(EINTR) \in FailureCodes
      BY DEF EINTR, FailureCodes
    <3> QED BY <1>1, <1>3, <1>4, <2>9, <3>1 DEF CtrlCExit, sig_ctrlC_exit, End
  <2>10. CASE StorePida BY <1>1, <1>4, <2>10 DEF StorePida, End
  <2>11. CASE StorePidb BY <1>1, <1>4, <2>11 DEF StorePidb, End
  <2>12. CASE WaitTest BY <1>1, <1>4, <2>12 DEF WaitTest, End
  <2>13. CASE WaitMce BY <1>1, <1>4, <2>13 DEF WaitMce, End
  <2>14. CASE sig_mce_exit BY <1>1, <1>4, <2>14 DEF sig_mce_exit, End
  <2>15. CASE CtrlC BY <1>1, <1>4, <2>15 DEF CtrlC, End
  <2>16. CASE MceInstall BY <1>1, <1>4, <2>16 DEF MceInstall, End
  <2>17. CASE MceOpen BY <1>1, <1>4, <2>17 DEF MceOpen, End
  <2>18. CASE MceRead BY <1>1, <1>4, <2>18 DEF MceRead, End
  <2>19. CASE MceNotify BY <1>1, <1>4, <2>19 DEF MceNotify, End
  <2>20. CASE MceAbort BY <1>1, <1>4, <2>20 DEF MceAbort, End
  <2>21. CASE TestInstall BY <1>1, <1>4, <2>21 DEF TestInstall, End
  <2>22. CASE TestReadOnly BY <1>1, <1>4, <2>22 DEF TestReadOnly, End
  <2>23. CASE TestReadWrite BY <1>1, <1>4, <2>23 DEF TestReadWrite, End
  <2>24. CASE USR2_signal_exit BY <1>1, <1>4, <2>24 DEF USR2_signal_exit, End
  <2>25. CASE TestAbort BY <1>1, <1>4, <2>25 DEF TestAbort, End
  <2>26. CASE MachineCheck BY <1>1, <1>4, <2>26 DEF MachineCheck, End
  <2>27. CASE UNCHANGED vars BY <1>4, <2>27 DEF vars
  <2> QED BY <2>1, <2>2, <2>3, <2>4, <2>5, <2>6, <2>7, <2>8, <2>9, <2>10, <2>11, <2>12, <2>13, <2>14,
             <2>15, <2>16, <2>17, <2>18, <2>19, <2>20, <2>21, <2>22, <2>23, <2>24, <2>25, <2>26, <2>27
          DEF Next, MainStep, MceStep, TestStep, Environment, Finished, CtrlCExit, Proc
<1> QED BY <1>2, <1>4 DEF ReturnedCode

-----------------------------------------------------------------------------
(* The theorems. *)

\* IInv holds initially.
LEMMA InitIInv == Init => IInv
<1> SUFFICES ASSUME Init PROVE IInv
  OBVIOUS
<1> USE DEF Init
<1>1. InputType /\ PidType /\ SignalType /\ HistoryType
  BY DEF InputType, PidType, SignalType, HistoryType
<1>2. PcType
  BY DEF PcType, PCLabel, MainPC, MceRunning, TestRunning, Gone, Proc
<1>3. StatusType /\ FlagType /\ CodeType
  BY CodeFacts DEF StatusType, Status, FlagType, Byte, CodeType
<1>4. DeviceType
  BY FaultsAssumption DEF DeviceType
<1>5. ProcessTree /\ Notification /\ ReturnedCode
  BY DEF ProcessTree, Notification, ReturnedCode, BeforeMce, BeforeTest, MceUnreaped, PidaKnown, PidbKnown,
         TestReaped, MceReaped, MainRunning, MainPC, Proc
<1>6. TestStatus
  BY DEF TestStatus, Needed, TestReaped, PidbKnown, TestRunning, Gone, Proc
<1>7. InterruptReachesAll
  BY DEF InterruptReachesAll, Proc
<1> QED BY <1>1, <1>2, <1>3, <1>4, <1>5, <1>6, <1>7 DEF IInv, TypeOK

\* IInv is an invariant of the specification.
THEOREM Invariance == Spec => []IInv
<1>1. Init => IInv
  BY InitIInv
<1>2. IInv /\ [Next]_vars => IInv'
  <2> SUFFICES ASSUME IInv, [Next]_vars PROVE IInv'
    OBVIOUS
  <2>1. TypeOK /\ ProcessTree /\ Notification /\ TestStatus /\ InterruptReachesAll
    BY DEF IInv
  <2>2. TypeOK'
    BY <2>1, TypeStep
  <2>3. ProcessTree' /\ Notification' /\ InterruptReachesAll'
    BY <2>1, ProcessTreeStep, NotificationStep, InterruptReachesAllStep DEF TypeOK
  <2>4. TestStatus'
    BY <2>1, TestStatusStep
  <2> QED BY <2>2, <2>3, <2>4, ReturnedCodeStep DEF IInv
<1> QED BY <1>1, <1>2, PTL DEF Spec

\* Every state is well typed: the pids, flags, statuses and codes of the
\* three processes stay within their ranges.
THEOREM TypeCorrect == Spec => []TypeOK
<1>1. IInv => TypeOK
  BY DEF IInv
<1> QED BY <1>1, Invariance, PTL

\* No failure code that module_test() can return reaches the shell as 0.
LEMMA FailuresAreSeen ==
  ASSUME NEW c, c \in FailureCodes \/ \E b \in 1..255 : c = ChildErr(b)
  PROVE ExitStatus(c) # 0
<1> USE DEF ExitStatus, return_cli_error_code
<1>1. CASE \E e \in 1..255 : c = Errno(e)
  <2>1. PICK e \in 1..255 : c = Errno(e)
    BY <1>1
  <2>2. return_cli_error_code(c) = e
    BY <2>1 DEF Errno
  <2> QED BY <2>2
<1>2. CASE c = ERR_MCE_MSG
  <2>1. return_cli_error_code(c) = 513
    BY <1>2 DEF ERR_MCE_MSG, AppErr, code_map, ERR_MCE_TERMINATE
  <2> QED BY <2>1
<1>3. CASE c = ERR_MCE_TERMINATE
  <2>1. return_cli_error_code(c) = 555
    BY <1>3 DEF ERR_MCE_TERMINATE, code_map
  <2> QED BY <2>1
<1>4. CASE \E b \in 1..255 : c = ChildErr(b)
  <2>1. PICK b \in 1..255 : c = ChildErr(b)
    BY <1>4
  <2>2. c[1] = 41216 /\ c[2] = b /\ c # ERR_MCE_TERMINATE
    BY <2>1 DEF ChildErr, ERR_MCE_TERMINATE
  <2>3. ASSUME c \in DOMAIN code_map
        PROVE  code_map[c] \in 520..537
    <3>1. code_map[c] = IF c[2] = 10 THEN 537 ELSE IF c[2] < 32 THEN 504 + c[2] ELSE 498 + c[2]
      BY <2>2, <2>3 DEF code_map
    <3>2. b \in (16..25) \cup (32..38) \cup {10}
      BY <2>1, <2>2, <2>3 DEF code_map, ChildErr, AppErr
    <3> QED BY <2>2, <3>1, <3>2
  <2>4. \A n \in 520..537 : n % 256 # 0
    OBVIOUS
  <2> QED BY <2>2, <2>3, <2>4
<1> QED BY <1>1, <1>2, <1>3, <1>4 DEF FailureCodes

\* main() exits with 0 only after complete tests, a successful test child and
\* no notification of the MCE child.
THEOREM PassSound == Spec => []PassIsEarned
<1>1. IInv => PassIsEarned
  BY FailuresAreSeen DEF IInv, PassIsEarned, ReturnedCode
<1> QED BY <1>1, Invariance, PTL

\* A notified machine check decides what module_test() returns.
THEOREM MceSound == Spec => []MceNotMasked
<1>1. ASSUME NEW c \in FailureCodes PROVE c # ERR_SUCCESS /\ c[1] # ChildErr(0)[1]
  BY DEF FailureCodes, ERR_SUCCESS, Errno, ERR_MCE_MSG, ERR_MCE_TERMINATE, AppErr, ChildErr
<1>2. IInv => MceNotMasked
  BY <1>1 DEF IInv, MceNotMasked, ReturnedCode
<1> QED BY <1>2, Invariance, PTL

\* The abort of the MCE child reaches it.
THEOREM AbortSound == Spec => []AbortReachesMceChild
<1>1. IInv => AbortReachesMceChild
  BY DEF IInv, AbortReachesMceChild, ProcessTree, MceUnreaped, PidaKnown, MainRunning, MainPC, BeforeMce, MceRunning
<1> QED BY <1>1, Invariance, PTL

\* main() leaves no child running, unless the second fork() failed.
THEOREM NoOrphanSound == Spec => []NoOrphan
<1>1. IInv => NoOrphan
  BY DEF IInv, InterruptReachesAll, Doomed, NoOrphan
<1> QED BY <1>1, Invariance, PTL

\* The children of module_test() are reaped or about to end when it returns.
THEOREM ChildrenSound == Spec => []ChildrenReaped
<1>1. AbortReachesMceChild /\ NoOrphan => ChildrenReaped
  BY DEF ChildrenReaped
<1> QED BY <1>1, AbortSound, NoOrphanSound, PTL
=============================================================================
