--------------------------- MODULE ReadWriteTest ---------------------------
(***************************************************************************)
(* read_write_test() and its threads.  The main thread of the test child   *)
(* runs one round per test item and range: it starts one thread per slice, *)
(* last slice first, joins them first slice first and collects their       *)
(* results.                                                                *)
(*                                                                         *)
(* thread[], thread_stru[] and ret_val[] are never cleared between rounds. *)
(* What pthread_create() leaves in thread[k] when it fails is unspecified, *)
(* so thread[k] can name a thread that was joined long ago, one that never *)
(* existed, or a running thread that got the same pthread_t.  And ret_val  *)
(* is an array of unsigned int, while pthread_join() stores a pointer: a   *)
(* join that succeeds also zeroes the element after its own.               *)
(*                                                                         *)
(* NODE_COUNT is 1.  The rows of the table (see RangeTable) are numbered   *)
(* from 0 and so are the slices of a row.                                  *)
(***************************************************************************)
EXTENDS Integers, FiniteSets

CONSTANTS
  CORE_COUNT,        \* size of thread[], thread_stru[] and ret_val[]
  ItemNum,           \* number of test items
  range_num,         \* number of rows
  slice_num,         \* number of slices of each row
  Tid,               \* the values of a pthread_t
  AlgorithmErrors,   \* what a test algorithm returns on a memory error
  RandomItem,        \* the random address test is among the items
  StaleErrnos,       \* errno when fgets() meets the end of the pattern file
  MaxCreateFailures  \* bound on the failures of pthread_create()

ERR_SUCCESS == "ERR_SUCCESS"
ERR_BIND_CPU == "ERR_BIND_CPU"
ERR_CREATE_THREAD == "ERR_CREATE_THREAD"
ERR_READ_RAND_PATTERN == "ERR_READ_RAND_PATTERN"
EIO == "EIO"  \* the errno of a failed stat() or fopen()

Row == 0..(range_num - 1)
Slot == 0..(CORE_COUNT - 1)

ASSUME CountAssumption ==
  /\ CORE_COUNT \in Nat \ {0} /\ ItemNum \in Nat \ {0} /\ MaxCreateFailures \in Nat
  /\ range_num \in Nat \ {0} /\ slice_num \in [Row -> 1..CORE_COUNT]

\* errno is that of an earlier failure: the last access() of get_mem_info() looks
\* for a file that the call before it has removed.
ASSUME ErrnoAssumption == ERR_SUCCESS \notin StaleErrnos

ASSUME NameAssumption ==
  /\ 0 \notin Tid
  /\ ERR_SUCCESS \notin AlgorithmErrors
  /\ RandomItem \in BOOLEAN

VARIABLES
  pc,           \* control point of the main thread
  item_n, j,    \* the round: test item and row
  k, m,         \* next slice to start, next thread to join
  thread,       \* the pthread_t of each slot, 0 before its first use
  thread_stru,  \* what the thread of a slot is to test
  ret_val,      \* the result of each slot
  ret,
  tstate,       \* each thread: "free", "started", "testing" or "ended"
  arg,          \* the slot whose thread_stru it was given
  work,         \* what it tests
  result,       \* what it returned
  \* history
  creates,      \* failures of pthread_create() so far
  begun,        \* slices whose test was begun
  failures      \* codes of all failures so far

loop == <<item_n, j, k, m>>
slots == <<thread, thread_stru, ret_val>>
threads == <<tstate, arg, work, result>>
history == <<creates, begun, failures>>
vars == <<pc, loop, slots, ret, threads, history>>

Nothing == [item |-> -1, row |-> -1, slice |-> -1]

-----------------------------------------------------------------------------
(* The main thread. *)

\* The lists are copied and released, and the pattern of the random address
\* test is read or made.  It can be missing and not be makeable, too short by
\* its size, or end before its last line; then errno is that of an earlier call.
Prepare ==
  /\ pc = "prepare"
  /\ \/ pc' = "create" /\ UNCHANGED <<ret, failures>>
     \/ /\ RandomItem
        /\ pc' = "returned"
        /\ \E e \in {EIO, ERR_READ_RAND_PATTERN} \cup StaleErrnos :
             ret' = e /\ failures' = (failures \cup {e}) \ {ERR_SUCCESS}
  /\ UNCHANGED <<loop, slots, threads, creates, begun>>

\* Variants: the failure is only stored in ret_val; all threads of a round are
\* given the first slot.
CreateThreadRetVal ==
  /\ pc = "create" /\ k >= 0
  /\ k' = k - 1
  /\ thread_stru' = [thread_stru EXCEPT ![k] = [item |-> item_n, row |-> j, slice |-> k]]
  /\ \/ \E t \in Tid :
          /\ tstate[t] = "free"
          /\ thread' = [thread EXCEPT ![k] = t]
          /\ tstate' = [tstate EXCEPT ![t] = "started"]
          /\ arg' = [arg EXCEPT ![t] = k]
          /\ UNCHANGED <<ret_val, creates, failures>>
     \/ /\ creates < MaxCreateFailures
        /\ creates' = creates + 1
        /\ ret_val' = [ret_val EXCEPT ![k] = ERR_CREATE_THREAD]
        /\ failures' = failures \cup {ERR_CREATE_THREAD}
        /\ UNCHANGED <<thread, tstate, arg>>
  /\ UNCHANGED <<pc, item_n, j, m, ret, work, result, begun>>

CreateThreadShared ==
  /\ pc = "create" /\ k >= 0
  /\ k' = k - 1
  /\ thread_stru' = [thread_stru EXCEPT ![k] = [item |-> item_n, row |-> j, slice |-> k]]
  /\ \E t \in Tid :
       /\ tstate[t] = "free"
       /\ thread' = [thread EXCEPT ![k] = t]
       /\ tstate' = [tstate EXCEPT ![t] = "started"]
       /\ arg' = [arg EXCEPT ![t] = 0]
  /\ UNCHANGED <<pc, item_n, j, m, ret_val, ret, work, result, history>>

\* pthread_create() for slice k; on failure the loop goes on to the next slice.
CreateThread ==
  /\ pc = "create" /\ k >= 0
  /\ k' = k - 1
  /\ thread_stru' = [thread_stru EXCEPT ![k] = [item |-> item_n, row |-> j, slice |-> k]]
  /\ \/ \E t \in Tid :
          /\ tstate[t] = "free"
          /\ thread' = [thread EXCEPT ![k] = t]
          /\ tstate' = [tstate EXCEPT ![t] = "started"]
          /\ arg' = [arg EXCEPT ![t] = k]
          /\ UNCHANGED <<ret_val, ret, creates, failures>>
     \/ /\ creates < MaxCreateFailures
        /\ creates' = creates + 1
        /\ \/ UNCHANGED thread
           \/ \E t \in Tid : tstate[t] = "free" /\ thread' = [thread EXCEPT ![k] = t]
        /\ ret' = ERR_CREATE_THREAD
        /\ ret_val' = [ret_val EXCEPT ![k] = ERR_CREATE_THREAD]
        /\ failures' = failures \cup {ERR_CREATE_THREAD}
        /\ UNCHANGED <<tstate, arg>>
  /\ UNCHANGED <<pc, item_n, j, m, work, result, begun>>

\* Variant: the first thread is not joined.
AllCreatedButFirst ==
  /\ pc = "create" /\ k < 0
  /\ pc' = "join" /\ m' = 1
  /\ UNCHANGED <<item_n, j, k, slots, ret, threads, history>>

AllCreated ==
  /\ pc = "create" /\ k < 0
  /\ pc' = "join" /\ m' = 0
  /\ UNCHANGED <<item_n, j, k, slots, ret, threads, history>>

\* ret_val after pthread_join() has stored r for slot i.
Stored(rv, i, r) == [s \in Slot |-> IF s = i THEN r ELSE IF s = i + 1 THEN ERR_SUCCESS ELSE rv[s]]

\* Joining a thread that is not there: an error, a null result or a crash.
JoinMissing(t) ==
  /\ tstate[t] = "free"
  /\ \/ m' = m + 1 /\ UNCHANGED <<pc, ret_val>>
     \/ m' = m + 1 /\ ret_val' = Stored(ret_val, m, ERR_SUCCESS) /\ UNCHANGED pc
     \/ pc' = "crashed" /\ UNCHANGED <<m, ret_val>>
  /\ UNCHANGED threads

\* Nothing is left of a joined thread.
Free(t) ==
  /\ tstate' = [tstate EXCEPT ![t] = "free"]
  /\ arg' = [arg EXCEPT ![t] = 0]
  /\ work' = [work EXCEPT ![t] = Nothing]
  /\ result' = [result EXCEPT ![t] = ERR_SUCCESS]

JoinThread ==
  /\ pc = "join" /\ m < slice_num[j]
  /\ \/ /\ thread[m] = 0
        /\ m' = m + 1
        /\ UNCHANGED <<pc, ret_val, threads>>
     \/ /\ thread[m] # 0 /\ tstate[thread[m]] = "ended"
        /\ ret_val' = Stored(ret_val, m, result[thread[m]])
        /\ Free(thread[m])
        /\ m' = m + 1
        /\ UNCHANGED pc
     \/ thread[m] # 0 /\ JoinMissing(thread[m])
  /\ UNCHANGED <<item_n, j, k, thread, thread_stru, ret, history>>

\* The last result other than success among those of the round's slots, else c.
LastError(rv, num, c) ==
  IF \A s \in 0..(num - 1) : rv[s] = ERR_SUCCESS THEN c
  ELSE rv[CHOOSE s \in 0..(num - 1) :
            rv[s] # ERR_SUCCESS /\ \A u \in (s + 1)..(num - 1) : rv[u] = ERR_SUCCESS]

\* Variant: the item is not counted.
CollectSameItem ==
  /\ pc = "join" /\ m = slice_num[j]
  /\ ret' = LastError(ret_val, slice_num[j], ret)
  /\ j' = (j + 1) % range_num /\ k' = slice_num[(j + 1) % range_num] - 1
  /\ pc' = "create"
  /\ UNCHANGED <<item_n, m, slots, threads, history>>

\* Collect the results and go on to the next row, or to the next item: an
\* error does not end the test.
Collect ==
  /\ pc = "join" /\ m = slice_num[j]
  /\ ret' = LastError(ret_val, slice_num[j], ret)
  /\ IF j + 1 \in Row
     THEN /\ j' = j + 1 /\ k' = slice_num[j + 1] - 1
          /\ pc' = "create"
          /\ UNCHANGED item_n
     ELSE /\ item_n' = item_n + 1 /\ j' = 0 /\ k' = slice_num[0] - 1
          /\ pc' = IF item_n + 1 < ItemNum THEN "create" ELSE "returned"
  /\ UNCHANGED <<m, slots, threads, history>>

-----------------------------------------------------------------------------
(* run_test_slice() *)

\* isys_cpu_bind() fails.
BindFails(t) ==
  /\ pc # "crashed" /\ tstate[t] = "started"
  /\ tstate' = [tstate EXCEPT ![t] = "ended"]
  /\ result' = [result EXCEPT ![t] = ERR_BIND_CPU]
  /\ failures' = failures \cup {ERR_BIND_CPU}
  /\ UNCHANGED <<pc, loop, slots, ret, arg, work, creates, begun>>

\* The thread reads what it is to test from the slot it was given.
BeginTest(t) ==
  /\ pc # "crashed" /\ tstate[t] = "started"
  /\ tstate' = [tstate EXCEPT ![t] = "testing"]
  /\ work' = [work EXCEPT ![t] = thread_stru[arg[t]]]
  /\ begun' = begun \cup {thread_stru[arg[t]]}
  /\ UNCHANGED <<pc, loop, slots, ret, arg, result, creates, failures>>

EndTest(t) ==
  /\ pc # "crashed" /\ tstate[t] = "testing"
  /\ tstate' = [tstate EXCEPT ![t] = "ended"]
  /\ \E r \in {ERR_SUCCESS} \cup AlgorithmErrors :
       /\ result' = [result EXCEPT ![t] = r]
       /\ failures' = (failures \cup {r}) \ {ERR_SUCCESS}
  /\ UNCHANGED <<pc, loop, slots, ret, arg, work, creates, begun>>

\* The child has returned from the test or has been killed by a signal.
Finished == pc \in {"returned", "crashed"} /\ UNCHANGED vars

-----------------------------------------------------------------------------
Init ==
  /\ pc = "prepare"
  /\ item_n = 0 /\ j = 0 /\ k = slice_num[0] - 1 /\ m = 0
  /\ thread = [s \in Slot |-> 0]
  /\ thread_stru = [s \in Slot |-> Nothing]
  /\ ret_val = [s \in Slot |-> ERR_SUCCESS] /\ ret = ERR_SUCCESS
  /\ tstate = [t \in Tid |-> "free"] /\ arg = [t \in Tid |-> 0]
  /\ work = [t \in Tid |-> Nothing] /\ result = [t \in Tid |-> ERR_SUCCESS]
  /\ creates = 0 /\ begun = {} /\ failures = {}

MainThread == Prepare \/ CreateThread \/ AllCreated \/ JoinThread \/ Collect
Thread(t) == BindFails(t) \/ BeginTest(t) \/ EndTest(t)

Next == MainThread \/ (\E t \in Tid : Thread(t)) \/ Finished

Spec == Init /\ [][Next]_vars

\* Every thread that can run does, and the test algorithms are finite loops.
FairSpec == Spec /\ WF_vars(MainThread) /\ \A t \in Tid : WF_vars(Thread(t))
-----------------------------------------------------------------------------
Task == [item : 0..(ItemNum - 1), row : Row, slice : Slot]
Code == {ERR_SUCCESS, ERR_BIND_CPU, ERR_CREATE_THREAD, ERR_READ_RAND_PATTERN, EIO}
          \cup AlgorithmErrors \cup StaleErrnos

TypeOK ==
  /\ pc \in {"prepare", "create", "join", "returned", "crashed"}
  /\ item_n \in 0..ItemNum /\ j \in Row /\ k \in -1..(CORE_COUNT - 1) /\ m \in 0..CORE_COUNT
  /\ thread \in [Slot -> Tid \cup {0}]
  /\ thread_stru \in [Slot -> Task \cup {Nothing}]
  /\ ret_val \in [Slot -> Code] /\ ret \in Code
  /\ tstate \in [Tid -> {"free", "started", "testing", "ended"}]
  /\ arg \in [Tid -> Slot] /\ work \in [Tid -> Task \cup {Nothing}] /\ result \in [Tid -> Code]
  /\ creates \in 0..MaxCreateFailures
  /\ begun \subseteq Task /\ failures \subseteq Code

\* Everything read_write_test() is asked to test.
Everything == {w \in Task : w.slice < slice_num[w.row]}

\* It returns success only when every slice of every range was tested with every
\* item and nothing failed on the way: neither the zeroing of the next result by a
\* join, nor stale thread ids, nor a result array that is never cleared lets a
\* failed creation, a failed binding or a memory error get lost.
SuccessIsEarned ==
  pc = "returned" /\ ret = ERR_SUCCESS => begun = Everything /\ failures = {}

\* The threads of a round are gone before the next round starts or the test
\* returns: a thread that runs always tests a slice of the current round, although the
\* main thread overwrites thread_stru[] in place and may join a stale id.
NoStraggler ==
  /\ \A t \in Tid : tstate[t] = "started" =>
       thread_stru[arg[t]] = [item |-> item_n, row |-> j, slice |-> arg[t]]
  /\ \A t \in Tid : tstate[t] = "testing" => work[t] = [item |-> item_n, row |-> j, slice |-> arg[t]]
  /\ pc = "returned" => \A t \in Tid : tstate[t] = "free"

\* The rounds stay apart, with every result and argument in its range: what a
\* thread and the main thread read of the tables they share is never that of
\* another round (mem_controller.c:662-708).
RoundsApart == TypeOK /\ NoStraggler

\* No two threads write to the same memory at the same time, and no slice is
\* tested twice with the same item.
SliceTestedOnce ==
  [][\A t \in Tid : tstate[t] = "started" /\ tstate'[t] = "testing" => work'[t] \notin begun]_vars

\* The test ends: pthread_join() never waits for a thread that cannot end.
TestEnds == <>(pc \in {"returned", "crashed"})
-----------------------------------------------------------------------------
(* The inductive invariant behind SuccessIsEarned, RoundsApart and SliceTestedOnce. *)

\* The task of a slot in this round, and the tasks of the rounds before it.
Current(s) == [item |-> item_n, row |-> j, slice |-> s]
Earlier(w) == w.item < item_n \/ (w.item = item_n /\ w.row < j)

\* Where the main thread is in its loops.
Rounds ==
  /\ pc = "prepare" => /\ item_n = 0 /\ j = 0 /\ k = slice_num[0] - 1
                       /\ begun = {} /\ failures = {}
  /\ pc \in {"prepare", "create"} => item_n < ItemNum /\ k < slice_num[j]
  /\ pc \in {"join", "crashed"} => item_n < ItemNum /\ m <= slice_num[j]
  /\ pc = "returned" => ret # ERR_SUCCESS \/ item_n = ItemNum

\* A thread belongs to one slot of this round, which names it and is yet to join.
Owned ==
  \A t \in Tid : tstate[t] # "free" =>
    /\ pc \in {"create", "join", "crashed"}
    /\ arg[t] < slice_num[j] /\ thread[arg[t]] = t /\ thread_stru[arg[t]] = Current(arg[t])
    /\ IF pc = "create" THEN k < arg[t] ELSE m <= arg[t]
    /\ tstate[t] = "testing" => work[t] = Current(arg[t])
    /\ tstate[t] = "started" => Current(arg[t]) \notin begun

\* What was begun is of an earlier round, or of a slot that has been through
\* pthread_create() in this one.
BegunInOrder ==
  \A w \in begun :
    /\ w \in Everything
    /\ Earlier(w) \/ w = Current(w.slice)
    /\ w = Current(w.slice) /\ pc = "create" => k < w.slice

\* As long as nothing has failed, a task of an earlier round was begun, and one of
\* this round was or has a thread that will begin it.
Covered ==
  failures = {} =>
    /\ \A w \in Everything : Earlier(w) => w \in begun
    /\ pc \in {"create", "join"} =>
         \A s \in 0..(slice_num[j] - 1) : (pc = "create" => k < s) =>
           \/ Current(s) \in begun
           \/ \E t \in Tid : tstate[t] = "started" /\ arg[t] = s

\* A failure is in ret, or in a result that will be collected.
Noted ==
  /\ ERR_SUCCESS \notin failures
  /\ failures # {} /\ pc # "crashed" =>
       \/ ret # ERR_SUCCESS
       \/ (pc = "join" /\ \E s \in 0..(m - 1) : ret_val[s] # ERR_SUCCESS)
       \/ (\E t \in Tid : tstate[t] = "ended" /\ result[t] # ERR_SUCCESS)

IInv == TypeOK /\ Rounds /\ Owned /\ BegunInOrder /\ Covered /\ Noted
=============================================================================
