------------------------ MODULE ReadWriteTestProofs ------------------------
(***************************************************************************)
(* For every number of slots, rows, items and thread ids and any number of *)
(* failed pthread_create() calls: read_write_test() keeps its rounds apart,*)
(* begins no slice twice and returns success only when it has earned it.   *)
(***************************************************************************)
EXTENDS ReadWriteTest, WellFoundedInduction, TLAPS

(* The last element. *)

LEMMA LeastNat ==
  ASSUME NEW T, T \subseteq Nat, T # {}
  PROVE  \E x \in T : \A y \in T : x <= y
<1> DEFINE R == OpToRel(<, Nat)
<1>1. IsWellFoundedOn(R, Nat)
  BY NatLessThanWellFounded
<1>2. \A x, y \in Nat : <<x, y>> \in R <=> x < y
  BY DEF OpToRel
<1> HIDE DEF R
<1>3. PICK x \in T : \A y \in T : <<y, x>> \notin R
  BY <1>1, WFMin
<1>4. ASSUME NEW y \in T PROVE x <= y
  <2>1. <<y, x>> \notin R /\ x \in Nat /\ y \in Nat
    BY <1>3
  <2>2. ~(y < x)
    BY <1>2, <2>1
  <2> QED BY <2>1, <2>2
<1> QED BY <1>4

\* Of the members of a bounded set of numbers one is the greatest.
LEMMA GreatestBelow ==
  ASSUME NEW num \in Nat, NEW S, S \subseteq 0..(num - 1), S # {}
  PROVE  \E x \in S : \A y \in S : y <= x
<1> DEFINE T == {d \in Nat : \E s \in S : d = num - 1 - s}
<1>1. T \subseteq Nat /\ T # {}
  <2>1. PICK s \in S : TRUE
    OBVIOUS
  <2>2. num - 1 - s \in T
    OBVIOUS
  <2> QED BY <2>2
<1>2. PICK d \in T : \A e \in T : d <= e
  <2> HIDE DEF T
  <2> QED BY <1>1, LeastNat
<1>3. PICK x \in S : d = num - 1 - x
  OBVIOUS
<1>4. ASSUME NEW y \in S PROVE y <= x
  <2>1. num - 1 - y \in T
    OBVIOUS
  <2> QED BY <2>1, <1>2, <1>3
<1> QED BY <1>4

\* What is collected is a code, and success only when all results and the code
\* before are.
LEMMA LastErrorSound ==
  ASSUME NEW rv \in [Slot -> Code], NEW num \in 0..CORE_COUNT, NEW c \in Code
  PROVE  /\ LastError(rv, num, c) \in Code
         /\ LastError(rv, num, c) = ERR_SUCCESS =>
              c = ERR_SUCCESS /\ \A s \in 0..(num - 1) : rv[s] = ERR_SUCCESS
<1>0. num \in Nat /\ \A s \in 0..(num - 1) : s \in Slot
  BY CountAssumption DEF Slot
<1>1. CASE \A s \in 0..(num - 1) : rv[s] = ERR_SUCCESS
  BY <1>1 DEF LastError
<1>2. CASE \E s \in 0..(num - 1) : rv[s] # ERR_SUCCESS
  <2> DEFINE S == {s \in 0..(num - 1) : rv[s] # ERR_SUCCESS}
             Last(s) == rv[s] # ERR_SUCCESS /\ \A u \in (s + 1)..(num - 1) : rv[u] = ERR_SUCCESS
  <2>1. PICK x \in S : \A y \in S : y <= x
    <3>1. S \subseteq 0..(num - 1) /\ S # {}
      BY <1>2
    <3> HIDE DEF S
    <3> QED BY <1>0, <3>1, GreatestBelow
  <2>2. x \in 0..(num - 1) /\ Last(x)
    <3>1. ASSUME NEW u \in (x + 1)..(num - 1) PROVE rv[u] = ERR_SUCCESS
      BY <1>0, <2>1
    <3> QED BY <3>1
  <2> DEFINE z == CHOOSE s \in 0..(num - 1) : Last(s)
  <2>3. z \in 0..(num - 1) /\ Last(z)
    <3> HIDE DEF Last
    <3> QED BY <2>2
  <2>4. LastError(rv, num, c) = rv[z]
    BY <1>2 DEF LastError
  <2> QED BY <1>0, <2>3, <2>4
<1> QED BY <1>1, <1>2

-----------------------------------------------------------------------------
(* The steps. *)

LEMMA InitIInv == Init => IInv
<1> SUFFICES ASSUME Init PROVE IInv
  OBVIOUS
<1> USE DEF Init
<1>1. 0 \in Row /\ 0 \in Slot /\ slice_num[0] \in 1..CORE_COUNT
  BY CountAssumption DEF Row, Slot
<1>2. TypeOK
  BY <1>1, CountAssumption DEF TypeOK, Code, Slot
<1>3. Rounds
  BY <1>1, CountAssumption DEF Rounds
<1>4. Owned /\ BegunInOrder /\ Noted
  BY DEF Owned, BegunInOrder, Noted
<1>5. Covered
  BY <1>1 DEF Covered, Earlier, Everything, Task, Row
<1> QED BY <1>2, <1>3, <1>4, <1>5 DEF IInv

\* The bounds that the steps below share.
LEMMA Bounds ==
  ASSUME TypeOK
  PROVE  /\ j \in 0..(range_num - 1) /\ item_n \in Nat /\ m \in Nat /\ k \in Int
         /\ slice_num[j] \in Nat /\ slice_num[j] >= 1 /\ slice_num[j] <= CORE_COUNT
         /\ \A s \in 0..(slice_num[j] - 1) : s \in Slot
         /\ \A s \in Slot : s \in 0..(CORE_COUNT - 1)
         /\ 0 \in Row /\ slice_num[0] \in 1..CORE_COUNT
         /\ CORE_COUNT \in Nat /\ ItemNum \in Nat /\ range_num \in Nat \ {0}
BY CountAssumption DEF TypeOK, Row, Slot

\* Two live threads do not share a slot.
LEMMA OneSlot ==
  ASSUME IInv, NEW t \in Tid, NEW u \in Tid, tstate[t] # "free", tstate[u] # "free",
         arg[t] = arg[u]
  PROVE  t = u
BY DEF IInv, Owned

LEMMA PrepareIInv == IInv /\ Prepare => IInv'
<1> SUFFICES ASSUME IInv, Prepare PROVE IInv'
  OBVIOUS
<1> USE DEF IInv
<1>1. pc = "prepare" /\ UNCHANGED <<item_n, j, k, m, thread, thread_stru, ret_val, tstate, arg,
                                    work, result, creates, begun>>
  BY DEF Prepare, loop, slots, threads
<1>2. /\ item_n = 0 /\ j = 0 /\ k = slice_num[0] - 1 /\ begun = {} /\ failures = {}
      /\ item_n < ItemNum /\ k < slice_num[j] /\ \A t \in Tid : tstate[t] = "free"
  BY <1>1 DEF Rounds, Owned
<1>3. \/ pc' = "create" /\ UNCHANGED <<ret, failures>>
      \/ /\ pc' = "returned" /\ ret' # ERR_SUCCESS
         /\ ret' \in Code /\ failures' \subseteq Code /\ ERR_SUCCESS \notin failures'
  BY <1>2, ErrnoAssumption
     DEF Prepare, Code, ERR_SUCCESS, EIO, ERR_READ_RAND_PATTERN
<1>4. TypeOK'
  BY <1>1, <1>3 DEF TypeOK
<1>5. Rounds'
  BY <1>1, <1>2, <1>3 DEF Rounds
<1>6. Owned' /\ BegunInOrder'
  BY <1>1, <1>2 DEF Owned, BegunInOrder
<1>7. Covered'
  BY <1>1, <1>2, <1>3, Bounds DEF Covered, Earlier, Everything, Task, Row
<1>8. Noted'
  BY <1>2, <1>3 DEF Noted
<1> QED BY <1>4, <1>5, <1>6, <1>7, <1>8

LEMMA CreateThreadIInv == IInv /\ CreateThread => IInv'
<1> SUFFICES ASSUME IInv, CreateThread PROVE IInv'
  OBVIOUS
<1> USE DEF IInv
<1>1. /\ pc = "create" /\ pc' = "create" /\ k >= 0 /\ k' = k - 1
      /\ thread_stru' = [thread_stru EXCEPT ![k] = Current(k)]
      /\ UNCHANGED <<item_n, j, m, work, result, begun>>
  BY DEF CreateThread, Current
<1>2. item_n < ItemNum /\ k < slice_num[j] /\ k \in Slot /\ Current(k) \in Task
  BY <1>1, Bounds DEF Rounds, TypeOK, Current, Task
<1>3. \A s : Current(s)' = Current(s)
  BY <1>1 DEF Current
<1>4. \A w : Earlier(w)' <=> Earlier(w)
  BY <1>1 DEF Earlier
<1>5. Rounds'
  BY <1>1, <1>2, Bounds DEF Rounds
<1>6. BegunInOrder'
  <2> SUFFICES ASSUME NEW w \in begun PROVE w = Current(w.slice) => k - 1 < w.slice
    BY <1>1, <1>3, <1>4 DEF BegunInOrder
  <2>1. w.slice \in Slot /\ (w = Current(w.slice) => k < w.slice)
    BY <1>1 DEF BegunInOrder, Everything, Task
  <2> QED BY <2>1, <1>2, Bounds
<1>7. \A u \in Tid : tstate[u] # "free" => arg[u] # k /\ arg[u] \in Slot /\ k < arg[u]
  BY <1>1, <1>2, Bounds DEF Owned, TypeOK
<1>8. CASE \E t \in Tid :
             /\ tstate[t] = "free"
             /\ thread' = [thread EXCEPT ![k] = t]
             /\ tstate' = [tstate EXCEPT ![t] = "started"]
             /\ arg' = [arg EXCEPT ![t] = k]
             /\ UNCHANGED <<ret_val, ret, creates, failures>>
  <2>1. PICK t \in Tid :
             /\ tstate[t] = "free"
             /\ thread' = [thread EXCEPT ![k] = t]
             /\ tstate' = [tstate EXCEPT ![t] = "started"]
             /\ arg' = [arg EXCEPT ![t] = k]
             /\ UNCHANGED <<ret_val, ret, creates, failures>>
    BY <1>8
  <2>2. TypeOK'
    BY <1>1, <1>2, <2>1, Bounds DEF TypeOK
  <2>3. Owned'
    <3> SUFFICES ASSUME NEW u \in Tid, tstate'[u] # "free"
                 PROVE  /\ arg'[u] < slice_num[j] /\ thread'[arg'[u]] = u
                        /\ thread_stru'[arg'[u]] = Current(arg'[u]) /\ k' < arg'[u]
                        /\ tstate'[u] = "testing" => work[u] = Current(arg'[u])
                        /\ tstate'[u] = "started" => Current(arg'[u]) \notin begun
      BY <1>1, <1>3 DEF Owned
    <3>1. CASE u = t
      <4>1. tstate'[u] = "started" /\ arg'[u] = k /\ thread'[k] = t /\ thread_stru'[k] = Current(k)
        BY <1>2, <2>1, <1>1, <3>1 DEF TypeOK
      <4>2. Current(k) \notin begun
        BY <1>1, <1>2, Bounds DEF BegunInOrder, Current
      <4> QED BY <1>1, <1>2, <3>1, <4>1, <4>2, Bounds
    <3>2. CASE u # t
      <4>1. tstate'[u] = tstate[u] /\ arg'[u] = arg[u]
        BY <2>1, <3>2 DEF TypeOK
      <4>2. arg[u] # k /\ arg[u] \in Slot /\ k < arg[u] /\ k' < arg[u]
        BY <1>1, <1>2, <1>7, <4>1, Bounds
      <4>3. thread'[arg[u]] = thread[arg[u]] /\ thread_stru'[arg[u]] = thread_stru[arg[u]]
        BY <1>1, <2>1, <4>2 DEF TypeOK
      <4> QED BY <1>1, <4>1, <4>2, <4>3 DEF Owned
    <3> QED BY <3>1, <3>2
  <2>4. Covered'
    <3> SUFFICES ASSUME failures = {}
                 PROVE  /\ \A w \in Everything : Earlier(w) => w \in begun
                        /\ \A s \in 0..(slice_num[j] - 1) : k' < s =>
                             \/ Current(s) \in begun
                             \/ \E u \in Tid : tstate'[u] = "started" /\ arg'[u] = s
      BY <1>1, <1>3, <1>4, <2>1 DEF Covered
    <3>1. \A w \in Everything : Earlier(w) => w \in begun
      BY DEF Covered
    <3>2. ASSUME NEW s \in 0..(slice_num[j] - 1), k' < s
          PROVE  \/ Current(s) \in begun
                 \/ \E u \in Tid : tstate'[u] = "started" /\ arg'[u] = s
      <4>1. CASE s = k
        BY <2>1, <4>1 DEF TypeOK
      <4>2. CASE s # k
        <5>1. k < s
          BY <1>1, <1>2, <3>2, <4>2, Bounds
        <5>2. CASE Current(s) \in begun
          BY <5>2
        <5>3. CASE \E u \in Tid : tstate[u] = "started" /\ arg[u] = s
          BY <2>1, <5>3 DEF TypeOK
        <5> QED BY <1>1, <5>1, <5>2, <5>3 DEF Covered
      <4> QED BY <4>1, <4>2
    <3> QED BY <3>1, <3>2
  <2>5. Noted'
    <3>1. \A u \in Tid : tstate[u] = "ended" => tstate'[u] = "ended"
      BY <2>1 DEF TypeOK
    <3> QED BY <1>1, <2>1, <3>1 DEF Noted
  <2> QED BY <1>5, <1>6, <2>2, <2>3, <2>4, <2>5
<1>9. CASE /\ creates < MaxCreateFailures
           /\ creates' = creates + 1
           /\ \/ UNCHANGED thread
              \/ \E t \in Tid : tstate[t] = "free" /\ thread' = [thread EXCEPT ![k] = t]
           /\ ret' = ERR_CREATE_THREAD
           /\ ret_val' = [ret_val EXCEPT ![k] = ERR_CREATE_THREAD]
           /\ failures' = failures \cup {ERR_CREATE_THREAD}
           /\ UNCHANGED <<tstate, arg>>
  <2>1. ERR_CREATE_THREAD \in Code /\ ERR_CREATE_THREAD # ERR_SUCCESS
    BY DEF Code, ERR_CREATE_THREAD, ERR_SUCCESS
  <2>2. thread' \in [Slot -> Tid \cup {0}] /\ \A s \in Slot \ {k} : thread'[s] = thread[s]
    BY <1>2, <1>9 DEF TypeOK
  <2>3. TypeOK'
    <3>1. creates' \in 0..MaxCreateFailures
      BY <1>9, CountAssumption DEF TypeOK
    <3>2. ret_val' \in [Slot -> Code] /\ ret' \in Code /\ failures' \subseteq Code
      BY <1>9, <2>1 DEF TypeOK
    <3>3. k' \in -1..(CORE_COUNT - 1) /\ thread_stru' \in [Slot -> Task \cup {Nothing}]
      BY <1>1, <1>2, Bounds DEF TypeOK
    <3>4. UNCHANGED <<tstate, arg>>
      BY <1>9
    <3> QED BY <1>1, <2>2, <3>1, <3>2, <3>3, <3>4 DEF TypeOK
  <2>4. Owned'
    <3> SUFFICES ASSUME NEW u \in Tid, tstate[u] # "free"
                 PROVE  /\ arg[u] < slice_num[j] /\ thread'[arg[u]] = u
                        /\ thread_stru'[arg[u]] = Current(arg[u]) /\ k' < arg[u]
                        /\ tstate[u] = "testing" => work[u] = Current(arg[u])
                        /\ tstate[u] = "started" => Current(arg[u]) \notin begun
      BY <1>1, <1>3, <1>9 DEF Owned
    <3>1. arg[u] # k /\ arg[u] \in Slot /\ k' < arg[u]
      BY <1>1, <1>2, <1>7, Bounds
    <3>2. thread'[arg[u]] = thread[arg[u]] /\ thread_stru'[arg[u]] = thread_stru[arg[u]]
      BY <1>1, <2>2, <3>1 DEF TypeOK
    <3> QED BY <1>1, <3>1, <3>2 DEF Owned
  <2>5. Covered' /\ Noted'
    BY <1>9, <2>1 DEF Covered, Noted
  <2> QED BY <1>5, <1>6, <2>3, <2>4, <2>5
<1> QED BY <1>8, <1>9 DEF CreateThread

LEMMA AllCreatedIInv == IInv /\ AllCreated => IInv'
<1> SUFFICES ASSUME IInv, AllCreated PROVE IInv'
  OBVIOUS
<1> USE DEF IInv
<1>1. /\ pc = "create" /\ pc' = "join" /\ k < 0 /\ m' = 0
      /\ UNCHANGED <<item_n, j, k, thread, thread_stru, ret_val, ret, tstate, arg, work, result,
                     creates, begun, failures>>
  BY DEF AllCreated, slots, threads, history
<1>2. (\A s : Current(s)' = Current(s)) /\ (\A w : Earlier(w)' <=> Earlier(w))
  BY <1>1 DEF Current, Earlier
<1>3. TypeOK' /\ Rounds'
  BY <1>1, Bounds DEF TypeOK, Rounds
<1>4. Owned'
  <2> SUFFICES ASSUME NEW u \in Tid, tstate[u] # "free"
               PROVE  /\ arg[u] < slice_num[j] /\ thread[arg[u]] = u
                      /\ thread_stru[arg[u]] = Current(arg[u]) /\ 0 <= arg[u]
                      /\ tstate[u] = "testing" => work[u] = Current(arg[u])
                      /\ tstate[u] = "started" => Current(arg[u]) \notin begun
    BY <1>1, <1>2 DEF Owned
  <2>1. arg[u] \in Slot
    BY DEF TypeOK
  <2> QED BY <1>1, <2>1, Bounds DEF Owned
<1>5. BegunInOrder'
  BY <1>1, <1>2 DEF BegunInOrder
<1>6. Covered'
  <2> SUFFICES ASSUME failures = {}
               PROVE  /\ \A w \in Everything : Earlier(w) => w \in begun
                      /\ \A s \in 0..(slice_num[j] - 1) :
                           \/ Current(s) \in begun
                           \/ \E u \in Tid : tstate[u] = "started" /\ arg[u] = s
    BY <1>1, <1>2 DEF Covered
  <2>1. \A s \in 0..(slice_num[j] - 1) : k < s
    BY <1>1, Bounds
  <2> QED BY <1>1, <2>1 DEF Covered
<1>7. Noted'
  BY <1>1 DEF Noted
<1> QED BY <1>3, <1>4, <1>5, <1>6, <1>7

\* A join goes past slot m: what was stored below it stays, and no thread of
\* another slot is touched.
LEMMA JoinThreadIInv == IInv /\ JoinThread => IInv'
<1> SUFFICES ASSUME IInv, JoinThread PROVE IInv'
  OBVIOUS
<1> USE DEF IInv
<1>1. /\ pc = "join" /\ m < slice_num[j] /\ item_n < ItemNum
      /\ UNCHANGED <<item_n, j, k, thread, thread_stru, ret, creates, begun, failures>>
  BY DEF JoinThread, history, Rounds
<1>2. (\A s : Current(s)' = Current(s)) /\ (\A w : Earlier(w)' <=> Earlier(w))
  BY <1>1 DEF Current, Earlier
<1>3. m \in Slot /\ m + 1 \in 0..CORE_COUNT /\ m + 1 <= slice_num[j] /\ m < m + 1
  BY <1>1, Bounds DEF TypeOK
<1>4. ERR_SUCCESS \in Code
  BY DEF Code
<1>5. ASSUME NEW r \in Code
      PROVE  /\ Stored(ret_val, m, r) \in [Slot -> Code]
             /\ Stored(ret_val, m, r)[m] = r
             /\ \A s \in 0..(m - 1) : Stored(ret_val, m, r)[s] = ret_val[s]
  <2>1. ret_val \in [Slot -> Code] /\ \A s \in 0..(m - 1) : s \in Slot /\ s # m /\ s # m + 1
    BY <1>3, Bounds DEF TypeOK, Slot
  <2> QED BY <1>3, <1>4, <1>5, <2>1 DEF Stored
<1>6. \A u \in Tid : tstate[u] # "free" /\ arg[u] = m => thread[m] = u
  BY <1>1 DEF Owned
<1>7. ASSUME pc' = "join", m' = m + 1,
             \A u \in Tid : tstate'[u] # "free" =>
               /\ tstate'[u] = tstate[u] /\ arg'[u] = arg[u] /\ work'[u] = work[u]
               /\ arg[u] # m,
             \A u \in Tid : tstate[u] = "started" => tstate'[u] = "started" /\ arg'[u] = arg[u],
             \A u \in Tid : tstate[u] = "ended" /\ result[u] # ERR_SUCCESS =>
               \/ tstate'[u] = "ended" /\ result'[u] = result[u]
               \/ ret_val'[m] # ERR_SUCCESS,
             \A s \in 0..(m - 1) : ret_val'[s] = ret_val[s],
             TypeOK'
      PROVE  IInv'
  <2>1. Rounds'
    BY <1>1, <1>3, <1>7 DEF Rounds
  <2>2. Owned'
    <3> SUFFICES ASSUME NEW u \in Tid, tstate'[u] # "free"
                 PROVE  /\ arg'[u] < slice_num[j] /\ thread[arg'[u]] = u
                        /\ thread_stru'[arg'[u]] = Current(arg'[u]) /\ m' <= arg'[u]
                        /\ tstate'[u] = "testing" => work'[u] = Current(arg'[u])
                        /\ tstate'[u] = "started" => Current(arg'[u]) \notin begun
      BY <1>1, <1>2, <1>7 DEF Owned
    <3>1. tstate[u] # "free" /\ arg'[u] = arg[u] /\ arg[u] # m /\ work'[u] = work[u]
      BY <1>7
    <3>2. m <= arg[u] /\ arg[u] \in Slot
      BY <1>1, <3>1 DEF Owned, TypeOK
    <3>3. m' <= arg[u]
      BY <1>7, <3>1, <3>2, Bounds
    <3> QED BY <1>1, <1>7, <3>1, <3>3 DEF Owned
  <2>3. BegunInOrder'
    BY <1>1, <1>2, <1>7 DEF BegunInOrder
  <2>4. Covered'
    BY <1>1, <1>2, <1>7 DEF Covered
  <2>5. Noted'
    <3> SUFFICES ASSUME failures # {}, ret = ERR_SUCCESS
                 PROVE  \/ \E s \in 0..m : ret_val'[s] # ERR_SUCCESS
                        \/ \E u \in Tid : tstate'[u] = "ended" /\ result'[u] # ERR_SUCCESS
      BY <1>1, <1>7, Bounds DEF Noted
    <3>1. CASE \E s \in 0..(m - 1) : ret_val[s] # ERR_SUCCESS
      BY <1>7, <3>1, Bounds
    <3>2. CASE \E u \in Tid : tstate[u] = "ended" /\ result[u] # ERR_SUCCESS
      BY <1>7, <3>2, Bounds
    <3> QED BY <1>1, <3>1, <3>2 DEF Noted
  <2> QED BY <1>7, <2>1, <2>2, <2>3, <2>4, <2>5
<1>8. CASE thread[m] = 0 /\ m' = m + 1 /\ UNCHANGED <<pc, ret_val, threads>>
  <2>1. \A u \in Tid : tstate[u] # "free" => arg[u] # m
    BY <1>6, <1>8, NameAssumption
  <2>2. TypeOK'
    BY <1>1, <1>3, <1>8 DEF TypeOK, threads
  <2> QED BY <1>1, <1>7, <1>8, <2>1, <2>2 DEF threads
<1>9. CASE /\ thread[m] # 0 /\ tstate[thread[m]] = "ended"
           /\ ret_val' = Stored(ret_val, m, result[thread[m]])
           /\ Free(thread[m])
           /\ m' = m + 1
           /\ UNCHANGED pc
  <2> DEFINE t == thread[m]
  <2>1. t \in Tid /\ result[t] \in Code /\ tstate[t] = "ended"
    BY <1>3, <1>9 DEF TypeOK
  <2> HIDE DEF t
  <2>2. /\ tstate' = [tstate EXCEPT ![t] = "free"] /\ arg' = [arg EXCEPT ![t] = 0]
        /\ work' = [work EXCEPT ![t] = Nothing] /\ result' = [result EXCEPT ![t] = ERR_SUCCESS]
        /\ ret_val' = Stored(ret_val, m, result[t])
    BY <1>9 DEF Free, t
  <2>3. \A u \in Tid \ {t} : /\ tstate'[u] = tstate[u] /\ arg'[u] = arg[u]
                             /\ work'[u] = work[u] /\ result'[u] = result[u]
    BY <2>2 DEF TypeOK
  <2>4. tstate'[t] = "free"
    BY <2>1, <2>2 DEF TypeOK
  <2>5. 0 \in Slot
    BY Bounds DEF Slot
  <2>6. TypeOK'
    BY <1>1, <1>3, <1>4, <1>5, <1>9, <2>1, <2>2, <2>5 DEF TypeOK
  <2>7. \A u \in Tid : tstate'[u] # "free" => u # t /\ tstate[u] # "free" /\ arg[u] # m
    BY <1>6, <2>3, <2>4 DEF t
  <2>8. ret_val'[m] = result[t] /\ \A s \in 0..(m - 1) : ret_val'[s] = ret_val[s]
    BY <1>5, <2>1, <2>2
  <2> QED BY <1>1, <1>7, <1>9, <2>1, <2>3, <2>4, <2>6, <2>7, <2>8
<1>10. CASE thread[m] # 0 /\ JoinMissing(thread[m])
  <2>1. /\ tstate[thread[m]] = "free" /\ UNCHANGED <<tstate, arg, work, result>>
        /\ \/ m' = m + 1 /\ UNCHANGED <<pc, ret_val>>
           \/ m' = m + 1 /\ ret_val' = Stored(ret_val, m, ERR_SUCCESS) /\ UNCHANGED pc
           \/ pc' = "crashed" /\ UNCHANGED <<m, ret_val>>
    BY <1>10 DEF JoinMissing, threads
  <2>2. \A u \in Tid : tstate[u] # "free" => arg[u] # m
    BY <1>6, <2>1
  <2>3. CASE pc' = "crashed" /\ UNCHANGED <<m, ret_val>>
    <3>1. TypeOK' /\ Rounds'
      BY <1>1, <2>1, <2>3 DEF TypeOK, Rounds
    <3>2. Owned'
      BY <1>1, <1>2, <2>1, <2>3 DEF Owned
    <3>3. BegunInOrder' /\ Covered' /\ Noted'
      BY <1>1, <1>2, <2>1, <2>3 DEF BegunInOrder, Covered, Noted
    <3> QED BY <3>1, <3>2, <3>3
  <2>4. CASE m' = m + 1 /\ UNCHANGED <<pc, ret_val>>
    <3>1. TypeOK'
      BY <1>1, <1>3, <2>1, <2>4 DEF TypeOK
    <3> QED BY <1>1, <1>7, <2>1, <2>2, <2>4, <3>1
  <2>5. CASE m' = m + 1 /\ ret_val' = Stored(ret_val, m, ERR_SUCCESS) /\ UNCHANGED pc
    <3>1. ret_val' \in [Slot -> Code] /\ \A s \in 0..(m - 1) : ret_val'[s] = ret_val[s]
      BY <1>4, <1>5, <2>5
    <3>2. TypeOK'
      BY <1>1, <1>3, <2>1, <2>5, <3>1 DEF TypeOK
    <3> QED BY <1>1, <1>7, <2>1, <2>2, <2>5, <3>1, <3>2
  <2> QED BY <2>1, <2>3, <2>4, <2>5
<1> QED BY <1>8, <1>9, <1>10 DEF JoinThread

LEMMA CollectIInv == IInv /\ Collect => IInv'
<1> SUFFICES ASSUME IInv, Collect PROVE IInv'
  OBVIOUS
<1> USE DEF IInv
<1>1. /\ pc = "join" /\ m = slice_num[j] /\ item_n < ItemNum
      /\ ret' = LastError(ret_val, slice_num[j], ret)
      /\ UNCHANGED <<m, thread, thread_stru, ret_val, tstate, arg, work, result, creates, begun,
                     failures>>
  BY DEF Collect, slots, threads, history, Rounds
<1>2. \/ /\ j + 1 \in Row /\ item_n' = item_n /\ j' = j + 1 /\ k' = slice_num[j'] - 1
         /\ pc' = "create"
      \/ /\ j = range_num - 1 /\ item_n' = item_n + 1 /\ j' = 0 /\ k' = slice_num[j'] - 1
         /\ IF item_n' < ItemNum THEN pc' = "create" ELSE pc' = "returned" /\ item_n' = ItemNum
  BY <1>1, Bounds DEF Collect, Row
<1>3. j' \in Row /\ slice_num[j'] \in 1..CORE_COUNT /\ item_n' \in 0..ItemNum
  BY <1>1, <1>2, Bounds, CountAssumption DEF TypeOK
<1>4. /\ ret' \in Code
      /\ ret' = ERR_SUCCESS => ret = ERR_SUCCESS /\ \A s \in 0..(m - 1) : ret_val[s] = ERR_SUCCESS
  BY <1>1, Bounds, LastErrorSound DEF TypeOK
<1>5. \A t \in Tid : tstate[t] = "free"
  <2> SUFFICES ASSUME NEW t \in Tid, tstate[t] # "free" PROVE FALSE
    OBVIOUS
  <2>1. m <= arg[t] /\ arg[t] < slice_num[j] /\ arg[t] \in Slot
    BY <1>1 DEF Owned, TypeOK
  <2> QED BY <1>1, <2>1, Bounds
<1>6. \A w \in Everything :
        /\ w = Current(w.slice) \/ Earlier(w) => Earlier(w)' /\ w # Current(w.slice)'
        /\ Earlier(w)' => Earlier(w) \/ (w = Current(w.slice) /\ w.slice \in 0..(slice_num[j] - 1))
  <2> SUFFICES ASSUME NEW w \in Everything
               PROVE  /\ w = Current(w.slice) \/ Earlier(w) => Earlier(w)' /\ w # Current(w.slice)'
                      /\ Earlier(w)' =>
                           Earlier(w) \/ (w = Current(w.slice) /\ w.slice \in 0..(slice_num[j] - 1))
    OBVIOUS
  <2>1. /\ w.item \in Nat /\ w.row \in 0..(range_num - 1) /\ w.slice \in Nat
        /\ w.slice < slice_num[w.row]
        /\ w = [item |-> w.item, row |-> w.row, slice |-> w.slice]
    BY Bounds DEF Everything, Task, Row, Slot
  <2>2. w = Current(w.slice) <=> w.item = item_n /\ w.row = j
    BY <2>1 DEF Current
  <2>3. w = Current(w.slice)' <=> w.item = item_n' /\ w.row = j'
    BY <2>1 DEF Current
  <2>4. /\ Earlier(w) <=> w.item < item_n \/ (w.item = item_n /\ w.row < j)
        /\ Earlier(w)' <=> w.item < item_n' \/ (w.item = item_n' /\ w.row < j')
    BY DEF Earlier
  <2> QED BY <1>2, <2>1, <2>2, <2>3, <2>4, Bounds
<1>7. TypeOK'
  BY <1>1, <1>2, <1>3, <1>4, Bounds DEF TypeOK
<1>8. Rounds'
  BY <1>1, <1>2, <1>3 DEF Rounds
<1>9. Owned'
  BY <1>1, <1>5 DEF Owned
<1>10. BegunInOrder'
  BY <1>1, <1>6 DEF BegunInOrder
<1>11. Covered'
  <2> SUFFICES ASSUME failures = {}
               PROVE  /\ \A w \in Everything : Earlier(w)' => w \in begun
                      /\ pc' = "create" =>
                           \A s \in 0..(slice_num[j'] - 1) : ~(k' < s)
    BY <1>1, <1>2 DEF Covered
  <2>1. ASSUME NEW w \in Everything, Earlier(w)' PROVE w \in begun
    <3>1. CASE Earlier(w)
      BY <3>1 DEF Covered
    <3>2. CASE w = Current(w.slice) /\ w.slice \in 0..(slice_num[j] - 1)
      BY <1>1, <1>5, <3>2 DEF Covered
    <3> QED BY <1>6, <2>1, <3>1, <3>2
  <2>2. \A s \in 0..(slice_num[j'] - 1) : ~(k' < s)
    BY <1>2, <1>3
  <2> QED BY <2>1, <2>2
<1>12. Noted'
  BY <1>1, <1>4, <1>5 DEF Noted
<1> QED BY <1>7, <1>8, <1>9, <1>10, <1>11, <1>12

LEMMA BindFailsIInv ==
  ASSUME NEW t \in Tid, IInv, BindFails(t)
  PROVE  IInv'
<1> USE DEF IInv
<1>1. /\ pc # "crashed" /\ tstate[t] = "started"
      /\ tstate' = [tstate EXCEPT ![t] = "ended"]
      /\ result' = [result EXCEPT ![t] = ERR_BIND_CPU]
      /\ failures' = failures \cup {ERR_BIND_CPU}
      /\ UNCHANGED <<pc, item_n, j, k, m, thread, thread_stru, ret_val, ret, arg, work, creates, begun>>
  BY DEF BindFails, loop, slots
<1>2. (\A s : Current(s)' = Current(s)) /\ (\A w : Earlier(w)' <=> Earlier(w))
  BY <1>1 DEF Current, Earlier
<1>3. ERR_BIND_CPU \in Code /\ ERR_BIND_CPU # ERR_SUCCESS
  BY DEF Code, ERR_BIND_CPU, ERR_SUCCESS
<1>4. TypeOK'
  BY <1>1, <1>3 DEF TypeOK
<1>5. pc # "prepare"
  BY <1>1 DEF Owned
<1>6. Rounds' /\ BegunInOrder' /\ Covered'
  BY <1>1, <1>2, <1>5 DEF Rounds, BegunInOrder, Covered
<1>7. Owned'
  BY <1>1, <1>2 DEF Owned, TypeOK
<1>8. Noted'
  BY <1>1, <1>3 DEF Noted, TypeOK
<1> QED BY <1>4, <1>6, <1>7, <1>8

LEMMA BeginTestIInv ==
  ASSUME NEW t \in Tid, IInv, BeginTest(t)
  PROVE  IInv' /\ work'[t] \notin begun
<1> USE DEF IInv
<1>1. /\ pc # "crashed" /\ tstate[t] = "started"
      /\ tstate' = [tstate EXCEPT ![t] = "testing"]
      /\ work' = [work EXCEPT ![t] = thread_stru[arg[t]]]
      /\ begun' = begun \cup {thread_stru[arg[t]]}
      /\ UNCHANGED <<pc, item_n, j, k, m, thread, thread_stru, ret_val, ret, arg, result, creates, failures>>
  BY DEF BeginTest, loop, slots
<1>2. (\A s : Current(s)' = Current(s)) /\ (\A w : Earlier(w)' <=> Earlier(w))
  BY <1>1 DEF Current, Earlier
<1> DEFINE c == Current(arg[t])
<1>3. /\ thread_stru[arg[t]] = c /\ c \notin begun /\ pc \in {"create", "join"}
      /\ arg[t] \in Slot /\ arg[t] < slice_num[j] /\ (pc = "create" => k < arg[t])
  BY <1>1 DEF Owned, TypeOK
<1>4. /\ c.slice = arg[t] /\ c = Current(c.slice) /\ c \in Task /\ c \in Everything
      /\ c.row = j
  BY <1>3, Bounds DEF Current, Task, Everything, Rounds, TypeOK
<1>5. /\ work' = [work EXCEPT ![t] = c] /\ begun' = begun \cup {c}
  BY <1>1, <1>3
<1> HIDE DEF c
<1>6. TypeOK'
  BY <1>1, <1>4, <1>5 DEF TypeOK
<1>7. Rounds'
  BY <1>1, <1>3 DEF Rounds
<1>8. Owned'
  <2> SUFFICES ASSUME NEW u \in Tid, tstate'[u] # "free"
               PROVE  /\ arg[u] < slice_num[j] /\ thread[arg[u]] = u
                      /\ thread_stru[arg[u]] = Current(arg[u])
                      /\ IF pc = "create" THEN k < arg[u] ELSE m <= arg[u]
                      /\ tstate'[u] = "testing" => work'[u] = Current(arg[u])
                      /\ tstate'[u] = "started" => Current(arg[u]) \notin begun'
    BY <1>1, <1>2, <1>3 DEF Owned
  <2>1. CASE u = t
    BY <1>1, <1>5, <2>1 DEF Owned, TypeOK, c
  <2>2. CASE u # t
    <3>1. tstate'[u] = tstate[u] /\ work'[u] = work[u]
      BY <1>1, <1>5, <2>2 DEF TypeOK
    <3>2. Current(arg[u]) # c
      BY <1>1, <2>2, <3>1, <1>4, OneSlot DEF Current
    <3> QED BY <1>5, <3>1, <3>2 DEF Owned
  <2> QED BY <2>1, <2>2
<1>9. BegunInOrder'
  BY <1>1, <1>2, <1>3, <1>4, <1>5 DEF BegunInOrder
<1>10. Covered'
  <2> SUFFICES ASSUME failures = {}
               PROVE  /\ \A w \in Everything : Earlier(w) => w \in begun'
                      /\ \A s \in 0..(slice_num[j] - 1) : (pc = "create" => k < s) =>
                           \/ Current(s) \in begun'
                           \/ \E u \in Tid : tstate'[u] = "started" /\ arg[u] = s
    BY <1>1, <1>2 DEF Covered
  <2>1. \A u \in Tid : tstate[u] = "started" => tstate'[u] = "started" \/ u = t
    BY <1>1 DEF TypeOK
  <2>2. \A w \in Everything : Earlier(w) => w \in begun'
    BY <1>5 DEF Covered
  <2>3. ASSUME NEW s \in 0..(slice_num[j] - 1), pc = "create" => k < s
        PROVE  \/ Current(s) \in begun'
               \/ \E u \in Tid : tstate'[u] = "started" /\ arg[u] = s
    BY <1>3, <1>5, <2>1, <2>3 DEF Covered, c
  <2> QED BY <2>2, <2>3
<1>11. Noted'
  BY <1>1 DEF Noted, TypeOK
<1>12. work'[t] = c
  BY <1>5 DEF TypeOK
<1> QED BY <1>3, <1>6, <1>7, <1>8, <1>9, <1>10, <1>11, <1>12

LEMMA EndTestIInv ==
  ASSUME NEW t \in Tid, IInv, EndTest(t)
  PROVE  IInv'
<1> USE DEF IInv
<1>1. /\ pc # "crashed" /\ tstate[t] = "testing"
      /\ tstate' = [tstate EXCEPT ![t] = "ended"]
      /\ UNCHANGED <<pc, item_n, j, k, m, thread, thread_stru, ret_val, ret, arg, work, creates, begun>>
  BY DEF EndTest, loop, slots
<1>2. PICK r \in {ERR_SUCCESS} \cup AlgorithmErrors :
        /\ result' = [result EXCEPT ![t] = r]
        /\ failures' = (failures \cup {r}) \ {ERR_SUCCESS}
  BY DEF EndTest
<1>3. (\A s : Current(s)' = Current(s)) /\ (\A w : Earlier(w)' <=> Earlier(w))
  BY <1>1 DEF Current, Earlier
<1>4. r \in Code
  BY DEF Code
<1>5. TypeOK'
  BY <1>1, <1>2, <1>4 DEF TypeOK
<1>6. pc # "prepare" /\ \A u \in Tid : tstate'[u] = "started" <=> tstate[u] = "started"
  BY <1>1 DEF Owned, TypeOK
<1>7. failures' = {} => failures = {}
  BY <1>2 DEF Noted
<1>8. Rounds' /\ BegunInOrder'
  BY <1>1, <1>3, <1>6 DEF Rounds, BegunInOrder
<1>9. Covered'
  BY <1>1, <1>3, <1>6, <1>7 DEF Covered
<1>10. Owned'
  BY <1>1, <1>3 DEF Owned, TypeOK
<1>11. Noted'
  <2>1. CASE r = ERR_SUCCESS
    <3>1. failures' = failures
      BY <1>2, <2>1 DEF Noted
    <3>2. \A u \in Tid : tstate[u] = "ended" => tstate'[u] = "ended" /\ result'[u] = result[u]
      BY <1>1, <1>2 DEF TypeOK
    <3> QED BY <1>1, <3>1, <3>2 DEF Noted
  <2>2. CASE r # ERR_SUCCESS
    <3>1. tstate'[t] = "ended" /\ result'[t] = r
      BY <1>1, <1>2 DEF TypeOK
    <3> QED BY <1>2, <2>2, <3>1 DEF Noted
  <2> QED BY <2>1, <2>2
<1> QED BY <1>5, <1>8, <1>9, <1>10, <1>11

LEMMA StutterIInv ==
  ASSUME IInv, UNCHANGED vars
  PROVE  IInv'
<1>1. UNCHANGED <<pc, item_n, j, k, m, thread, thread_stru, ret_val, ret, tstate, arg, work, result,
                  creates, begun, failures>>
  BY DEF vars, loop, slots, threads, history
<1>2. (\A s : Current(s)' = Current(s)) /\ (\A w : Earlier(w)' <=> Earlier(w))
  BY <1>1 DEF Current, Earlier
<1>3. TypeOK' /\ Rounds' /\ Noted'
  BY <1>1 DEF IInv, TypeOK, Rounds, Noted
<1>4. Owned' /\ BegunInOrder' /\ Covered'
  BY <1>1, <1>2 DEF IInv, Owned, BegunInOrder, Covered
<1> QED BY <1>3, <1>4 DEF IInv

\* IInv is inductive.
LEMMA NextIInv ==
  ASSUME IInv, [Next]_vars
  PROVE  IInv'
<1>1. CASE MainThread
  BY <1>1, PrepareIInv, CreateThreadIInv, AllCreatedIInv, JoinThreadIInv, CollectIInv DEF MainThread
<1>2. ASSUME NEW t \in Tid, Thread(t) PROVE IInv'
  BY <1>2, BindFailsIInv, BeginTestIInv, EndTestIInv DEF Thread
<1>3. CASE Finished \/ UNCHANGED vars
  BY <1>3, StutterIInv DEF Finished
<1> QED BY <1>1, <1>2, <1>3 DEF Next

LEMMA Invariance == Spec => []IInv
<1> QED BY InitIInv, NextIInv, PTL DEF Spec

-----------------------------------------------------------------------------
(* The properties. *)

\* read_write_test() returns success only when every slice of every range was
\* tested with every item and nothing failed (mem_controller.c:630-719).
THEOREM SuccessIsEarnedSound == Spec => []SuccessIsEarned
<1>1. IInv => SuccessIsEarned
  <2> SUFFICES ASSUME IInv, pc = "returned", ret = ERR_SUCCESS
               PROVE  begun = Everything /\ failures = {}
    BY DEF SuccessIsEarned
  <2>1. item_n = ItemNum /\ \A t \in Tid : tstate[t] = "free"
    BY DEF IInv, Rounds, Owned
  <2>2. failures = {}
    BY <2>1 DEF IInv, Noted
  <2>3. \A w \in Everything : Earlier(w)
    BY <2>1, CountAssumption DEF Everything, Task, Earlier
  <2> QED BY <2>2, <2>3 DEF IInv, Covered, BegunInOrder
<1> QED BY <1>1, Invariance, PTL

\* A running thread reads and tests a slice of the current round, and what the
\* threads and the main thread leave for each other is in range
\* (mem_controller.c:662-708).
THEOREM RoundsApartSound == Spec => []RoundsApart
<1>1. IInv => RoundsApart
  BY DEF IInv, RoundsApart, NoStraggler, Owned, Current
<1> QED BY <1>1, Invariance, PTL

\* No thread begins a slice that was begun before with the same item
\* (mem_controller.c:662-678, 751-798).
THEOREM SliceTestedOnceSound == Spec => SliceTestedOnce
<1> DEFINE Once == \A t \in Tid :
                     tstate[t] = "started" /\ tstate'[t] = "testing" => work'[t] \notin begun
<1>1. ASSUME IInv, [Next]_vars PROVE [Once]_vars
  <2> SUFFICES ASSUME Next, NEW t \in Tid, tstate[t] = "started", tstate'[t] = "testing"
               PROVE  work'[t] \notin begun
    BY <1>1
  <2> USE <1>1 DEF IInv
  <2>1. CASE MainThread
    BY <2>1 DEF MainThread, Prepare, CreateThread, AllCreated, JoinThread, JoinMissing, Free, Collect,
                threads, TypeOK
  <2>2. ASSUME NEW u \in Tid, Thread(u) PROVE work'[t] \notin begun
    <3>1. CASE u = t
      <4>1. ~BindFails(t) /\ ~EndTest(t)
        BY DEF BindFails, EndTest, TypeOK
      <4> QED BY <2>2, <3>1, <4>1, BeginTestIInv DEF Thread
    <3>2. CASE u # t
      BY <2>2, <3>2 DEF Thread, BindFails, BeginTest, EndTest, TypeOK
    <3> QED BY <3>1, <3>2
  <2>3. CASE Finished
    BY <2>3 DEF Finished, vars, threads
  <2> QED BY <2>1, <2>2, <2>3 DEF Next
<1> QED BY <1>1, Invariance, PTL DEF Spec, SliceTestedOnce
=============================================================================
