------------------------------ MODULE McelogProofs --------------------------
(***************************************************************************)
(* The daemon and its accounts, for every number of clients, commands,     *)
(* triggers and slots, and of records, pages and DIMMs.                    *)
(*                                                                         *)
(* McelogDaemon: signals at any moment do not break the account of the     *)
(* children, the table of descriptors is never mixed up, and answers come  *)
(* whole.                                                                  *)
(*                                                                         *)
(* MceAccounting: a burst of errors makes its bucket full, the hash table  *)
(* has each DIMM once, the pages come out of their tree in order, and      *)
(* each is offered to the kernel once.                                     *)
(*                                                                         *)
(* DecodeFatal: the records decoded are those of the log, in its order,    *)
(* each with the fields of its own lines.                                  *)
(***************************************************************************)
EXTENDS McelogDaemon, MceAccounting, DecodeFatal, SequenceTheorems, FiniteSetTheorems, FunctionTheorems,
        WellFoundedInduction, TLAPS

-----------------------------------------------------------------------------
(* Sequences *)

\* What is left of a sequence when one element is taken out.
LEMMA Removed ==
  ASSUME NEW S, NEW s \in Seq(S), NEW i \in 1 .. Len(s)
  PROVE  /\ RemoveAt(s, i) \in Seq(S) /\ Len(RemoveAt(s, i)) = Len(s) - 1
         /\ \A j \in 1 .. (Len(s) - 1) : RemoveAt(s, i)[j] = s[IF j < i THEN j ELSE j + 1]
<1> DEFINE a == SubSeq(s, 1, i - 1)
           b == SubSeq(s, i + 1, Len(s))
<1>1. \A j \in 1 .. Len(s) : s[j] \in S
  OBVIOUS
<1>2. a \in Seq(S) /\ Len(a) = i - 1 /\ \A j \in 1 .. (i - 1) : a[j] = s[j]
  <2>1. \A j \in 1 .. (i - 1) : s[j] \in S
    BY <1>1
  <2>2. /\ a \in Seq(S) /\ Len(a) = IF 1 <= i - 1 THEN (i - 1) - 1 + 1 ELSE 0
        /\ \A j \in 1 .. ((i - 1) - 1 + 1) : a[j] = s[1 + j - 1]
    BY <2>1, SubSeqProperties
  <2> HIDE DEF a
  <2> QED BY <2>2
<1>3. b \in Seq(S) /\ Len(b) = Len(s) - i /\ \A j \in 1 .. (Len(s) - i) : b[j] = s[i + j]
  <2>1. \A j \in (i + 1) .. Len(s) : s[j] \in S
    BY <1>1
  <2>2. /\ b \in Seq(S) /\ Len(b) = IF i + 1 <= Len(s) THEN Len(s) - (i + 1) + 1 ELSE 0
        /\ \A j \in 1 .. (Len(s) - (i + 1) + 1) : b[j] = s[(i + 1) + j - 1]
    BY <2>1, SubSeqProperties
  <2> HIDE DEF b
  <2>3. Len(s) \in Nat /\ Len(s) - (i + 1) + 1 = Len(s) - i
        /\ (i + 1 <= Len(s) \/ Len(s) - i = 0)
    OBVIOUS
  <2>4. ASSUME NEW j \in 1 .. (Len(s) - i) PROVE b[j] = s[i + j]
    <3>1. (i + 1) + j - 1 = i + j
      OBVIOUS
    <3> QED BY <2>2, <2>3, <3>1
  <2>5. Len(b) = Len(s) - i
    BY <2>2, <2>3
  <2> QED BY <2>2, <2>4, <2>5
<1>4. RemoveAt(s, i) = a \o b
  BY DEF RemoveAt
<1> HIDE DEF a, b
<1>5. /\ a \o b \in Seq(S) /\ Len(a \o b) = Len(s) - 1
  <2>1. a \o b \in Seq(S) /\ Len(a \o b) = Len(a) + Len(b)
    BY <1>2, <1>3, ConcatProperties
  <2> QED BY <1>2, <1>3, <2>1
<1>6. ASSUME NEW j \in 1 .. (Len(s) - 1) PROVE (a \o b)[j] = s[IF j < i THEN j ELSE j + 1]
  <2>1. (a \o b)[j] = IF j <= Len(a) THEN a[j] ELSE b[j - Len(a)]
    BY <1>2, <1>3
  <2>2. CASE j < i
    BY <1>2, <2>1, <2>2
  <2>3. CASE ~(j < i)
    <3>1. j - (i - 1) \in 1 .. (Len(s) - i) /\ i + (j - (i - 1)) = j + 1
      BY <2>3
    <3> QED BY <1>2, <1>3, <2>1, <2>3, <3>1
  <2> QED BY <2>2, <2>3
<1> QED BY <1>4, <1>5, <1>6

\* Of a list that has each element once, the element goes and the others stay.
LEMMA RemovedOnce ==
  ASSUME NEW S, NEW s \in Seq(S), NEW i \in 1 .. Len(s), IsInjective(s)
  PROVE  IsInjective(RemoveAt(s, i)) /\ ToSet(RemoveAt(s, i)) = ToSet(s) \ {s[i]}
<1> DEFINE r == RemoveAt(s, i)
           Old(j) == IF j < i THEN j ELSE j + 1
<1>1. r \in Seq(S) /\ Len(r) = Len(s) - 1 /\ \A j \in 1 .. (Len(s) - 1) : r[j] = s[Old(j)]
  BY Removed
<1>2. DOMAIN s = 1 .. Len(s) /\ DOMAIN r = 1 .. (Len(s) - 1) /\ Len(s) \in Nat
  BY <1>1
<1> HIDE DEF r
<1>3. \A j \in 1 .. (Len(s) - 1) : Old(j) \in 1 .. Len(s) /\ Old(j) # i
  OBVIOUS
<1>4. \A j, k \in 1 .. (Len(s) - 1) : Old(j) = Old(k) => j = k
  OBVIOUS
<1>5. \A k \in 1 .. Len(s) : k # i => \E j \in 1 .. (Len(s) - 1) : Old(j) = k
  <2> SUFFICES ASSUME NEW k \in 1 .. Len(s), k # i
               PROVE  \E j \in 1 .. (Len(s) - 1) : Old(j) = k
    OBVIOUS
  <2>1. CASE k < i
    BY <2>1
  <2>2. CASE k > i
    <3>1. k - 1 \in 1 .. (Len(s) - 1) /\ Old(k - 1) = k
      BY <2>2
    <3> QED BY <3>1
  <2> QED BY <2>1, <2>2
<1> HIDE DEF Old
<1>6. IsInjective(r)
  BY <1>1, <1>2, <1>3, <1>4 DEF IsInjective
<1>7. ToSet(r) = ToSet(s) \ {s[i]}
  <2>1. \A j \in 1 .. (Len(s) - 1) : r[j] \in ToSet(s) \ {s[i]}
    BY <1>1, <1>2, <1>3 DEF ToSet, IsInjective
  <2>2. ASSUME NEW k \in 1 .. Len(s), s[k] # s[i] PROVE s[k] \in ToSet(r)
    <3>1. PICK j \in 1 .. (Len(s) - 1) : Old(j) = k
      BY <1>5, <2>2
    <3> QED BY <1>1, <1>2, <3>1 DEF ToSet
  <2> QED BY <1>2, <2>1, <2>2 DEF ToSet
<1> QED BY <1>6, <1>7 DEF r

\* A new element at the end of a sequence without repetitions.
LEMMA Added ==
  ASSUME NEW S, NEW s \in Seq(S), NEW x \in S
  PROVE  /\ ToSet(Append(s, x)) = ToSet(s) \cup {x}
         /\ IsInjective(s) /\ x \notin ToSet(s) => IsInjective(Append(s, x))
<1> DEFINE r == Append(s, x)
<1>1. /\ r \in Seq(S) /\ Len(r) = Len(s) + 1 /\ r[Len(s) + 1] = x
      /\ \A j \in 1 .. Len(s) : r[j] = s[j]
  OBVIOUS
<1>2. DOMAIN s = 1 .. Len(s) /\ DOMAIN r = 1 .. (Len(s) + 1) /\ Len(s) \in Nat
  BY <1>1
<1> HIDE DEF r
<1>3. \A j \in 1 .. (Len(s) + 1) : j \in 1 .. Len(s) \/ j = Len(s) + 1
  BY <1>2
<1>4. Len(s) + 1 \in 1 .. (Len(s) + 1) /\ \A j \in 1 .. Len(s) : j \in 1 .. (Len(s) + 1)
  BY <1>2
<1>5. ToSet(r) = ToSet(s) \cup {x}
  BY <1>1, <1>2, <1>3, <1>4 DEF ToSet
<1>6. IsInjective(s) /\ x \notin ToSet(s) => IsInjective(r)
  BY <1>1, <1>2, <1>3 DEF ToSet, IsInjective
<1> QED BY <1>5, <1>6 DEF r

\* A list that has each element once has as many as it is long.
LEMMA SetOfList ==
  ASSUME NEW S, NEW s \in Seq(S), IsInjective(s)
  PROVE  IsFiniteSet(ToSet(s)) /\ Cardinality(ToSet(s)) = Len(s)
<1> DEFINE f == [i \in 1 .. Len(s) |-> s[i]]
<1>1. Len(s) \in Nat /\ IsFiniteSet(1 .. Len(s)) /\ Cardinality(1 .. Len(s)) = Len(s)
  <2>1. Len(s) \in Nat
    OBVIOUS
  <2>2. IsFiniteSet(1 .. Len(s)) /\ Cardinality(1 .. Len(s)) = IF 1 > Len(s) THEN 0 ELSE Len(s) - 1 + 1
    BY <2>1, FS_Interval
  <2> QED BY <2>1, <2>2
<1>2. f \in Bijection(1 .. Len(s), ToSet(s))
  <2>1. f \in Surjection(1 .. Len(s), ToSet(s))
    BY DEF Surjection, ToSet
  <2>2. f \in Injection(1 .. Len(s), ToSet(s))
    BY <2>1 DEF Injection, IsInjective, Surjection
  <2> QED BY <2>1, <2>2 DEF Bijection
<1>3. ExistsBijection(1 .. Len(s), ToSet(s))
  BY <1>2 DEF ExistsBijection
<1> QED BY <1>1, <1>3, FS_Bijection

-----------------------------------------------------------------------------
(* The children *)

\* No child yet.
LEMMA ChildInitIInv == ChildInit => ChildIInv
<1> SUFFICES ASSUME ChildInit PROVE ChildIInv
  OBVIOUS
<1> USE DEF ChildInit, NoFork
<1>1. ChildTypeOK
  <2>1. /\ proc \in [Pids -> {"unborn", "runs", "zombie", "reaped"}]
        /\ num_children \in Nat /\ sigchld \in Pids \cup {0} /\ aborted \in BOOLEAN
        /\ head_prev \in Pids \cup {0} /\ torn \in BOOLEAN
    OBVIOUS
  <2>2. fork \in Forks
    BY DEF Forks
  <2>3. childlist \in Seq(Pids)
    OBVIOUS
  <2> QED BY <2>1, <2>2, <2>3 DEF ChildTypeOK
<1>2. Unreaped = {} /\ ToSet(childlist) = {} /\ Len(childlist) = 0
  BY DEF Unreaped, ToSet
<1>3. Listed
  BY <1>2 DEF Listed, IsInjective
<1>4. Linked
  BY <1>2 DEF Linked, Tailmost
<1>5. IsFiniteSet(Unreaped) /\ Cardinality(Unreaped) = 0
  BY <1>2, FS_EmptySet
<1>6. CountEnough /\ (children_max > 0 => Cardinality(Unreaped) <= children_max)
  BY <1>5, ChildrenAssumption DEF CountEnough
<1> QED BY <1>1, <1>3, <1>4, <1>5, <1>6 DEF ChildIInv

\* A trigger is started only while fewer than children_max are counted, and no
\* fork is under way that is not.
LEMMA RunKeeps ==
  ASSUME ChildIInv, run_trigger
  PROVE  ChildIInv'
<1> USE DEF ChildIInv
<1>1. CASE UNCHANGED cvars
  BY <1>1 DEF cvars, ChildTypeOK, Listed, Linked, Tailmost, CountEnough, Unreaped
<1>2. CASE ~UNCHANGED cvars
  <2>1. PICK p \in Pids : /\ proc[p] = "unborn" /\ proc' = [proc EXCEPT ![p] = "runs"]
                          /\ fork' = [at |-> "forked", child |-> p, loaded |-> 0]
    BY <1>2 DEF run_trigger
  <2>2. /\ fork.at = "none" /\ ~aborted /\ ~TooMany
        /\ UNCHANGED <<childlist, num_children, head_prev, sigchld, aborted, torn>>
    BY <1>2 DEF run_trigger
  <2>3. Unreaped' = Unreaped \cup {p} /\ p \notin Unreaped
    BY <2>1 DEF Unreaped, ChildTypeOK
  <2>4. ChildTypeOK'
    BY <2>1, <2>2 DEF ChildTypeOK, Forks
  <2>5. Listed'
    BY <2>1, <2>2, <2>3 DEF Listed
  <2>6. (~torn => Linked)'
    BY <2>1, <2>2, <2>3 DEF Linked, Tailmost
  <2>7. IsFiniteSet(Unreaped') /\ Cardinality(Unreaped') = Cardinality(Unreaped) + 1
        /\ Cardinality(Unreaped) \in Nat
    BY <2>3, FS_AddElement, FS_CardinalityType
  <2>8. num_children >= Cardinality(Unreaped) /\ num_children \in Nat
    BY <2>2 DEF CountEnough, ChildTypeOK
  <2>9. CountEnough'
    BY <2>1, <2>2, <2>7, <2>8 DEF CountEnough
  <2>10. children_max > 0 => num_children < children_max
    BY <2>2, <2>8, ChildrenAssumption DEF TooMany
  <2>11. (children_max > 0 => Cardinality(Unreaped) <= children_max)'
    BY <2>7, <2>8, <2>10, ChildrenAssumption
  <2>12. (sigchld # 0 => proc[sigchld] = "zombie")'
    BY <2>1, <2>2 DEF ChildTypeOK
  <2> QED BY <2>4, <2>5, <2>6, <2>7, <2>9, <2>11, <2>12
<1> QED BY <1>1, <1>2

\* num_children++ is read and written; a handler may have run in between.
LEMMA CountKeeps ==
  ASSUME ChildIInv, LoadCount \/ StoreCount
  PROVE  ChildIInv'
<1> USE DEF ChildIInv
<1>1. /\ UNCHANGED <<proc, childlist, head_prev, sigchld, aborted, torn>>
      /\ Unreaped' = Unreaped /\ Tailmost' = Tailmost
  BY DEF LoadCount, StoreCount, Unreaped, Tailmost
<1>2. Cardinality(Unreaped) \in Nat /\ num_children \in Nat /\ fork.loaded \in Nat
  BY FS_CardinalityType DEF ChildTypeOK, Forks
<1>3. CASE LoadCount
  <2>1. fork.at = "forked" /\ fork' = [fork EXCEPT !.at = "loaded", !.loaded = num_children]
        /\ num_children' = num_children
    BY <1>3 DEF LoadCount
  <2>2. /\ fork'.at = "loaded" /\ fork'.child = fork.child /\ fork'.loaded = num_children
        /\ fork' \in Forks
    BY <1>2, <2>1 DEF ChildTypeOK, Forks
  <2>3. ChildTypeOK' /\ Listed' /\ (~torn => Linked)'
    BY <1>1, <2>1, <2>2 DEF ChildTypeOK, Listed, Linked
  <2>4. CountEnough'
    BY <1>1, <1>2, <2>1, <2>2 DEF CountEnough
  <2> QED BY <1>1, <2>3, <2>4
<1>4. CASE StoreCount
  <2>1. fork.at = "loaded" /\ fork' = [fork EXCEPT !.at = "counted", !.loaded = 0]
        /\ num_children' = fork.loaded + 1
    BY <1>4 DEF StoreCount
  <2>2. fork'.at = "counted" /\ fork'.child = fork.child /\ fork' \in Forks
    BY <2>1 DEF ChildTypeOK, Forks
  <2>3. ChildTypeOK' /\ Listed' /\ (~torn => Linked)'
    BY <1>1, <1>2, <2>1, <2>2 DEF ChildTypeOK, Listed, Linked
  <2>4. CountEnough'
    BY <1>1, <1>2, <2>1, <2>2 DEF CountEnough
  <2> QED BY <1>1, <2>3, <2>4
<1> QED BY <1>3, <1>4

\* list_add_tail() up to the store that puts the child into the list.
LEMMA TailKeeps ==
  ASSUME ChildIInv, LoadTail \/ StoreHeadPrev
  PROVE  ChildIInv'
<1> USE DEF ChildIInv
<1>1. /\ UNCHANGED <<proc, childlist, num_children, sigchld, aborted, torn>>
      /\ Unreaped' = Unreaped /\ Tailmost' = Tailmost
  BY DEF LoadTail, StoreHeadPrev, Unreaped, Tailmost
<1>2. CASE LoadTail
  <2>1. fork.at = "counted" /\ fork' = [fork EXCEPT !.at = "linking", !.loaded = head_prev]
        /\ head_prev' = head_prev /\ head_prev \in Nat
    BY <1>2, ChildrenAssumption DEF LoadTail, ChildTypeOK
  <2>2. /\ fork'.at = "linking" /\ fork'.child = fork.child /\ fork'.loaded = head_prev
        /\ fork' \in Forks
    BY <2>1 DEF ChildTypeOK, Forks
  <2>3. ChildTypeOK' /\ Listed' /\ (~torn => Linked)' /\ CountEnough'
    BY <1>1, <2>1, <2>2 DEF ChildTypeOK, Listed, Linked, CountEnough
  <2> QED BY <1>1, <2>3
<1>3. CASE StoreHeadPrev
  <2>1. fork.at = "linking" /\ fork' = [fork EXCEPT !.at = "linked"] /\ head_prev' = fork.child
    BY <1>3 DEF StoreHeadPrev
  <2>2. /\ fork'.at = "linked" /\ fork'.child = fork.child /\ fork'.loaded = fork.loaded
        /\ fork' \in Forks /\ fork.child \in Pids
    BY <2>1 DEF ChildTypeOK, Forks, Listed
  <2>3. ChildTypeOK' /\ Listed' /\ (~torn => Linked)' /\ CountEnough'
    BY <1>1, <2>1, <2>2 DEF ChildTypeOK, Listed, Linked, CountEnough
  <2> QED BY <1>1, <2>3
<1> QED BY <1>2, <1>3

\* The child enters the list behind the tail that was loaded, or is lost; while no
\* tail was taken out, it enters.
LEMMA AddKeeps ==
  ASSUME ChildIInv, AddChild
  PROVE  ChildIInv'
<1> USE DEF ChildIInv
<1>1. /\ fork.at = "linked" /\ ~aborted /\ fork' = NoFork
      /\ UNCHANGED <<proc, num_children, head_prev, sigchld, aborted, torn>>
      /\ Unreaped' = Unreaped
  BY DEF AddChild, Unreaped
<1>2. fork.child \in Pids \ ToSet(childlist) /\ fork.child \in Unreaped /\ childlist \in Seq(Pids)
  BY <1>1 DEF Listed, ChildTypeOK
<1>3. CountEnough'
  BY <1>1 DEF CountEnough, NoFork
<1>4. fork' \in Forks
  BY <1>1 DEF NoFork, Forks
<1>5. CASE childlist' = Append(childlist, fork.child)
  <2>1. /\ ToSet(childlist') = ToSet(childlist) \cup {fork.child} /\ IsInjective(childlist')
        /\ childlist' \in Seq(Pids)
    BY <1>2, <1>5, Added DEF Listed
  <2>2. Tailmost' = fork.child
    BY <1>2, <1>5 DEF Tailmost
  <2>3. ChildTypeOK' /\ Listed'
    BY <1>1, <1>2, <1>4, <2>1 DEF ChildTypeOK, Listed, NoFork
  <2>4. (~torn => Linked)'
    BY <1>1, <2>1, <2>2 DEF Linked, NoFork
  <2> QED BY <1>1, <1>3, <2>3, <2>4
<1>6. CASE UNCHANGED childlist /\ fork.loaded \notin ToSet(childlist) \cup {0}
  <2>1. Tailmost \in ToSet(childlist) \cup {0}
    <3>1. CASE childlist = <<>>
      BY <3>1 DEF Tailmost
    <3>2. CASE childlist # <<>>
      <4>1. Len(childlist) \in DOMAIN childlist
        BY <1>2, <3>2
      <4> QED BY <3>2, <4>1 DEF Tailmost, ToSet
    <3> QED BY <3>1, <3>2
  <2>2. torn
    BY <1>1, <1>6, <2>1 DEF Linked
  <2>3. ChildTypeOK' /\ Listed'
    BY <1>1, <1>2, <1>4, <1>6 DEF ChildTypeOK, Listed, NoFork
  <2> QED BY <1>1, <1>3, <2>2, <2>3
<1> QED BY <1>5, <1>6 DEF AddChild

\* The allocator gives up only after a tail was taken out.
LEMMA MallocKeeps ==
  ASSUME ChildIInv, MallocAborts
  PROVE  ChildIInv'
BY DEF MallocAborts, ChildIInv, ChildTypeOK, Listed, CountEnough, Unreaped

\* A child ends: it is a zombie, and SIGCHLD is pending.
LEMMA EndsKeeps ==
  ASSUME ChildIInv, NEW p \in Pids, ChildEnds(p)
  PROVE  ChildIInv'
<1> USE DEF ChildIInv
<1>1. /\ proc[p] = "runs" /\ proc' = [proc EXCEPT ![p] = "zombie"]
      /\ sigchld' = IF sigchld = 0 THEN p ELSE sigchld
      /\ UNCHANGED <<childlist, num_children, head_prev, fork, aborted, torn>>
  BY DEF ChildEnds
<1>2. Unreaped' = Unreaped
  BY <1>1 DEF Unreaped, ChildTypeOK
<1>3. ChildTypeOK'
  BY <1>1 DEF ChildTypeOK
<1>4. Listed' /\ CountEnough'
  BY <1>1, <1>2 DEF Listed, CountEnough
<1>5. (sigchld # 0 => proc[sigchld] = "zombie")'
  BY <1>1 DEF ChildTypeOK
<1>6. (~torn => Linked)'
  <2> SUFFICES ASSUME ~torn PROVE Linked'
    BY <1>1
  <2>1. Linked /\ Tailmost' = Tailmost
    BY <1>1 DEF Tailmost
  <2>2. aborted => fork.at # "none" /\ fork.child \in Pids /\ fork.child # p
    BY <1>1, <2>1 DEF Linked, Listed
  <2>3. aborted => proc'[fork.child] = proc[fork.child]
    BY <1>1, <2>2 DEF ChildTypeOK
  <2> QED BY <1>1, <1>2, <2>1, <2>3 DEF Linked
<1> QED BY <1>2, <1>3, <1>4, <1>5, <1>6

\* The handler takes a zombie off the list, or finds the one that is not on it yet
\* or was lost.  Both ends of the list stay right unless a fork has loaded the tail.
LEMMA HandlerKeeps ==
  ASSUME ChildIInv, child_handler
  PROVE  ChildIInv'
<1> USE DEF ChildIInv
<1> DEFINE z == sigchld
<1>1. /\ z \in Pids /\ proc[z] = "zombie" /\ z \in Unreaped /\ ~aborted
      /\ proc' = [proc EXCEPT ![z] = "reaped"] /\ sigchld' = 0 /\ UNCHANGED fork
      /\ finish_child(z)
  BY DEF child_handler, ChildTypeOK, Unreaped
<1> HIDE DEF z
<1>2. Unreaped' = Unreaped \ {z}
  BY <1>1 DEF Unreaped, ChildTypeOK
<1>3. /\ IsFiniteSet(Unreaped') /\ Cardinality(Unreaped') = Cardinality(Unreaped) - 1
      /\ Cardinality(Unreaped) \in Nat /\ Cardinality(Unreaped') \in Nat
  BY <1>1, <1>2, FS_RemoveElement, FS_CardinalityType
<1>4. (children_max > 0 => Cardinality(Unreaped) <= children_max)'
  BY <1>3, ChildrenAssumption
<1>5. num_children \in Nat /\ fork.loaded \in Nat
  BY DEF ChildTypeOK, Forks
<1>6. CASE z \in ToSet(childlist)
  <2>1. PICK i \in DOMAIN childlist :
          /\ childlist[i] = z /\ childlist' = RemoveAt(childlist, i)
          /\ head_prev' = IF i < Len(childlist) THEN head_prev
                          ELSE IF i = 1 THEN 0 ELSE childlist[i - 1]
    BY <1>1, <1>6 DEF finish_child
  <2>2. /\ num_children' = num_children - 1 /\ UNCHANGED aborted
        /\ torn' = (torn \/ (fork.at \in {"linking", "linked"} /\ fork.loaded = z))
    BY <1>1, <1>6 DEF finish_child
  <2>3. childlist \in Seq(Pids) /\ i \in 1 .. Len(childlist) /\ IsInjective(childlist)
    BY <2>1 DEF ChildTypeOK, Listed
  <2>4. /\ childlist' \in Seq(Pids) /\ Len(childlist') = Len(childlist) - 1
        /\ IsInjective(childlist') /\ ToSet(childlist') = ToSet(childlist) \ {z}
        /\ \A j \in 1 .. (Len(childlist) - 1) : childlist'[j] = childlist[IF j < i THEN j ELSE j + 1]
    BY <2>1, <2>3, Removed, RemovedOnce
  <2>5. num_children >= 1
    <3>1. fork.at # "none" => fork.child \in Unreaped /\ fork.child # z
      BY <1>1, <1>6 DEF Listed
    <3>2. fork.at # "none" => Cardinality(Unreaped') >= 1
      <4>1. Unreaped' = {} <=> Cardinality(Unreaped') = 0
        BY <1>3, FS_EmptySet
      <4> QED BY <1>2, <1>3, <3>1, <4>1
    <3>3. Cardinality(Unreaped) >= 1
      BY <1>3
    <3> QED BY <1>3, <1>5, <3>2, <3>3 DEF CountEnough
  <2>6. head_prev' \in Pids \cup {0}
    <3>1. i > 1 => childlist[i - 1] \in Pids
      BY <2>3
    <3> QED BY <2>1, <2>3, <3>1 DEF ChildTypeOK
  <2>7. ChildTypeOK'
    BY <1>1, <1>5, <2>2, <2>4, <2>5, <2>6 DEF ChildTypeOK
  <2>8. Listed'
    BY <1>1, <1>2, <1>6, <2>2, <2>4 DEF Listed
  <2>9. CountEnough'
    BY <1>1, <1>3, <1>5, <2>2 DEF CountEnough
  <2>10. (~torn => Linked)'
    <3> SUFFICES ASSUME ~torn' PROVE Linked'
      OBVIOUS
    <3>1. Linked /\ (fork.at \in {"linking", "linked"} => fork.loaded # z)
      BY <2>2
    <3>2. Len(childlist) \in Nat /\ childlist # <<>> /\ Tailmost = childlist[Len(childlist)]
      BY <2>3 DEF Tailmost
    <3>3. CASE i < Len(childlist)
      <4>1. childlist' # <<>> /\ Len(childlist') \in 1 .. (Len(childlist) - 1)
        BY <2>3, <2>4, <3>3
      <4>2. childlist'[Len(childlist')] = childlist[Len(childlist)]
        BY <2>3, <2>4, <3>3, <4>1
      <4>3. Tailmost' = Tailmost
        BY <3>2, <4>1, <4>2 DEF Tailmost
      <4> QED BY <1>1, <1>2, <2>1, <2>2, <2>4, <3>1, <3>3, <4>3 DEF Linked
    <3>4. CASE i = Len(childlist)
      <4>1. fork.at \notin {"linking", "linked"}
        BY <2>1, <3>1, <3>2, <3>4 DEF Linked
      <4>2. head_prev' = Tailmost'
        <5>1. CASE i = 1
          <6>1. childlist' = <<>>
            BY <2>4, <3>4, <5>1
          <6> QED BY <2>1, <3>4, <5>1, <6>1 DEF Tailmost
        <5>2. CASE i > 1
          <6>1. Len(childlist') = i - 1 /\ childlist' # <<>> /\ i - 1 \in 1 .. (Len(childlist) - 1)
            BY <2>3, <2>4, <3>4, <5>2
          <6>2. childlist'[i - 1] = childlist[i - 1]
            BY <2>3, <2>4, <6>1
          <6> QED BY <2>1, <3>4, <5>2, <6>1, <6>2 DEF Tailmost
        <5> QED BY <2>3, <5>1, <5>2
      <4> QED BY <1>1, <1>2, <2>2, <2>4, <3>1, <4>1, <4>2 DEF Linked
    <3> QED BY <2>3, <3>3, <3>4
  <2> QED BY <1>1, <1>3, <1>4, <2>7, <2>8, <2>9, <2>10
<1>7. CASE z \notin ToSet(childlist)
  <2>1. aborted' = TRUE /\ UNCHANGED <<childlist, num_children, head_prev, torn>>
    BY <1>1, <1>7 DEF finish_child, ToSet
  <2>2. ChildTypeOK'
    BY <1>1, <2>1 DEF ChildTypeOK
  <2>3. Listed'
    BY <1>1, <1>2, <1>7, <2>1 DEF Listed
  <2>4. CountEnough'
    BY <1>1, <1>3, <1>5, <2>1 DEF CountEnough
  <2>5. (~torn => Linked)'
    <3> SUFFICES ASSUME ~torn PROVE Linked'
      BY <2>1
    <3>1. Linked /\ Tailmost' = Tailmost
      BY <2>1 DEF Tailmost
    <3>2. fork.at # "none" /\ z = fork.child
      BY <1>1, <1>7, <3>1 DEF Linked
    <3>3. proc'[fork.child] = "reaped"
      BY <1>1, <3>2 DEF ChildTypeOK
    <3> QED BY <1>1, <1>2, <2>1, <3>1, <3>2, <3>3 DEF Linked
  <2> QED BY <1>1, <1>3, <1>4, <2>2, <2>3, <2>4, <2>5
<1> QED BY <1>6, <1>7

\* ChildIInv is inductive, whatever the rest of the daemon does.
LEMMA NextChildIInv ==
  ASSUME ChildIInv, [Next]_vars
  PROVE  ChildIInv'
<1>1. CASE UNCHANGED cvars
  BY <1>1 DEF cvars, ChildIInv, ChildTypeOK, Listed, Linked, Tailmost, CountEnough, Unreaped
<1>2. CASE run_trigger
  BY <1>2, RunKeeps
<1>3. CASE ForkStep
  BY <1>3, CountKeeps, TailKeeps, AddKeeps DEF ForkStep
<1>4. CASE child_handler \/ MallocAborts
  BY <1>4, HandlerKeeps, MallocKeeps
<1>5. ASSUME NEW p \in Pids, ChildEnds(p) PROVE ChildIInv'
  BY <1>5, EndsKeeps
<1>6. CASE Loop
  BY <1>1, <1>2, <1>6 DEF Loop, Start, Poll, Skip, client_accept, client_event, process_mcefd
<1>7. CASE Forking \/ Handler \/ Ends
  BY <1>3, <1>4, <1>5, <1>7 DEF Forking, Handler, Ends
<1>8. CASE MachineCheck \/ \E c \in Clients : Connect(c) \/ Ask(c) \/ Read(c) \/ Hangup(c)
  BY <1>1, <1>8 DEF MachineCheck, Connect, Ask, Read, Hangup
<1>9. CASE UNCHANGED vars
  BY <1>1, <1>9 DEF vars
<1> QED BY <1>6, <1>7, <1>8, <1>9 DEF Next

\* Wherever child_handler() meets mcelog_fork(), never more than children_max
\* triggers exist and the list has none twice.  It has each of them, and abort()
\* meets only a child that is not linked yet, until the tail of the list ends in
\* the middle of list_add_tail() (trigger.c:43-123, list.h:45-53).
THEOREM ChildrenRightSound == Spec => []ChildrenRight
<1>1. Init => ChildIInv
  BY ChildInitIInv DEF Init
<1>2. ChildIInv => ChildrenRight
  <2> SUFFICES ASSUME ChildIInv PROVE ChildrenRight
    OBVIOUS
  <2>1. ChildTypeOK /\ Listed /\ CountEnough /\ IsFiniteSet(Unreaped)
    BY DEF ChildIInv
  <2>2. ~torn => /\ Unreaped \subseteq ToSet(childlist) \cup {fork.child}
                 /\ head_prev = IF fork.at = "linked" THEN fork.child ELSE Tailmost
                 /\ aborted => fork.at # "none" /\ proc[fork.child] = "reaped"
    BY DEF ChildIInv, Linked
  <2>3. num_children >= Len(childlist)
    <3>1. Cardinality(Unreaped) \in Nat /\ num_children \in Nat /\ Len(childlist) \in Nat
      BY <2>1, FS_CardinalityType DEF ChildTypeOK
    <3>2. IsFiniteSet(ToSet(childlist)) /\ Cardinality(ToSet(childlist)) = Len(childlist)
      BY <2>1, SetOfList DEF ChildTypeOK, Listed
    <3>3. Cardinality(ToSet(childlist)) <= Cardinality(Unreaped)
      BY <2>1, FS_Subset DEF Listed
    <3>4. CASE fork.at \notin {"forked", "loaded"} \/ aborted
      BY <2>1, <3>1, <3>2, <3>3, <3>4 DEF CountEnough
    <3>5. CASE fork.at \in {"forked", "loaded"} /\ ~aborted
      <4>1. fork.child \in Unreaped /\ fork.child \notin ToSet(childlist)
        BY <2>1, <3>5 DEF Listed
      <4>2. Cardinality(ToSet(childlist)) < Cardinality(Unreaped)
        BY <2>1, <3>1, <3>2, <3>3, <4>1, FS_Subset DEF Listed
      <4> QED BY <2>1, <3>1, <3>2, <3>5, <4>2 DEF CountEnough
    <3> QED BY <3>4, <3>5
  <2> QED BY <2>1, <2>2, <2>3 DEF ChildIInv, ChildrenRight, Listed
<1> QED BY <1>1, <1>2, NextChildIInv, PTL DEF Spec

-----------------------------------------------------------------------------
(* The answers *)

Text == Seq(Pieces)
Lines == Seq(DOMAIN Commands)

\* A set of numbers that has one has a least one.
LEMMA LeastNat ==
  ASSUME NEW T, T \subseteq Nat, T # {}
  PROVE  \E x \in T : \A y \in T : x <= y
<1> DEFINE R == OpToRel(<, Nat)
<1>1. IsWellFoundedOn(R, Nat)
  BY NatLessThanWellFounded
<1>2. \A x, y \in Nat : <<x, y>> \in R <=> x < y
  BY DEF OpToRel
<1> HIDE DEF R
<1>3. PICK x \in T : \A y \in T : <<y, x>> \notin R
  BY <1>1, WFMin
<1>4. ASSUME NEW y \in T PROVE x <= y
  <2>1. <<y, x>> \notin R /\ x \in Nat /\ y \in Nat
    BY <1>3
  <2>2. ~(y < x)
    BY <1>2, <2>1
  <2> QED BY <2>1, <2>2
<1> QED BY <1>4

\* dispatch_commands() prints a text for any lines, and nothing for none.
LEMMA DispatchFacts ==
  ASSUME NEW lines \in Lines
  PROVE  dispatch_commands(lines) \in Text /\ (lines = <<>> => dispatch_commands(lines) = <<>>)
<1> DEFINE L == Len(lines)
           Step(f, n) == IF n = 0 THEN <<>> ELSE f[n - 1] \o Commands[lines[n]]
           Prints(f, m) == /\ f \in [0 .. m -> Text]
                           /\ \A n \in 0 .. m : f[n] = Step(f, n)
           printed == CHOOSE f : f = [n \in 0 .. L |-> Step(f, n)]
<1>1. L \in Nat /\ \A n \in 1 .. L : Commands[lines[n]] \in Text
  BY ClientsAssumption DEF Lines, Text
<1>2. \E f : Prints(f, L)
  <2> DEFINE Bad == {m \in 0 .. L : ~\E f : Prints(f, m)}
  <2> SUFFICES ASSUME Bad # {} PROVE FALSE
    BY <1>1
  <2>1. Bad \subseteq Nat
    BY <1>1
  <2>2. PICK m \in Bad : \A n \in Bad : m <= n
    <3> HIDE DEF Bad
    <3> QED BY <2>1, LeastNat
  <2>3. CASE m = 0
    <3>1. Prints([n \in 0 .. 0 |-> <<>>], 0)
      BY DEF Text
    <3> QED BY <2>2, <2>3, <3>1
  <2>4. CASE m # 0
    <3>1. m \in 1 .. L /\ m - 1 \in 0 .. L /\ m - 1 \notin Bad
      <4>1. m \in 0 .. L
        BY <2>2
      <4>2. m - 1 \notin Bad
        <5> HIDE DEF Bad
        <5> QED BY <1>1, <2>2, <2>4, <4>1
      <4> QED BY <1>1, <2>4, <4>1, <4>2
    <3>2. PICK g : Prints(g, m - 1)
      BY <3>1
    <3> DEFINE h == [n \in 0 .. m |-> IF n = m THEN g[m - 1] \o Commands[lines[m]] ELSE g[n]]
    <3>3. g[m - 1] \o Commands[lines[m]] \in Text
      <4>1. g[m - 1] \in Text
        BY <3>1, <3>2
      <4> QED BY <1>1, <3>1, <4>1, ConcatProperties DEF Text
    <3>4. \A n \in 0 .. m : n = m \/ n \in 0 .. (m - 1)
      BY <3>1
    <3>5. h \in [0 .. m -> Text]
      BY <3>2, <3>3, <3>4
    <3>6. ASSUME NEW n \in 0 .. m PROVE h[n] = Step(h, n)
      <4>1. CASE n = m
        <5>1. h[n - 1] = g[m - 1] /\ n # 0
          BY <3>1, <4>1
        <5> QED BY <4>1, <5>1
      <4>2. CASE n # m
        <5>1. n \in 0 .. (m - 1) /\ h[n] = g[n] /\ g[n] = Step(g, n)
          BY <3>2, <3>4, <4>2
        <5>2. n # 0 => h[n - 1] = g[n - 1]
          BY <3>1, <4>2
        <5> QED BY <5>1, <5>2
      <4> QED BY <4>1, <4>2
    <3> QED BY <2>2, <3>5, <3>6
  <2> QED BY <2>3, <2>4
<1>3. Prints(printed, L)
  <2>1. PICK f : Prints(f, L)
    BY <1>2
  <2>2. f = [n \in 0 .. L |-> Step(f, n)]
    BY <2>1
  <2>3. printed = [n \in 0 .. L |-> Step(printed, n)]
    BY <2>2
  <2>4. \A n \in 0 .. L : printed[n] = Step(printed, n)
    BY <2>3
  <2> HIDE DEF printed
  <2> DEFINE Bad == {n \in 0 .. L : printed[n] \notin Text}
  <2>5. ASSUME Bad # {} PROVE FALSE
    <3>1. Bad \subseteq Nat
      BY <1>1
    <3>2. PICK m \in Bad : \A n \in Bad : m <= n
      <4> HIDE DEF Bad
      <4> QED BY <2>5, <3>1, LeastNat
    <3>3. CASE m = 0
      <4>1. printed[0] = <<>> /\ printed[0] \notin Text
        BY <1>1, <2>4, <3>2, <3>3
      <4>2. <<>> \in Text
        BY DEF Text
      <4> QED BY <4>1, <4>2
    <3>4. CASE m # 0
      <4>1. m \in 1 .. L /\ m - 1 \in 0 .. L /\ m - 1 \notin Bad
        <5>1. m \in 0 .. L
          BY <3>2
        <5>2. m - 1 \notin Bad
          <6> HIDE DEF Bad
          <6> QED BY <1>1, <3>2, <3>4, <5>1
        <5> QED BY <1>1, <3>4, <5>1, <5>2
      <4>2. printed[m] = printed[m - 1] \o Commands[lines[m]] /\ printed[m - 1] \in Text
        BY <2>4, <3>4, <4>1
      <4>3. printed[m] \in Text
        BY <1>1, <4>1, <4>2, ConcatProperties DEF Text
      <4> QED BY <3>2, <4>3
    <3> QED BY <3>3, <3>4
  <2>6. printed \in [0 .. L -> Text]
    BY <2>3, <2>5
  <2> QED BY <2>4, <2>6
<1>4. dispatch_commands(lines) = printed[L]
  BY DEF dispatch_commands
<1> HIDE DEF printed
<1>5. printed[L] \in Text /\ printed[0] = <<>>
  BY <1>1, <1>3
<1>6. lines = <<>> => L = 0
  OBVIOUS
<1> QED BY <1>4, <1>5, <1>6

\* Where there is more of a text, there is a prefix of it.
LEMMA PrefixOf ==
  ASSUME NEW a \in Text, NEW b \in Text
  PROVE  IsPrefix(a, a \o b)
<1> DEFINE t == a \o b
<1>1. /\ t \in Text /\ Len(t) = Len(a) + Len(b) /\ Len(a) \in Nat /\ Len(b) \in Nat
      /\ \A n \in 1 .. Len(a) : t[n] = a[n]
  BY ConcatProperties DEF Text
<1> HIDE DEF t
<1>2. SubSeq(a, 1, Len(a)) = SubSeq(t, 1, Len(a))
  BY <1>1 DEF Text
<1> QED BY <1>1, <1>2 DEF IsPrefix, t

\* The pieces of answers, and what is made of them.
LEMMA Texts ==
  /\ <<>> \in Text /\ <<"busy">> \in Text /\ <<"denied">> \in Text
  /\ \A a, b \in Text : a \o b \in Text
  /\ \A a \in Text : a \o <<>> = a /\ <<>> \o a = a /\ IsPrefix(<<>>, a)
  /\ \A a, b, c \in Text : (a \o b) \o c = a \o (b \o c)
<1>1. <<>> \in Text /\ <<"busy">> \in Text /\ <<"denied">> \in Text
  <2>1. \A S : <<>> \in Seq(S) /\ \A x \in S : <<x>> \in Seq(S)
    OBVIOUS
  <2>2. "busy" \in Pieces /\ "denied" \in Pieces
    BY DEF Pieces
  <2> QED BY <2>1, <2>2, Zenon DEF Text
<1>2. \A a, b \in Text : a \o b \in Text
  BY ConcatProperties DEF Text
<1>3. \A a \in Text : a \o <<>> = a /\ <<>> \o a = a
  BY ConcatEmptySeq DEF Text
<1>4. \A a \in Text : IsPrefix(<<>>, a)
  BY <1>1, <1>3, PrefixOf
<1>5. \A a, b, c \in Text : (a \o b) \o c = a \o (b \o c)
  BY ConcatAssociative DEF Text
<1> QED BY <1>1, <1>2, <1>3, <1>4, <1>5

\* Answers are put together in any order.
LEMMA Associative ==
  ASSUME NEW a \in Text, NEW b \in Text, NEW c \in Text
  PROVE  (a \o b) \o c = a \o (b \o c)
BY Texts

\* What is empty together is empty.
LEMMA EmptyText ==
  ASSUME NEW a \in Text, NEW b \in Text, a \o b = <<>>
  PROVE  a = <<>> /\ b = <<>>
<1>1. Len(a \o b) = Len(a) + Len(b) /\ Len(a) \in Nat /\ Len(b) \in Nat
  BY ConcatProperties DEF Text
<1>2. Len(a) = 0 /\ Len(b) = 0
  BY <1>1
<1> QED BY <1>2 DEF Text

\* What the invariant says of the answers of one client.
AnswerOK(c) ==
  /\ conn[c].at \in {"queued", "open"} => Ongoing(c)
  /\ conn[c].at = "hung" => conn[c].wire = <<>>
  /\ conn[c].at = "queued" => conn[c].wire = <<>> /\ conn[c].got = <<>>
  /\ AnswerRight(c)

\* The two properties of answers, client by client.
LEMMA AnswersByClient ==
  AnswersUnderWay /\ AnswersRight <=> \A c \in Clients : AnswerOK(c)
BY DEF AnswersUnderWay, AnswersRight, AnswerOK

\* A step that does not touch a client leaves its answer right.
LEMMA AnswerFixed ==
  ASSUME NEW c \in Clients, conn'[c] = conn[c], cc'[c].out = cc[c].out, AnswerOK(c)
  PROVE  AnswerOK(c)'
BY DEF AnswerOK, Ongoing, AnswerRight

\* The types of what a client and the server hold of their connection.
LEMMA Fields ==
  ASSUME TypeOK, NEW c \in Clients
  PROVE  /\ conn[c] \in Conns /\ cc[c] \in Contexts
         /\ conn[c].got \in Text /\ conn[c].wire \in Text /\ cc[c].out \in Text
         /\ conn[c].asked \in Lines /\ conn[c].in \in Lines
         /\ dispatch_commands(conn[c].asked) \in Text
         /\ conn[c].got \o conn[c].wire \in Text
<1>1. conn[c] \in Conns /\ cc[c] \in Contexts
  BY DEF TypeOK
<1>2. /\ conn[c].got \in Text /\ conn[c].wire \in Text /\ cc[c].out \in Text
      /\ conn[c].asked \in Lines /\ conn[c].in \in Lines
  BY <1>1 DEF Conns, Contexts, Text, Lines
<1> QED BY <1>1, <1>2, DispatchFacts, Texts

\* A client that is being served has got the beginning of its answer.
LEMMA OngoingRight ==
  ASSUME TypeOK, NEW c \in Clients, Ongoing(c)
  PROVE  IsPrefix(conn[c].got \o conn[c].wire, dispatch_commands(conn[c].asked))
<1>1. CASE conn[c].in = <<>>
  BY <1>1, Fields, PrefixOf DEF Ongoing
<1>2. CASE conn[c].in # <<>>
  BY <1>2, Fields, Texts DEF Ongoing
<1> QED BY <1>1, <1>2

\* What the server leaves on a connection it closes.
LEMMA LeftRight ==
  ASSUME TypeOK, NEW c \in Clients, AnswerOK(c), NEW r, conn'[c] = r,
         NEW note \in Text,
         r.at = IF conn[c].at = "hung" THEN "out" ELSE "closed",
         r.wire = IF conn[c].at = "hung" THEN <<>> ELSE conn[c].wire \o note,
         r.got = conn[c].got, r.asked = conn[c].asked,
         conn[c].at \in {"queued", "open", "hung"},
         \/ note = <<>>
         \/ note = <<"busy">> /\ conn[c].at \in {"queued", "hung"}
         \/ note = <<"denied">> /\ c \notin Allowed /\ conn[c].in # <<>>
  PROVE  AnswerOK(c)'
<1> DEFINE all == conn[c].got \o conn[c].wire
<1>1. r.at \in {"out", "closed"}
  OBVIOUS
<1>2. CASE conn[c].at = "hung"
  <2>1. r.got \o r.wire = all
    BY <1>2 DEF AnswerOK
  <2>2. AnswerRight(c)'
    BY <1>2, <2>1 DEF AnswerOK, AnswerRight
  <2> QED BY <1>1, <2>2 DEF AnswerOK
<1>3. CASE conn[c].at # "hung"
  <2>1. Ongoing(c) /\ r.at = "closed" /\ r.wire = conn[c].wire \o note
    BY <1>3 DEF AnswerOK
  <2>2. r.got \o r.wire = all \o note
    <3>1. conn[c].got \in Text /\ conn[c].wire \in Text
      BY Fields
    <3>2. conn[c].got \o (conn[c].wire \o note) = (conn[c].got \o conn[c].wire) \o note
      BY <3>1, Texts
    <3> QED BY <2>1, <3>2
  <2>3. CASE note = <<>>
    <3>1. r.got \o r.wire = all
      BY <2>2, <2>3, Fields, Texts
    <3>2. AnswerRight(c)'
      BY <2>1, <3>1, OngoingRight DEF AnswerRight
    <3> QED BY <1>1, <3>2 DEF AnswerOK
  <2>4. CASE note # <<>>
    <3>1. all = <<>>
      <4>1. CASE conn[c].at = "queued"
        BY <4>1, Texts DEF AnswerOK
      <4>2. CASE conn[c].in # <<>>
        BY <2>1, <4>2 DEF Ongoing
      <4> QED BY <1>3, <2>4, <4>1, <4>2
    <3>2. r.got \o r.wire = note
      BY <2>2, <3>1, Texts
    <3>3. AnswerRight(c)'
      BY <2>1, <2>4, <3>2 DEF AnswerRight
    <3> QED BY <1>1, <3>3 DEF AnswerOK
  <2> QED BY <2>3, <2>4
<1> QED BY <1>2, <1>3

-----------------------------------------------------------------------------
(* The table *)

\* The server has its socket, the log its descriptor, and nobody is connected.
LEMMA InitIInv == Init => IInv
<1> SUFFICES ASSUME Init PROVE IInv
  OBVIOUS
<1> USE DEF Init
<1>1. TypeOK
  <2>1. EmptySlot \in Slots
    BY DEF EmptySlot, Slots, NoEvents
  <2>2. table \in [max: 0 .. MAX_POLLFD, slot: [1 .. MAX_POLLFD -> Slots]]
    BY <2>1, MaxPollAssumption DEF EmptyTable
  <2>3. pass \in [k: Nat \ {0}, n: Nat]
    BY DEF Idle
  <2>4. NoConn \in Conns
    BY Texts DEF NoConn, Conns, Text
  <2>5. NoCC \in Contexts
    BY Texts DEF NoCC, Contexts, Text
  <2>6. backlog \in Seq(Clients)
    OBVIOUS
  <2> QED BY <2>2, <2>3, <2>4, <2>5, <2>6 DEF TypeOK
<1>2. SlotsRight
  <2>1. table.max = 0
    BY DEF EmptyTable
  <2> QED BY <2>1 DEF SlotsRight
<1>3. ContextsRight
  BY DEF ContextsRight, NoCC
<1>4. PassRight
  BY DEF PassRight, Idle
<1>5. QueueRight
  BY DEF QueueRight, IsInjective, ToSet
<1>6. ASSUME NEW c \in Clients PROVE AnswerOK(c)
  <2>1. conn[c] = NoConn
    OBVIOUS
  <2>2. dispatch_commands(<<>>) \in Text
    <3>1. <<>> \in Lines
      BY DEF Lines
    <3> QED BY <3>1, DispatchFacts
  <2>3. conn[c].got \o conn[c].wire = <<>> /\ conn[c].asked = <<>> /\ conn[c].at = "out"
    BY <2>1, Texts DEF NoConn
  <2> QED BY <2>2, <2>3, Texts DEF AnswerOK, AnswerRight
<1> QED BY <1>1, <1>2, <1>3, <1>4, <1>5, <1>6, AnswersByClient DEF IInv

\* The parts of the invariant that do not speak of the pass.
LEMMA PassFrees ==
  ASSUME IInv, UNCHANGED <<status, table, backlog, conn, cc, failed>>
  PROVE  /\ SlotsRight' /\ ContextsRight' /\ QueueRight' /\ AnswersUnderWay' /\ AnswersRight'
         /\ pass' \in [k: Nat \ {0}, n: Nat] => TypeOK'
<1> USE DEF IInv
<1>1. SlotsRight'
  BY DEF SlotsRight, SlotRight
<1>2. ContextsRight' /\ QueueRight'
  BY DEF ContextsRight, QueueRight
<1>3. \A c \in Clients : AnswerOK(c)'
  BY AnswersByClient, AnswerFixed
<1>4. AnswersUnderWay' /\ AnswersRight'
  BY <1>3 DEF AnswersUnderWay, AnswersRight, AnswerOK
<1>5. pass' \in [k: Nat \ {0}, n: Nat] => TypeOK'
  BY DEF TypeOK
<1> QED BY <1>1, <1>2, <1>4, <1>5

\* A step that leaves the server and the clients alone keeps the invariant.
LEMMA SameKeeps ==
  ASSUME IInv, UNCHANGED <<status, table, pass, backlog, conn, cc, failed>>
  PROVE  IInv'
<1>1. PassRight'
  BY DEF IInv, PassRight
<1>2. pass' \in [k: Nat \ {0}, n: Nat]
  BY DEF IInv, TypeOK
<1> QED BY <1>1, <1>2, PassFrees DEF IInv

\* After a callback the pass goes on behind its slot, or ends.
LEMMA CalledRight ==
  ASSUME TypeOK, pass.n > 0, pass' = Called
  PROVE  pass' \in [k: Nat \ {0}, n: Nat] /\ (pass'.n > 0 => pass'.k = pass.k + 1)
BY DEF TypeOK, Called, Idle

\* A slot without events is passed over.
LEMMA SkipKeeps ==
  ASSUME IInv, Skip
  PROVE  IInv'
<1>1. /\ UNCHANGED <<status, table, backlog, conn, cc, failed>> /\ pass.n > 0 /\ TypeOK /\ PassRight
      /\ \/ pass' = Idle
         \/ table.slot[pass.k].revents = NoEvents /\ pass' = [pass EXCEPT !.k = @ + 1]
  BY DEF Skip, IInv
<1>2. pass' \in [k: Nat \ {0}, n: Nat] /\ (pass'.n > 0 => pass'.k = pass.k + 1)
  BY <1>1 DEF TypeOK, Idle
<1>3. PassRight'
  <2> SUFFICES ASSUME pass'.n > 0, NEW k \in 1 .. table.max, k >= pass'.k
               PROVE  LET x == table.slot[k]
                      IN  x.cb = "client_event" /\ x.revents = {POLLIN} => ~cc[x.fd].outbuf
    BY <1>1 DEF PassRight
  <2>1. k >= pass.k
    BY <1>1, <1>2 DEF TypeOK
  <2> QED BY <1>1, <2>1 DEF PassRight
<1> QED BY <1>1, <1>2, <1>3, PassFrees DEF IInv

\* process_mcefd() keeps it.
LEMMA McefdKeeps ==
  ASSUME IInv, process_mcefd
  PROVE  IInv'
<1>1. /\ UNCHANGED <<status, table, backlog, conn, cc>> /\ pass.n > 0 /\ pass' = Called
      /\ pass.k <= table.max /\ table.slot[pass.k].revents # NoEvents
      /\ table.slot[pass.k].cb = "process_mcefd" /\ failed' = (POLLIN \notin table.slot[pass.k].revents)
  BY DEF process_mcefd, AtSlot
<1>2. TypeOK /\ SlotsRight /\ PassRight
  BY DEF IInv
<1>3. pass.k \in 1 .. table.max
  BY <1>1, <1>2 DEF TypeOK
<1>4. table.slot[pass.k].revents \subseteq {POLLIN}
  BY <1>1, <1>2, <1>3 DEF SlotsRight, SlotRight
<1>5. UNCHANGED failed
  BY <1>1, <1>2, <1>4 DEF SlotsRight, NoEvents, TypeOK
<1>6. pass' \in [k: Nat \ {0}, n: Nat] /\ (pass'.n > 0 => pass'.k = pass.k + 1)
  BY <1>1, <1>2, CalledRight
<1>7. PassRight'
  <2> SUFFICES ASSUME pass'.n > 0, NEW k \in 1 .. table.max, k >= pass'.k
               PROVE  LET x == table.slot[k]
                      IN  x.cb = "client_event" /\ x.revents = {POLLIN} => ~cc[x.fd].outbuf
    BY <1>1 DEF PassRight
  <2>1. k >= pass.k
    BY <1>2, <1>6 DEF TypeOK
  <2> QED BY <1>1, <1>2, <2>1 DEF PassRight
<1> QED BY <1>1, <1>5, <1>6, <1>7, PassFrees DEF IInv

\* The first of the backlog is accepted.
LEMMA Dequeued ==
  ASSUME NEW S, NEW s \in Seq(S), s # <<>>
  PROVE  /\ Head(s) \in ToSet(s) /\ Head(s) \in S /\ Tail(s) \in Seq(S)
         /\ ToSet(Tail(s)) \subseteq ToSet(s)
         /\ IsInjective(s) => IsInjective(Tail(s)) /\ Head(s) \notin ToSet(Tail(s))
<1> DEFINE r == Tail(s)
<1>1. /\ Head(s) = s[1] /\ r \in Seq(S) /\ Len(r) = Len(s) - 1 /\ Len(s) \in Nat \ {0}
      /\ \A n \in 1 .. (Len(s) - 1) : r[n] = s[n + 1]
  BY HeadTailProperties
<1>2. DOMAIN s = 1 .. Len(s) /\ DOMAIN r = 1 .. (Len(s) - 1) /\ 1 \in 1 .. Len(s) /\ s[1] \in S
  BY <1>1
<1> HIDE DEF r
<1>3. \A n \in 1 .. (Len(s) - 1) : n + 1 \in 1 .. Len(s) /\ n + 1 # 1
  BY <1>1
<1>4. \A m, n \in 1 .. (Len(s) - 1) : m + 1 = n + 1 => m = n
  BY <1>1
<1>5. ToSet(r) \subseteq ToSet(s)
  BY <1>1, <1>2, <1>3 DEF ToSet
<1>6. ASSUME IsInjective(s) PROVE IsInjective(r) /\ s[1] \notin ToSet(r)
  <2>1. ASSUME NEW m \in 1 .. (Len(s) - 1), NEW n \in 1 .. (Len(s) - 1), r[m] = r[n] PROVE m = n
    <3>1. s[m + 1] = s[n + 1]
      BY <1>1, <2>1
    <3>2. m + 1 = n + 1
      BY <1>2, <1>3, <1>6, <3>1 DEF IsInjective
    <3> QED BY <1>4, <3>2
  <2>2. ASSUME NEW n \in 1 .. (Len(s) - 1), r[n] = s[1] PROVE FALSE
    <3>1. s[n + 1] = s[1]
      BY <1>1, <2>2
    <3> QED BY <1>2, <1>3, <1>6, <3>1 DEF IsInjective
  <2> QED BY <1>2, <2>1, <2>2 DEF IsInjective, ToSet
<1> QED BY <1>1, <1>2, <1>5, <1>6 DEF r, ToSet

Tables == [max: 0 .. MAX_POLLFD, slot: [1 .. MAX_POLLFD -> Slots]]

\* u is t with a new slot behind the others, which stay as they were.
Entered(t, u, fd, ev, f, data) ==
  /\ u \in Tables /\ u.max = t.max + 1 /\ t.max + 1 \in 1 .. MAX_POLLFD
  /\ u.slot[t.max + 1].fd = fd /\ u.slot[t.max + 1].events = ev
  /\ u.slot[t.max + 1].cb = f /\ u.slot[t.max + 1].data = data
  /\ u.slot[t.max + 1].revents = t.slot[t.max + 1].revents
  /\ \A k \in 1 .. t.max : u.slot[k] = t.slot[k]

Callbacks == {"client_accept", "process_mcefd", "client_event"}

\* register_pollcb() of a table that has room.
LEMMA Registered ==
  ASSUME NEW t \in Tables, ~Full(t), NEW fd \in Int, NEW ev \in SUBSET PollEvents,
         NEW f \in Callbacks, NEW data \in Int,
         NEW u, u = register_pollcb(t, fd, ev, f, data)
  PROVE  Entered(t, u, fd, ev, f, data)
<1> DEFINE m == t.max + 1
           x == [t.slot[m] EXCEPT !.fd = fd, !.events = ev, !.cb = f, !.data = data]
           v == [t.slot EXCEPT ![m] = x]
<1>1. u = [max |-> m, slot |-> v]
  BY DEF register_pollcb
<1>2. m \in 1 .. MAX_POLLFD /\ t.max \in 0 .. MAX_POLLFD /\ t.slot \in [1 .. MAX_POLLFD -> Slots]
  BY MaxPollAssumption DEF Full, Tables
<1>3. t.slot[m] \in Slots
  BY <1>2
<1>4. /\ x \in Slots /\ x.fd = fd /\ x.events = ev /\ x.cb = f /\ x.data = data
      /\ x.revents = t.slot[m].revents
  BY <1>3 DEF Slots, Callbacks
<1> HIDE DEF x
<1>5. /\ v \in [1 .. MAX_POLLFD -> Slots] /\ v[m] = x
      /\ \A k \in 1 .. t.max : v[k] = t.slot[k]
  <2>1. \A k \in 1 .. t.max : k # m /\ k \in 1 .. MAX_POLLFD
    BY <1>2, MaxPollAssumption
  <2> HIDE DEF m
  <2> QED BY <1>2, <1>4, <2>1
<1> HIDE DEF v
<1>6. u.max = m /\ u.slot = v
  BY <1>1
<1>7. u \in Tables
  <2>1. m \in 0 .. MAX_POLLFD
    BY <1>2, MaxPollAssumption
  <2> QED BY <1>1, <1>5, <2>1 DEF Tables
<1> QED BY <1>2, <1>4, <1>5, <1>6, <1>7 DEF Entered

\* The slot goes and those behind it move down.
LEMMA Unregistered ==
  ASSUME NEW t \in Tables, NEW i \in 1 .. t.max, NEW u, u = unregister_pollcb(t, i)
  PROVE  /\ u \in Tables /\ u.max = t.max - 1
         /\ \A k \in 1 .. (t.max - 1) : u.slot[k] = t.slot[IF k < i THEN k ELSE k + 1]
<1> DEFINE v == [k \in 1 .. MAX_POLLFD |-> IF k \in i .. (t.max - 1) THEN t.slot[k + 1] ELSE t.slot[k]]
<1>1. u = [max |-> t.max - 1, slot |-> v]
  BY DEF unregister_pollcb
<1>2. t.max \in 0 .. MAX_POLLFD /\ MAX_POLLFD \in Nat /\ t.slot \in [1 .. MAX_POLLFD -> Slots]
      /\ t.max - 1 \in 0 .. MAX_POLLFD
  BY MaxPollAssumption DEF Tables
<1>3. v \in [1 .. MAX_POLLFD -> Slots]
  BY <1>2
<1>4. \A k \in 1 .. (t.max - 1) : v[k] = t.slot[IF k < i THEN k ELSE k + 1]
  BY <1>2
<1> HIDE DEF v
<1>5. u.max = t.max - 1 /\ u.slot = v
  BY <1>1
<1>6. u \in Tables
  BY <1>1, <1>2, <1>3 DEF Tables
<1> QED BY <1>4, <1>5, <1>6

\* A slot of the server itself, or of the machine checks.
OwnSlot(x) ==
  \/ x.cb = "client_accept" /\ x.fd = -1
  \/ x.cb = "process_mcefd" /\ x.fd = -2 /\ x.revents \subseteq {POLLIN}

\* A pass starts.
LEMMA StartKeeps ==
  ASSUME IInv, Start
  PROVE  IInv'
<1> USE DEF IInv
<1>1. status = "start" /\ table = EmptyTable
      /\ UNCHANGED <<pass, backlog, conn, cc, failed>>
  BY DEF Start, SlotsRight
<1>2. table \in Tables /\ table.max = 0 /\ ~Full(EmptyTable)
  BY <1>1, MaxPollAssumption DEF TypeOK, Tables, EmptyTable, Full
<1>3. \A k \in 1 .. MAX_POLLFD : table.slot[k].revents = {}
  BY <1>1 DEF EmptyTable, EmptySlot, NoEvents
<1>4. /\ {POLLIN} \in SUBSET PollEvents /\ EmptyTable \in Tables
      /\ -1 \in Int /\ -2 \in Int /\ 0 \in Int
      /\ "client_accept" \in Callbacks /\ "process_mcefd" \in Callbacks
  BY <1>1, <1>2 DEF PollEvents, Callbacks
<1>5. \A c \in Clients : cc[c].state # "live"
  BY <1>2 DEF ContextsRight
<1>6. /\ table' \in Tables /\ status' \in {"exit", "up"}
      /\ \A k \in 1 .. table'.max : OwnSlot(table'.slot[k])
      /\ \A k, l \in 1 .. table'.max : k # l => table'.slot[k].fd # table'.slot[l].fd
  <2>1. CASE table' = table /\ status' = "exit"
    BY <1>2, <2>1
  <2>2. CASE table' = register_pollcb(EmptyTable, -2, {POLLIN}, "process_mcefd", 0) /\ status' = "up"
    <3>1. /\ table' \in Tables /\ table'.max = 1 /\ 1 \in 1 .. MAX_POLLFD
          /\ table'.slot[1].fd = -2 /\ table'.slot[1].cb = "process_mcefd"
          /\ table'.slot[1].revents = table.slot[1].revents
      <4>1. EmptyTable.max + 1 = 1
        BY <1>1, <1>2
      <4>2. Entered(EmptyTable, table', -2, {POLLIN}, "process_mcefd", 0)
        BY <1>2, <1>4, <2>2, Registered
      <4> QED BY <1>1, <4>1, <4>2 DEF Entered
    <3>2. OwnSlot(table'.slot[1])
      BY <1>3, <3>1 DEF OwnSlot
    <3> QED BY <2>2, <3>1, <3>2
  <2>3. CASE /\ table' = register_pollcb(Listening, -2, {POLLIN}, "process_mcefd", 0)
             /\ status' = "up"
    <3> DEFINE u == Listening
    <3>1. /\ u \in Tables /\ u.max = 1 /\ u.slot[1].fd = -1 /\ u.slot[1].cb = "client_accept"
      <4>1. EmptyTable.max + 1 = 1
        BY <1>1, <1>2
      <4>2. u = register_pollcb(EmptyTable, -1, {POLLIN}, "client_accept", 0)
        BY DEF Listening
      <4> HIDE DEF u
      <4>3. Entered(EmptyTable, u, -1, {POLLIN}, "client_accept", 0)
        BY <1>2, <1>4, <4>2, Registered
      <4> QED BY <1>1, <4>1, <4>3 DEF Entered
    <3>2. u.slot[2] = EmptySlot /\ ~Full(u) /\ 2 \in 1 .. MAX_POLLFD
      BY <3>1, MaxPollAssumption DEF Listening, register_pollcb, EmptyTable, Full
    <3> HIDE DEF u
    <3>3. /\ table' \in Tables /\ table'.max = 2 /\ table'.slot[1] = u.slot[1]
          /\ table'.slot[2].fd = -2 /\ table'.slot[2].cb = "process_mcefd"
          /\ table'.slot[2].revents = u.slot[2].revents
      <4>1. table' = register_pollcb(u, -2, {POLLIN}, "process_mcefd", 0) /\ u.max + 1 = 2
            /\ 1 \in 1 .. u.max
        BY <2>3, <3>1 DEF u
      <4>2. Entered(u, table', -2, {POLLIN}, "process_mcefd", 0)
        BY <1>4, <3>1, <3>2, <4>1, Registered
      <4> QED BY <3>1, <4>1, <4>2 DEF Entered
    <3>4. OwnSlot(table'.slot[1]) /\ OwnSlot(table'.slot[2])
      BY <3>1, <3>2, <3>3 DEF OwnSlot, EmptySlot, NoEvents
    <3>5. \A k \in 1 .. table'.max : k = 1 \/ k = 2
      BY <3>3
    <3> QED BY <2>3, <3>1, <3>3, <3>4, <3>5
  <2> QED BY <1>1, <2>1, <2>2, <2>3 DEF Start
<1>7. TypeOK'
  BY <1>1, <1>6 DEF TypeOK, Tables
<1>8. SlotsRight'
  BY <1>1, <1>6 DEF SlotsRight, SlotRight, OwnSlot
<1>9. ContextsRight' /\ QueueRight' /\ PassRight'
  BY <1>1, <1>5, <1>6 DEF ContextsRight, QueueRight, PassRight, OwnSlot
<1>10. AnswersUnderWay' /\ AnswersRight'
  <2>1. \A c \in Clients : AnswerOK(c)'
    BY <1>1, AnswersByClient, AnswerFixed
  <2> QED BY <2>1 DEF AnswersUnderWay, AnswersRight, AnswerOK
<1> QED BY <1>7, <1>8, <1>9, <1>10

\* poll() reports of a slot no more than it asks for, and a hangup.
LEMMA ReadyRight ==
  ASSUME IInv, NEW k \in 1 .. table.max
  PROVE  LET x == table.slot[k]
         IN  /\ Ready(x) \in SUBSET PollEvents
             /\ x.cb = "process_mcefd" => Ready(x) \subseteq {POLLIN}
             /\ x.cb = "client_event" => Ready(x) \subseteq {POLLHUP} \cup Interest(cc[x.fd])
<1> DEFINE x == table.slot[k]
<1>1. x \in Slots /\ SlotRight(x)
  <2>1. table \in Tables /\ MAX_POLLFD \in Nat
    BY MaxPollAssumption DEF IInv, TypeOK, Tables
  <2>2. k \in 1 .. MAX_POLLFD /\ table.slot \in [1 .. MAX_POLLFD -> Slots]
    BY <2>1 DEF Tables
  <2> QED BY <2>2 DEF IInv, SlotsRight
<1> HIDE DEF x
<1>2. x.cb \in {"client_accept", "process_mcefd", "client_event"}
  BY <1>1 DEF SlotRight
<1>3. x.cb = "client_event" => x.events = Interest(cc[x.fd])
  BY <1>1 DEF SlotRight
<1>4. Ready(x) \in SUBSET PollEvents
  BY <1>1, <1>2 DEF Ready, PollEvents, NoEvents, Slots
<1>5. x.cb = "process_mcefd" => Ready(x) \subseteq {POLLIN}
  BY DEF Ready, NoEvents
<1>6. x.cb = "client_event" => Ready(x) \subseteq {POLLHUP} \cup Interest(cc[x.fd])
  BY <1>3 DEF Ready
<1> QED BY <1>4, <1>5, <1>6 DEF x

\* y is slot x with these events reported.
Noted(x, y, ev) ==
  /\ y.fd = x.fd /\ y.events = x.events /\ y.cb = x.cb /\ y.data = x.data
  /\ y.revents = ev /\ y \in Slots

\* poll() changes the revents of a slot only.
LEMMA Reported ==
  ASSUME NEW x \in Slots, NEW ev \in SUBSET PollEvents, NEW y, y = [x EXCEPT !.revents = ev]
  PROVE  Noted(x, y, ev)
BY DEF Slots, Noted

\* poll() reports.
LEMMA PollKeeps ==
  ASSUME IInv, Poll
  PROVE  IInv'
<1> USE DEF IInv
<1> DEFINE ready == [k \in 1 .. table.max |-> Ready(table.slot[k])]
           t == Polled(table, ready)
<1>1. /\ UNCHANGED <<status, backlog, conn, cc, failed>> /\ status = "up" /\ table' = t
      /\ pass' = [k |-> 1, n |-> Cardinality(Happened(t))]
  BY DEF Poll, Running
<1>2. table \in Tables /\ table.max \in 0 .. MAX_POLLFD /\ MAX_POLLFD \in Nat
  BY MaxPollAssumption DEF TypeOK, Tables
<1>3. \A k \in 1 .. table.max : ready[k] = Ready(table.slot[k]) /\ ready[k] \in SUBSET PollEvents
  BY ReadyRight
<1>4. DOMAIN ready = 1 .. table.max
  OBVIOUS
<1> HIDE DEF ready
<1> DEFINE v == [k \in 1 .. MAX_POLLFD |->
                   IF k \in DOMAIN ready THEN [table.slot[k] EXCEPT !.revents = ready[k]]
                   ELSE table.slot[k]]
<1>5. t = [table EXCEPT !.slot = v]
  BY DEF Polled
<1>6. \A k \in 1 .. MAX_POLLFD : table.slot[k] \in Slots
  BY <1>2 DEF Tables
<1>7. ASSUME NEW k \in 1 .. table.max
      PROVE  /\ v[k].fd = table.slot[k].fd /\ v[k].events = table.slot[k].events
             /\ v[k].cb = table.slot[k].cb /\ v[k].data = table.slot[k].data
             /\ v[k].revents = ready[k] /\ v[k] \in Slots
  <2>1. v[k] = [table.slot[k] EXCEPT !.revents = ready[k]] /\ table.slot[k] \in Slots
    BY <1>2, <1>4, <1>6
  <2>2. ready[k] \in SUBSET PollEvents
    BY <1>3
  <2> HIDE DEF v
  <2>3. Noted(table.slot[k], v[k], ready[k])
    BY <2>1, <2>2, Reported
  <2> QED BY <2>3 DEF Noted
<1>8. v \in [1 .. MAX_POLLFD -> Slots]
  BY <1>4, <1>6, <1>7
<1> HIDE DEF v
<1>9. t \in Tables /\ t.max = table.max /\ t.slot = v
  BY <1>2, <1>5, <1>8 DEF Tables
<1> HIDE DEF t
<1>10. Cardinality(Happened(t)) \in Nat
  <2>1. Happened(t) \subseteq 1 .. table.max /\ IsFiniteSet(1 .. table.max)
    BY <1>2, <1>9, FS_Interval DEF Happened
  <2> QED BY <2>1, FS_Subset, FS_CardinalityType
<1>11. TypeOK'
  <2>1. pass' \in [k: Nat \ {0}, n: Nat]
    BY <1>1, <1>10
  <2> QED BY <1>1, <1>9, <2>1 DEF TypeOK, Tables
<1>12. SlotsRight'
  <2>1. ASSUME NEW k \in 1 .. table.max, NEW x, x = v[k] PROVE SlotRight(x)'
    <3>1. SlotRight(table.slot[k])
      BY DEF SlotsRight
    <3>2. table.slot[k].cb = "process_mcefd" => v[k].revents \subseteq {POLLIN}
      BY <1>3, <1>7, ReadyRight
    <3> QED BY <1>1, <1>7, <2>1, <3>1, <3>2 DEF SlotRight
  <2>2. \A k, l \in 1 .. table.max : k # l => v[k].fd # v[l].fd
    BY <1>7 DEF SlotsRight
  <2>3. table'.max = table.max /\ table'.slot = v /\ ~failed /\ status' # "start"
    BY <1>1, <1>9 DEF SlotsRight
  <2> QED BY <1>1, <2>1, <2>2, <2>3 DEF SlotsRight, SlotRight
<1>13. ContextsRight' /\ QueueRight'
  BY <1>1, <1>7, <1>9 DEF ContextsRight, QueueRight
<1>14. PassRight'
  <2> SUFFICES ASSUME NEW k \in 1 .. table.max, v[k].cb = "client_event", v[k].revents = {POLLIN}
               PROVE  ~cc[v[k].fd].outbuf
    BY <1>1, <1>9 DEF PassRight
  <2>1. POLLIN \in {POLLHUP} \cup Interest(cc[table.slot[k].fd])
    BY <1>3, <1>7, ReadyRight
  <2> QED BY <1>7, <2>1 DEF Interest, POLLIN, POLLOUT, POLLHUP
<1>15. AnswersUnderWay' /\ AnswersRight'
  <2>1. \A c \in Clients : AnswerOK(c)'
    BY <1>1, AnswersByClient, AnswerFixed
  <2> QED BY <2>1 DEF AnswersUnderWay, AnswersRight, AnswerOK
<1> QED BY <1>11, <1>12, <1>13, <1>14, <1>15

-----------------------------------------------------------------------------
(* The clients *)

\* A slot in use, its type and what is in it.
LEMMA SlotFacts ==
  ASSUME TypeOK, SlotsRight, NEW k \in 1 .. table.max
  PROVE  /\ table \in Tables /\ MAX_POLLFD \in Nat /\ k \in 1 .. MAX_POLLFD
         /\ table.slot[k] \in Slots /\ SlotRight(table.slot[k])
<1>1. table \in Tables /\ MAX_POLLFD \in Nat
  BY MaxPollAssumption DEF TypeOK, Tables
<1>2. k \in 1 .. MAX_POLLFD /\ table.slot \in [1 .. MAX_POLLFD -> Slots]
  BY <1>1 DEF Tables
<1> QED BY <1>1, <1>2 DEF SlotsRight

\* The slot of a client is that of a live clientcon on an open connection.
LEMMA ClientSlot ==
  ASSUME TypeOK, SlotsRight, NEW k \in 1 .. table.max, NEW c \in Clients, table.slot[k].fd = c
  PROVE  /\ table.slot[k].cb = "client_event" /\ table.slot[k].data = c
         /\ cc[c].state = "live" /\ conn[c].at \in {"open", "hung"}
         /\ table.slot[k].events = Interest(cc[c])
<1>1. SlotRight(table.slot[k])
  BY SlotFacts
<1>2. c # -1 /\ c # -2
  BY ClientsAssumption
<1> QED BY <1>1, <1>2 DEF SlotRight

\* One end of a connection changes: what has to be seen is that it stays open
\* for a client with a slot, that it queues only without one, and its answer.
LEMMA OneConnKeeps ==
  ASSUME IInv, UNCHANGED <<status, table, cc, failed>>,
         pass' \in [k: Nat \ {0}, n: Nat], PassRight',
         NEW c \in Clients, NEW r \in Conns, conn' = [conn EXCEPT ![c] = r],
         backlog' \in Seq(Clients), IsInjective(backlog'),
         ToSet(backlog') \subseteq ToSet(backlog) \cup {c},
         c \in ToSet(backlog') => r.at \in {"queued", "hung"} /\ cc[c].state # "live",
         \/ r.at = conn[c].at \/ r.at = "hung"
         \/ \A k \in 1 .. table.max : table.slot[k].fd # c,
         AnswerOK(c)'
  PROVE  IInv'
<1> USE DEF IInv
<1>1. conn \in [Clients -> Conns]
  BY DEF TypeOK
<1>2. conn'[c] = r /\ \A d \in Clients : d # c => conn'[d] = conn[d]
  BY <1>1
<1>3. TypeOK'
  BY <1>1 DEF TypeOK
<1>4. SlotsRight'
  <2>1. ASSUME NEW k \in 1 .. table.max, NEW x, x = table.slot[k] PROVE SlotRight(x)'
    <3>1. SlotRight(table.slot[k])
      BY SlotFacts
    <3>2. CASE table.slot[k].fd = c
      <4>1. conn[c].at \in {"open", "hung"}
        BY <3>2, ClientSlot
      <4>2. conn'[c].at \in {"open", "hung"}
        BY <1>2, <3>2, <4>1
      <4> QED BY <2>1, <3>1, <3>2, <4>2 DEF SlotRight
    <3>3. CASE table.slot[k].fd # c
      BY <1>2, <2>1, <3>1, <3>3 DEF SlotRight
    <3> QED BY <3>2, <3>3
  <2> QED BY <2>1 DEF SlotsRight, SlotRight
<1>5. ContextsRight'
  BY DEF ContextsRight
<1>6. QueueRight'
  <2> SUFFICES ASSUME NEW d \in ToSet(backlog')
               PROVE  conn'[d].at \in {"queued", "hung"} /\ cc'[d].state # "live"
    BY DEF QueueRight
  <2>1. CASE d = c
    BY <1>2, <2>1
  <2>2. CASE d # c
    <3>1. d \in ToSet(backlog) /\ d \in Clients
      <4>1. backlog \in Seq(Clients)
        BY DEF TypeOK
      <4>2. ToSet(backlog) \subseteq Clients
        BY <4>1 DEF ToSet
      <4>3. d \in ToSet(backlog)
        BY <2>2
      <4> QED BY <4>2, <4>3
    <3> QED BY <1>2, <2>2, <3>1 DEF QueueRight
  <2> QED BY <2>1, <2>2
<1>7. AnswersUnderWay' /\ AnswersRight'
  <2>1. \A d \in Clients : AnswerOK(d)'
    <3> SUFFICES ASSUME NEW d \in Clients PROVE AnswerOK(d)'
      OBVIOUS
    <3>1. CASE d = c
      BY <3>1
    <3>2. CASE d # c
      BY <1>2, <3>2, AnswersByClient, AnswerFixed
    <3> QED BY <3>1, <3>2
  <2> QED BY <2>1 DEF AnswersUnderWay, AnswersRight, AnswerOK
<1> QED BY <1>3, <1>4, <1>5, <1>6, <1>7

\* A step that touches neither table nor pass.
LEMMA PassSame ==
  ASSUME IInv, UNCHANGED <<table, pass, cc>>
  PROVE  pass' \in [k: Nat \ {0}, n: Nat] /\ PassRight'
BY DEF IInv, TypeOK, PassRight

\* A client connects.
LEMMA ConnectKeeps ==
  ASSUME IInv, NEW c \in Clients, Connect(c)
  PROVE  IInv'
<1> DEFINE r == [NoConn EXCEPT !.at = "queued"]
<1>1. /\ UNCHANGED <<status, table, pass, cc, failed>>
      /\ conn' = [conn EXCEPT ![c] = r] /\ backlog' = Append(backlog, c)
      /\ conn[c].at \in {"out", "closed"} /\ \A k \in 1 .. table.max : table.slot[k].fd # c
  BY DEF Connect
<1>2. /\ r \in Conns /\ r.at = "queued" /\ r.in = <<>> /\ r.asked = <<>>
      /\ r.wire = <<>> /\ r.got = <<>>
  <2>1. <<>> \in Seq(Pieces) /\ <<>> \in Seq(DOMAIN Commands)
    BY Texts DEF Text
  <2> QED BY <2>1 DEF NoConn, Conns
<1> HIDE DEF r
<1>3. TypeOK /\ backlog \in Seq(Clients) /\ conn \in [Clients -> Conns] /\ cc \in [Clients -> Contexts]
  BY DEF IInv, TypeOK
<1>4. c \notin ToSet(backlog) /\ IsInjective(backlog)
  BY <1>1 DEF IInv, QueueRight
<1>5. /\ backlog' \in Seq(Clients) /\ ToSet(backlog') = ToSet(backlog) \cup {c}
      /\ IsInjective(backlog')
  BY <1>1, <1>3, <1>4, Added, AppendProperties
<1>6. cc[c].state # "live" /\ cc[c].out = <<>>
  BY <1>1 DEF IInv, ContextsRight
<1>7. conn'[c] = r
  BY <1>1, <1>3
<1>8. AnswerOK(c)'
  <2>1. dispatch_commands(<<>>) = <<>>
    <3>1. <<>> \in Lines
      BY DEF Lines
    <3> QED BY <3>1, DispatchFacts
  <2>2. conn'[c].got \o conn'[c].wire = <<>> /\ <<>> \o cc'[c].out = <<>>
    BY <1>1, <1>2, <1>6, <1>7, Texts
  <2>3. IsPrefix(<<>>, <<>>)
    BY Texts
  <2>4. Ongoing(c)'
    BY <1>2, <1>7, <2>1, <2>2 DEF Ongoing
  <2>5. AnswerRight(c)'
    BY <1>2, <1>7, <2>1, <2>2, <2>3 DEF AnswerRight
  <2> QED BY <1>2, <1>7, <2>4, <2>5 DEF AnswerOK
<1>9. pass' \in [k: Nat \ {0}, n: Nat] /\ PassRight'
  BY <1>1, PassSame
<1> QED BY <1>1, <1>2, <1>5, <1>6, <1>8, <1>9, OneConnKeeps

\* A client sends its commands.
LEMMA AskKeeps ==
  ASSUME IInv, NEW c \in Clients, Ask(c)
  PROVE  IInv'
<1>1. PICK cmds \in Scripts : conn' = [conn EXCEPT ![c] = [conn[c] EXCEPT !.asked = cmds, !.in = cmds]]
  BY DEF Ask
<1>2. /\ UNCHANGED <<status, table, pass, backlog, cc, failed>>
      /\ conn[c].at \in {"queued", "open"} /\ conn[c].asked = <<>>
  BY DEF Ask
<1> DEFINE r == [conn[c] EXCEPT !.asked = cmds, !.in = cmds]
<1>3. TypeOK /\ backlog \in Seq(Clients) /\ conn \in [Clients -> Conns]
  BY DEF IInv, TypeOK
<1>4. conn[c] \in Conns /\ cmds \in Lines
  BY <1>3, ClientsAssumption DEF Lines
<1>5. /\ r \in Conns /\ r.at = conn[c].at /\ r.in = cmds /\ r.asked = cmds
      /\ r.wire = conn[c].wire /\ r.got = conn[c].got
  BY <1>4 DEF Conns, Lines
<1>6. conn'[c] = r
  BY <1>1, <1>3
<1> HIDE DEF r
<1>7. AnswerOK(c) /\ Ongoing(c)
  <2>1. AnswerOK(c)
    BY AnswersByClient DEF IInv
  <2> QED BY <1>2, <2>1 DEF AnswerOK
<1>8. conn[c].got \o conn[c].wire = <<>> /\ cc[c].out = <<>>
  <2>1. CASE conn[c].in = <<>>
    <3>1. (conn[c].got \o conn[c].wire) \o cc[c].out = dispatch_commands(<<>>)
      BY <1>2, <1>7, <2>1 DEF Ongoing
    <3>2. dispatch_commands(<<>>) = <<>>
      <4>1. <<>> \in Lines
        BY DEF Lines
      <4> QED BY <4>1, DispatchFacts
    <3>3. conn[c].got \o conn[c].wire \in Text /\ cc[c].out \in Text
      BY <1>3, Fields
    <3> HIDE DEF Text
    <3>4. (conn[c].got \o conn[c].wire) \o cc[c].out = <<>>
      BY <3>1, <3>2
    <3> QED BY <3>3, <3>4, EmptyText
  <2>2. CASE conn[c].in # <<>>
    BY <1>2, <1>7, <2>2 DEF Ongoing
  <2> QED BY <2>1, <2>2
<1>9. AnswerOK(c)'
  <2>1. dispatch_commands(cmds) \in Text /\ (cmds = <<>> => dispatch_commands(cmds) = <<>>)
    BY <1>4, DispatchFacts
  <2>2. r.got \o r.wire = <<>> /\ <<>> \o cc'[c].out = <<>> /\ cc'[c].out = <<>>
    BY <1>2, <1>5, <1>8, Texts
  <2>3. Ongoing(c)'
    BY <1>5, <1>6, <2>1, <2>2 DEF Ongoing
  <2>4. AnswerRight(c)'
    BY <1>5, <1>6, <2>1, <2>2, Texts DEF AnswerRight
  <2> QED BY <1>2, <1>5, <1>6, <1>7, <2>3, <2>4 DEF AnswerOK
<1>10. pass' \in [k: Nat \ {0}, n: Nat] /\ PassRight'
  BY <1>2, PassSame
<1>11. /\ IsInjective(backlog)
       /\ c \in ToSet(backlog) => conn[c].at \in {"queued", "hung"} /\ cc[c].state # "live"
  BY DEF IInv, QueueRight
<1>12. conn' = [conn EXCEPT ![c] = r]
  BY <1>1 DEF r
<1> QED BY <1>2, <1>3, <1>5, <1>9, <1>10, <1>11, <1>12, OneConnKeeps

\* A client reads.
LEMMA ReadKeeps ==
  ASSUME IInv, NEW c \in Clients, Read(c)
  PROVE  IInv'
<1> DEFINE w == conn[c].wire
           b == conn[c].returned \/ IsSuffix(<<"do", "ne">>, w)
           r == [conn[c] EXCEPT !.wire = <<>>, !.got = conn[c].got \o w, !.chunk = w, !.returned = b]
<1>1. /\ UNCHANGED <<status, table, pass, backlog, cc, failed>>
      /\ conn' = [conn EXCEPT ![c] = r] /\ w # <<>>
  <2>1. UNCHANGED <<status, table, pass, backlog, cc, failed>>
    BY DEF Read
  <2>2. w # <<>>
    BY DEF Read
  <2>3. conn' = [conn EXCEPT ![c] = r]
    BY DEF Read
  <2> QED BY <2>1, <2>2, <2>3
<1>2. TypeOK /\ backlog \in Seq(Clients) /\ conn \in [Clients -> Conns]
  BY DEF IInv, TypeOK
<1>3. conn[c] \in Conns /\ w \in Text /\ conn[c].got \in Text /\ conn[c].got \o w \in Text
      /\ <<>> \in Text /\ b \in BOOLEAN
  BY <1>2, Fields, Texts
<1> HIDE DEF b, w
<1>4. /\ r \in Conns /\ r.at = conn[c].at /\ r.in = conn[c].in /\ r.asked = conn[c].asked
      /\ r.wire = <<>> /\ r.got = conn[c].got \o w
  BY <1>3 DEF Conns, Text
<1>5. conn'[c] = r
  BY <1>1, <1>2
<1> HIDE DEF r
<1>6. AnswerOK(c)
  BY AnswersByClient DEF IInv
<1>7. AnswerOK(c)'
  <2>1. r.got \o r.wire = conn[c].got \o w
    BY <1>3, <1>4, Texts
  <2>2. conn[c].at # "queued"
    BY <1>1, <1>6 DEF AnswerOK, w
  <2>3. Ongoing(c) => Ongoing(c)'
    BY <1>1, <1>4, <1>5, <2>1 DEF Ongoing, w
  <2>4. AnswerRight(c) => AnswerRight(c)'
    BY <1>4, <1>5, <2>1 DEF AnswerRight, w
  <2> QED BY <1>4, <1>5, <1>6, <2>2, <2>3, <2>4 DEF AnswerOK
<1>8. pass' \in [k: Nat \ {0}, n: Nat] /\ PassRight'
  BY <1>1, PassSame
<1>9. /\ IsInjective(backlog)
      /\ c \in ToSet(backlog) => conn[c].at \in {"queued", "hung"} /\ cc[c].state # "live"
  BY DEF IInv, QueueRight
<1> QED BY <1>1, <1>2, <1>4, <1>7, <1>8, <1>9, OneConnKeeps

\* A client leaves.
LEMMA HangupKeeps ==
  ASSUME IInv, NEW c \in Clients, Hangup(c)
  PROVE  IInv'
<1> DEFINE r == [conn[c] EXCEPT !.at = "hung", !.wire = <<>>]
<1>1. /\ UNCHANGED <<status, table, pass, backlog, cc, failed>>
      /\ conn' = [conn EXCEPT ![c] = r] /\ conn[c].at \in {"queued", "open"}
  BY DEF Hangup
<1>2. TypeOK /\ backlog \in Seq(Clients) /\ conn \in [Clients -> Conns]
  BY DEF IInv, TypeOK
<1>3. conn[c] \in Conns /\ <<>> \in Text
  BY <1>2, Texts
<1>4. /\ r \in Conns /\ r.at = "hung" /\ r.in = conn[c].in /\ r.asked = conn[c].asked
      /\ r.wire = <<>> /\ r.got = conn[c].got
  BY <1>3 DEF Conns, Text
<1>5. conn'[c] = r
  BY <1>1, <1>2
<1> HIDE DEF r
<1>6. Ongoing(c)
  <2>1. AnswerOK(c)
    BY AnswersByClient DEF IInv
  <2> QED BY <1>1, <2>1 DEF AnswerOK
<1>7. IsPrefix(conn[c].got, dispatch_commands(conn[c].asked))
  <2>1. /\ conn[c].got \in Text /\ conn[c].wire \in Text /\ cc[c].out \in Text
        /\ dispatch_commands(conn[c].asked) \in Text
    BY <1>2, Fields
  <2>2. CASE conn[c].in = <<>>
    <3>1. conn[c].got \o (conn[c].wire \o cc[c].out) = dispatch_commands(conn[c].asked)
      <4>1. (conn[c].got \o conn[c].wire) \o cc[c].out = dispatch_commands(conn[c].asked)
        BY <1>6, <2>2 DEF Ongoing
      <4> QED BY <2>1, <4>1, Texts
    <3>2. conn[c].wire \o cc[c].out \in Text
      BY <2>1, Texts
    <3> QED BY <2>1, <3>1, <3>2, PrefixOf
  <2>3. CASE conn[c].in # <<>>
    <3>1. conn[c].got = <<>>
      <4>1. conn[c].got \o conn[c].wire = <<>>
        BY <1>6, <2>3 DEF Ongoing
      <4> QED BY <2>1, <4>1, EmptyText
    <3> QED BY <2>1, <3>1, Texts
  <2> QED BY <2>2, <2>3
<1>8. AnswerOK(c)'
  <2>1. r.got \o r.wire = conn[c].got
    BY <1>2, <1>4, Fields, Texts
  <2> QED BY <1>4, <1>5, <1>7, <2>1 DEF AnswerOK, AnswerRight
<1>9. pass' \in [k: Nat \ {0}, n: Nat] /\ PassRight'
  BY <1>1, PassSame
<1>10. /\ IsInjective(backlog)
       /\ c \in ToSet(backlog) => conn[c].at \in {"queued", "hung"} /\ cc[c].state # "live"
  BY DEF IInv, QueueRight
<1> QED BY <1>1, <1>2, <1>4, <1>8, <1>9, <1>10, OneConnKeeps

-----------------------------------------------------------------------------
(* The callbacks of the server *)

\* The slots that the pass still has to visit are as they were.
LEMMA PassRest ==
  ASSUME TypeOK, PassRight, pass.n > 0, pass' = Called,
         \A k \in 1 .. table'.max : k > pass.k =>
           \/ table'.slot[k].cb # "client_event" \/ ~cc'[table'.slot[k].fd].outbuf
           \/ \E l \in 1 .. table.max :
                /\ l >= pass.k /\ table'.slot[k] = table.slot[l]
                /\ cc'[table.slot[l].fd] = cc[table.slot[l].fd]
  PROVE  pass' \in [k: Nat \ {0}, n: Nat] /\ PassRight'
<1>1. pass' \in [k: Nat \ {0}, n: Nat] /\ (pass'.n > 0 => pass'.k = pass.k + 1)
  BY CalledRight
<1>2. ASSUME pass'.n > 0, NEW k \in 1 .. table'.max, k >= pass'.k,
             table'.slot[k].cb = "client_event", table'.slot[k].revents = {POLLIN}
      PROVE  ~cc'[table'.slot[k].fd].outbuf
  <2>1. table' = table' /\ k > pass.k
    <3>1. k \in Int /\ pass.k \in Int
      BY DEF TypeOK
    <3> QED BY <1>1, <1>2, <3>1
  <2>2. CASE ~cc'[table'.slot[k].fd].outbuf
    BY <2>2
  <2>3. CASE \E l \in 1 .. table.max :
                /\ l >= pass.k /\ table'.slot[k] = table.slot[l]
                /\ cc'[table.slot[l].fd] = cc[table.slot[l].fd]
    <3>1. PICK l \in 1 .. table.max :
                /\ l >= pass.k /\ table'.slot[k] = table.slot[l]
                /\ cc'[table.slot[l].fd] = cc[table.slot[l].fd]
      BY <2>3
    <3> QED BY <1>2, <3>1 DEF PassRight
  <2> QED BY <1>2, <2>1, <2>2, <2>3
<1> QED BY <1>1, <1>2 DEF PassRight

\* The connection of a client that the server gave up.
LEMMA LeftConns ==
  ASSUME NEW co \in Conns, NEW note \in Text
  PROVE  /\ Left(co, note) \in Conns
         /\ Left(co, note).at = IF co.at = "hung" THEN "out" ELSE "closed"
         /\ Left(co, note).wire = IF co.at = "hung" THEN <<>> ELSE co.wire \o note
         /\ Left(co, note).got = co.got /\ Left(co, note).asked = co.asked
         /\ Left(co, note).in = co.in
<1>1. co.wire \o note \in Seq(Pieces) /\ <<>> \in Seq(Pieces)
  BY Texts DEF Conns, Text
<1>2. CASE co.at = "hung"
  BY <1>1, <1>2 DEF Left, Conns
<1>3. CASE co.at # "hung"
  BY <1>1, <1>3 DEF Left, Conns
<1> QED BY <1>2, <1>3

\* client_accept() keeps it.
LEMMA AcceptKeeps ==
  ASSUME IInv, client_accept
  PROVE  IInv'
<1>1. /\ UNCHANGED <<status, failed>> /\ pass' = Called /\ pass.n > 0
      /\ pass.k <= table.max
  BY DEF client_accept, AtSlot
<1>2. TypeOK /\ SlotsRight /\ PassRight /\ QueueRight /\ ContextsRight
  BY DEF IInv
<1>3. /\ backlog \in Seq(Clients) /\ conn \in [Clients -> Conns] /\ cc \in [Clients -> Contexts]
      /\ table \in Tables /\ MAX_POLLFD \in Nat /\ table.max \in 0 .. MAX_POLLFD
  BY <1>2, MaxPollAssumption DEF TypeOK, Tables
<1>4. CASE UNCHANGED <<table, cc>>
  <2>1. pass' \in [k: Nat \ {0}, n: Nat] /\ PassRight'
    <3>1. \A k \in 1 .. table'.max : k > pass.k =>
            /\ k \in 1 .. table.max /\ k >= pass.k /\ table'.slot[k] = table.slot[k]
            /\ cc'[table.slot[k].fd] = cc[table.slot[k].fd]
      BY <1>3, <1>4, <1>2 DEF TypeOK
    <3> QED BY <1>1, <1>2, <3>1, PassRest
  <2>2. CASE UNCHANGED <<backlog, conn>>
    BY <1>1, <1>4, <2>1, <2>2, PassFrees DEF IInv
  <2>3. CASE /\ backlog # <<>> /\ backlog' = Tail(backlog)
             /\ \E note \in {<<>>, <<"busy">>} :
                  conn' = [conn EXCEPT ![Head(backlog)] = Left(conn[Head(backlog)], note)]
    <3>1. PICK c : c = Head(backlog)
      OBVIOUS
    <3>2. /\ c \in ToSet(backlog) /\ c \in Clients /\ backlog' \in Seq(Clients)
          /\ ToSet(backlog') \subseteq ToSet(backlog) /\ IsInjective(backlog')
          /\ c \notin ToSet(backlog')
      BY <1>2, <1>3, <2>3, <3>1, Dequeued DEF QueueRight
    <3>3. conn[c].at \in {"queued", "hung"} /\ cc[c].state # "live"
      BY <1>2, <3>2 DEF QueueRight
    <3>4. PICK note \in {<<>>, <<"busy">>} : conn' = [conn EXCEPT ![c] = Left(conn[c], note)]
      BY <2>3, <3>1
    <3>5. note \in Text /\ conn[c] \in Conns
      <4>1. <<>> \in Text /\ <<"busy">> \in Text
        BY Texts
      <4> QED BY <1>3, <3>2, <3>4, <4>1
    <3> DEFINE r == Left(conn[c], note)
    <3>6. /\ r \in Conns /\ r.at = IF conn[c].at = "hung" THEN "out" ELSE "closed"
          /\ r.wire = IF conn[c].at = "hung" THEN <<>> ELSE conn[c].wire \o note
          /\ r.got = conn[c].got /\ r.asked = conn[c].asked /\ r.in = conn[c].in
      BY <3>5, LeftConns
    <3>7. conn' = [conn EXCEPT ![c] = r] /\ conn'[c] = r
      BY <1>3, <3>2, <3>4
    <3> HIDE DEF r
    <3>8. AnswerOK(c)
      BY <3>2, AnswersByClient DEF IInv
    <3>9. AnswerOK(c)'
      <4>1. conn[c].at \in {"queued", "open", "hung"}
        BY <3>3
      <4>2. \/ note = <<>>
            \/ note = <<"busy">> /\ conn[c].at \in {"queued", "hung"}
            \/ note = <<"denied">> /\ c \notin Allowed /\ conn[c].in # <<>>
        BY <3>3, <3>4
      <4> QED BY <1>2, <3>2, <3>5, <3>6, <3>7, <3>8, <4>1, <4>2, LeftRight
    <3>10. \A k \in 1 .. table.max : table.slot[k].fd # c
      BY <1>2, <3>2, <3>3, ClientSlot
    <3>11. UNCHANGED <<status, table, cc, failed>>
      BY <1>1, <1>4
    <3>12. /\ ToSet(backlog') \subseteq ToSet(backlog) \cup {c}
           /\ c \in ToSet(backlog') => r.at \in {"queued", "hung"} /\ cc[c].state # "live"
      BY <3>2
    <3>13. conn' = [conn EXCEPT ![c] = r] /\ c \in Clients /\ r \in Conns
           /\ backlog' \in Seq(Clients) /\ IsInjective(backlog')
      BY <3>2, <3>6, <3>7
    <3> QED BY <2>1, <3>9, <3>10, <3>11, <3>12, <3>13, OneConnKeeps
  <2>4. CASE backlog = <<>>
    BY <2>2, <2>4 DEF client_accept
  <2>5. CASE backlog # <<>>
    <3> DEFINE c == Head(backlog)
    <3>1. backlog' = Tail(backlog)
      BY <2>5 DEF client_accept
    <3>2. CASE \E note \in {<<>>, <<"busy">>} : conn' = [conn EXCEPT ![c] = Left(@, note)]
      BY <2>3, <2>5, <3>1, <3>2
    <3>3. CASE table' = register_pollcb(table, c, {POLLIN}, "client_event", c)
      <4>1. table'.max = table.max + 1
        BY <3>3 DEF register_pollcb
      <4> QED BY <1>3, <1>4, <4>1
    <3> QED BY <2>5, <3>2, <3>3 DEF client_accept
  <2> QED BY <2>4, <2>5
<1>5. CASE /\ backlog # <<>> /\ backlog' = Tail(backlog) /\ ~Full(table)
           /\ table' = register_pollcb(table, Head(backlog), {POLLIN}, "client_event", Head(backlog))
           /\ cc' = [cc EXCEPT ![Head(backlog)] = [NoCC EXCEPT !.state = "live"]]
           /\ conn' = [conn EXCEPT ![Head(backlog)].at = IF @ = "queued" THEN "open" ELSE @]
  <2>1. PICK c : c = Head(backlog)
    OBVIOUS
  <2> DEFINE d == [NoCC EXCEPT !.state = "live"]
             r == [conn[c] EXCEPT !.at = IF @ = "queued" THEN "open" ELSE @]
             m == table.max + 1
  <2>2. /\ c \in ToSet(backlog) /\ c \in Clients /\ backlog' \in Seq(Clients)
        /\ ToSet(backlog') \subseteq ToSet(backlog) /\ IsInjective(backlog')
        /\ c \notin ToSet(backlog')
    BY <1>2, <1>3, <1>5, <2>1, Dequeued DEF QueueRight
  <2>3. /\ table' = register_pollcb(table, c, {POLLIN}, "client_event", c)
        /\ cc' = [cc EXCEPT ![c] = d] /\ conn' = [conn EXCEPT ![c] = r]
    BY <1>5, <2>1
  <2>4. conn[c].at \in {"queued", "hung"} /\ cc[c].state # "live" /\ conn[c] \in Conns
    BY <1>2, <1>3, <2>2 DEF QueueRight
  <2>5. /\ r \in Conns /\ r.at = IF conn[c].at = "hung" THEN "hung" ELSE "open"
        /\ r.wire = conn[c].wire /\ r.in = conn[c].in
        /\ r.got = conn[c].got /\ r.asked = conn[c].asked
    BY <2>4 DEF Conns
  <2>6. d \in Contexts /\ d.state = "live" /\ d.out = <<>> /\ d.outbuf = FALSE
    <3>1. <<>> \in Seq(Pieces)
      BY Texts DEF Text
    <3> QED BY <3>1 DEF Contexts, NoCC
  <2> HIDE DEF d, r
  <2>7. /\ conn'[c] = r /\ \A x \in Clients : x # c => conn'[x] = conn[x]
        /\ cc'[c] = d /\ \A x \in Clients : x # c => cc'[x] = cc[x]
        /\ conn' \in [Clients -> Conns] /\ cc' \in [Clients -> Contexts]
    BY <1>3, <2>2, <2>3, <2>5, <2>6
  <2>8. Entered(table, table', c, {POLLIN}, "client_event", c)
    <3>1. c \in Int /\ {POLLIN} \in SUBSET PollEvents /\ "client_event" \in Callbacks
      BY <2>2, ClientsAssumption DEF PollEvents, Callbacks
    <3> QED BY <1>3, <1>5, <2>3, <3>1, Registered
  <2>9. /\ table' \in Tables /\ table'.max = m /\ m \in 1 .. MAX_POLLFD
        /\ table'.slot[m].fd = c /\ table'.slot[m].events = {POLLIN}
        /\ table'.slot[m].cb = "client_event" /\ table'.slot[m].data = c
        /\ \A k \in 1 .. table.max : table'.slot[k] = table.slot[k]
    BY <2>8 DEF Entered
  <2>10. \A k \in 1 .. table'.max : k = m \/ k \in 1 .. table.max
    BY <1>3, <2>9
  <2>11. \A k \in 1 .. table.max : k \in 1 .. m /\ k # m
    BY <1>3
  <2> HIDE DEF m
  <2>12. \A k \in 1 .. table.max : table.slot[k].fd # c
    BY <1>2, <2>2, <2>4, ClientSlot
  <2>13. TypeOK'
    <3>1. pass' \in [k: Nat \ {0}, n: Nat]
      BY <1>1, <1>2, CalledRight
    <3> QED BY <1>1, <1>2, <2>2, <2>7, <2>9, <3>1 DEF TypeOK, Tables
  <2>14. SlotsRight'
    <3>1. ASSUME NEW k \in 1 .. table'.max, NEW x, x = table'.slot[k] PROVE SlotRight(x)'
      <4>1. CASE k = m
        BY <2>2, <2>4, <2>5, <2>6, <2>7, <2>9, <3>1, <4>1 DEF SlotRight, Interest
      <4>2. CASE k # m
        <5>1. k \in 1 .. table.max /\ x = table.slot[k]
          BY <2>9, <2>10, <3>1, <4>2
        <5>2. SlotRight(table.slot[k]) /\ table.slot[k].fd # c
          BY <1>2, <2>12, <5>1, SlotFacts
        <5> QED BY <2>7, <5>1, <5>2 DEF SlotRight
      <4> QED BY <4>1, <4>2
    <3>2. \A k, l \in 1 .. table'.max : k # l => table'.slot[k].fd # table'.slot[l].fd
      BY <1>2, <2>9, <2>10, <2>12 DEF SlotsRight
    <3>3. ~failed' /\ status' # "start"
      BY <1>1, <1>2, <2>11 DEF SlotsRight, client_accept, AtSlot, Running
    <3> QED BY <3>1, <3>2, <3>3 DEF SlotsRight, SlotRight
  <2>15. ContextsRight'
    <3> SUFFICES ASSUME NEW x \in Clients
                 PROVE  /\ cc'[x].state = "live" => \E k \in 1 .. table'.max : table'.slot[k].fd = x
                        /\ cc'[x].state # "live" => ~cc'[x].outbuf
                        /\ ~cc'[x].outbuf => cc'[x].out = <<>>
      BY DEF ContextsRight
    <3>1. CASE x = c
      <4>1. m \in 1 .. table'.max
        BY <2>9
      <4> QED BY <2>6, <2>7, <2>9, <3>1, <4>1
    <3>2. CASE x # c
      <4>1. cc'[x] = cc[x]
        BY <2>7, <3>2
      <4>2. (\E k \in 1 .. table.max : table.slot[k].fd = x)
               => \E k \in 1 .. table'.max : table'.slot[k].fd = x
        BY <2>9, <2>11
      <4> QED BY <1>2, <4>1, <4>2 DEF ContextsRight
    <3> QED BY <3>1, <3>2
  <2>16. PassRight'
    <3>1. ASSUME NEW k \in 1 .. table'.max, k > pass.k
          PROVE  \/ ~cc'[table'.slot[k].fd].outbuf
                 \/ /\ k \in 1 .. table.max /\ k >= pass.k /\ table'.slot[k] = table.slot[k]
                    /\ cc'[table.slot[k].fd] = cc[table.slot[k].fd] \/ table.slot[k].cb # "client_event"
      <4>1. CASE k = m
        BY <2>6, <2>7, <2>9, <4>1
      <4>2. CASE k # m
        <5>1. k \in 1 .. table.max /\ table'.slot[k] = table.slot[k] /\ table.slot[k].fd # c
          BY <2>9, <2>10, <2>12, <4>2
        <5>2. SlotRight(table.slot[k])
          BY <1>2, <5>1, SlotFacts
        <5>3. table.slot[k].cb = "client_event" => table.slot[k].fd \in Clients
          BY <5>2 DEF SlotRight
        <5>4. k >= pass.k
          BY <1>2, <3>1 DEF TypeOK
        <5> QED BY <2>7, <5>1, <5>3, <5>4
      <4> QED BY <4>1, <4>2
    <3> QED BY <1>1, <1>2, <3>1, PassRest
  <2>17. QueueRight'
    <3> SUFFICES ASSUME NEW x \in ToSet(backlog')
                 PROVE  conn'[x].at \in {"queued", "hung"} /\ cc'[x].state # "live"
      BY <2>2 DEF QueueRight
    <3>1. ToSet(backlog) \subseteq Clients
      BY <1>3 DEF ToSet
    <3>2. x \in ToSet(backlog) /\ x # c /\ x \in Clients
      BY <2>2, <3>1
    <3> QED BY <1>2, <2>7, <3>2 DEF QueueRight
  <2>18. AnswersUnderWay' /\ AnswersRight'
    <3>1. ASSUME NEW x \in Clients PROVE AnswerOK(x)'
      <4>1. AnswerOK(x)
        BY AnswersByClient DEF IInv
      <4>2. CASE x # c
        BY <2>7, <4>1, <4>2, AnswerFixed
      <4>3. CASE x = c
        <5>1. cc'[c].out = cc[c].out
          BY <1>2, <2>2, <2>4, <2>6, <2>7 DEF ContextsRight
        <5>2. conn'[c].at = IF conn[c].at = "hung" THEN "hung" ELSE "open"
          BY <2>5, <2>7
        <5>3. AnswerOK(c)
          BY <4>1, <4>3
        <5>4. conn[c].at = "queued" => Ongoing(c)'
          BY <2>5, <2>7, <5>1, <5>3 DEF AnswerOK, Ongoing
        <5>5. AnswerRight(c)'
          BY <2>4, <2>5, <2>7, <5>3 DEF AnswerOK, AnswerRight
        <5>6. AnswerOK(c)'
          BY <2>4, <2>5, <2>7, <5>2, <5>3, <5>4, <5>5 DEF AnswerOK
        <5> QED BY <4>3, <5>6
      <4> QED BY <4>2, <4>3
    <3> QED BY <3>1 DEF AnswersUnderWay, AnswersRight, AnswerOK
  <2> QED BY <2>13, <2>14, <2>15, <2>16, <2>17, <2>18 DEF IInv
<1> QED BY <1>4, <1>5 DEF client_accept

\* What is sent and what is left make up what was to be sent.
LEMMA Cut ==
  ASSUME NEW out \in Text, NEW n \in 0 .. Len(out)
  PROVE  /\ SubSeq(out, 1, n) \in Text /\ SubSeq(out, n + 1, Len(out)) \in Text
         /\ SubSeq(out, 1, n) \o SubSeq(out, n + 1, Len(out)) = out
<1>1. Len(out) \in Nat /\ \A i \in 1 .. Len(out) : out[i] \in Pieces
  BY DEF Text
<1>2. SubSeq(out, 1, n) \in Text
  <2>1. 1 \in Int /\ n \in Int /\ \A i \in 1 .. n : out[i] \in Pieces
    BY <1>1
  <2> QED BY <2>1, SubSeqProperties DEF Text
<1>3. SubSeq(out, n + 1, Len(out)) \in Text
  <2>1. n + 1 \in Int /\ Len(out) \in Int /\ \A i \in n + 1 .. Len(out) : out[i] \in Pieces
    BY <1>1
  <2> QED BY <2>1, SubSeqProperties DEF Text
<1>4. SubSeq(out, 1, n) \o SubSeq(out, n + 1, Len(out)) = out
  <2>1. 1 \in 1 .. Len(out) + 1 /\ n \in 1 - 1 .. Len(out) /\ Len(out) \in n .. Len(out)
    BY <1>1
  <2>2. SubSeq(out, 1, n) \o SubSeq(out, n + 1, Len(out)) = SubSeq(out, 1, Len(out))
    BY <2>1, ConcatAdjacentSubSeq DEF Text
  <2> QED BY <2>2, SubSeqFull DEF Text
<1> QED BY <1>2, <1>3, <1>4

\* The clientcon after n pieces were sent.
LEMMA SentFacts ==
  ASSUME NEW d \in Contexts, ~d.outbuf => d.out = <<>>, NEW n \in 0 .. Len(d.out),
         NEW e, e = Sent(d, n)
  PROVE  /\ e \in Contexts /\ e.state = d.state /\ (~e.outbuf => e.out = <<>>)
         /\ SubSeq(d.out, 1, n) \in Text /\ SubSeq(d.out, 1, n) \o e.out = d.out
<1> DEFINE rest == SubSeq(d.out, n + 1, Len(d.out))
<1>1. d.out \in Text
  BY DEF Contexts, Text
<1>2. SubSeq(d.out, 1, n) \in Text /\ rest \in Text /\ SubSeq(d.out, 1, n) \o rest = d.out
  BY <1>1, Cut
<1>3. e = [d EXCEPT !.out = rest, !.outbuf = d.outbuf /\ rest # <<>>]
  BY DEF Sent
<1> HIDE DEF rest
<1>4. /\ e \in Contexts /\ e.state = d.state /\ e.out = rest
      /\ e.outbuf = (d.outbuf /\ rest # <<>>)
  BY <1>2, <1>3 DEF Contexts, Text
<1>5. d.out = <<>> => rest = <<>>
  BY <1>2, EmptyText
<1> QED BY <1>2, <1>4, <1>5

\* The clientcon after its commands were read.
LEMMA AnsweredFacts ==
  ASSUME TypeOK, NEW c \in Clients, NEW d \in Contexts, NEW e, e = Answered(c, d)
  PROVE  /\ e \in Contexts /\ e.state = d.state /\ e.outbuf
         /\ e.out = dispatch_commands(conn[c].in)
<1>1. dispatch_commands(conn[c].in) \in Text
  BY Fields, DispatchFacts
<1> QED BY <1>1 DEF Answered, Contexts, Text

\* client_event() keeps the connection: its clientcon, the events of its slot
\* and its end of the connection change, and the others have other clients.
LEMMA KeptKeeps ==
  ASSUME IInv, UNCHANGED <<status, failed, backlog>>, status # "start",
         pass.n > 0, pass' = Called,
         NEW i \in 1 .. table.max, i = pass.k, NEW c \in Clients, table.slot[i].fd = c,
         NEW e \in Contexts, e.state = "live", ~e.outbuf => e.out = <<>>,
         cc' = [cc EXCEPT ![c] = e],
         table' = [table EXCEPT !.slot[i].events = Interest(e)],
         NEW r \in Conns, r.at = conn[c].at, conn' = [conn EXCEPT ![c] = r],
         AnswerOK(c)'
  PROVE  IInv'
<1>1. TypeOK /\ SlotsRight /\ PassRight /\ QueueRight /\ ContextsRight
  BY DEF IInv
<1>2. /\ table \in Tables /\ MAX_POLLFD \in Nat /\ i \in 1 .. MAX_POLLFD
      /\ table.slot[i] \in Slots /\ SlotRight(table.slot[i])
  BY <1>1, SlotFacts
<1>3. /\ table.slot[i].cb = "client_event" /\ table.slot[i].data = c
      /\ cc[c].state = "live" /\ conn[c].at \in {"open", "hung"}
  BY <1>1, ClientSlot
<1> DEFINE y == [table.slot[i] EXCEPT !.events = Interest(e)]
           v == [table.slot EXCEPT ![i] = y]
<1>4. Interest(e) \in SUBSET PollEvents
  BY DEF Interest, PollEvents
<1>5. /\ y \in Slots /\ y.fd = c /\ y.cb = "client_event" /\ y.data = c
      /\ y.events = Interest(e) /\ y.revents = table.slot[i].revents
  BY <1>2, <1>3, <1>4 DEF Slots
<1>6. table' = [table EXCEPT !.slot = v]
  OBVIOUS
<1> HIDE DEF y
<1>7. /\ v \in [1 .. MAX_POLLFD -> Slots] /\ v[i] = y
      /\ \A k \in 1 .. MAX_POLLFD : k # i => v[k] = table.slot[k]
  BY <1>2, <1>5 DEF Tables
<1> HIDE DEF v
<1>8. table' \in Tables /\ table'.max = table.max /\ table'.slot = v
  BY <1>2, <1>6, <1>7 DEF Tables
<1>9. \A k \in 1 .. table.max : k \in 1 .. MAX_POLLFD
  BY <1>2 DEF Tables
<1>10. \A k \in 1 .. table.max : k # i => v[k] = table.slot[k] /\ table.slot[k].fd # c
  BY <1>1, <1>7, <1>9 DEF SlotsRight
<1>11. /\ cc' \in [Clients -> Contexts] /\ conn' \in [Clients -> Conns]
       /\ cc'[c] = e /\ \A x \in Clients : x # c => cc'[x] = cc[x]
       /\ conn'[c] = r /\ \A x \in Clients : x # c => conn'[x] = conn[x]
  BY <1>1 DEF TypeOK
<1>12. TypeOK'
  <2>1. pass' \in [k: Nat \ {0}, n: Nat]
    BY <1>1, CalledRight
  <2> QED BY <1>1, <1>8, <1>11, <2>1 DEF TypeOK, Tables
<1>13. SlotsRight'
  <2>1. ASSUME NEW k \in 1 .. table'.max, NEW x, x = table'.slot[k] PROVE SlotRight(x)'
    <3>1. CASE k = i
      <4>1. x = y
        BY <1>7, <1>8, <2>1, <3>1
      <4> QED BY <1>3, <1>5, <1>11, <4>1 DEF SlotRight
    <3>2. CASE k # i
      <4>1. x = table.slot[k] /\ x.fd # c /\ SlotRight(table.slot[k])
        BY <1>1, <1>8, <1>10, <2>1, <3>2, SlotFacts
      <4> QED BY <1>11, <4>1 DEF SlotRight
    <3> QED BY <3>1, <3>2
  <2>2. \A k \in 1 .. table'.max : k \in 1 .. table.max /\ table'.slot[k].fd = table.slot[k].fd
    BY <1>5, <1>7, <1>8, <1>10
  <2>3. \A k, l \in 1 .. table'.max : k # l => table'.slot[k].fd # table'.slot[l].fd
    BY <1>1, <2>2 DEF SlotsRight
  <2>4. ~failed' /\ status' # "start"
    BY <1>1 DEF SlotsRight
  <2>5. ASSUME NEW k \in 1 .. table'.max PROVE SlotRight(table.slot[k])'
    <3>1. PICK x : x = table'.slot[k]
      OBVIOUS
    <3>2. SlotRight(x)'
      BY <2>1, <3>1
    <3> QED BY <3>1, <3>2 DEF SlotRight
  <2> QED BY <2>3, <2>4, <2>5 DEF SlotsRight
<1>14. ContextsRight'
  <2> SUFFICES ASSUME NEW x \in Clients
               PROVE  /\ cc'[x].state = "live" => \E k \in 1 .. table.max : v[k].fd = x
                      /\ cc'[x].state # "live" => ~cc'[x].outbuf
                      /\ ~cc'[x].outbuf => cc'[x].out = <<>>
    BY <1>8 DEF ContextsRight
  <2>1. CASE x = c
    BY <1>5, <1>7, <1>11, <2>1
  <2>2. CASE x # c
    BY <1>1, <1>10, <1>11, <2>2 DEF ContextsRight
  <2> QED BY <2>1, <2>2
<1>15. PassRight'
  <2>1. ASSUME NEW k \in 1 .. table'.max, k > pass.k
        PROVE  \/ table'.slot[k].cb # "client_event"
               \/ /\ k \in 1 .. table.max /\ k >= pass.k /\ table'.slot[k] = table.slot[k]
                  /\ cc'[table.slot[k].fd] = cc[table.slot[k].fd]
    <3>1. k \in 1 .. table.max /\ k # i /\ k >= pass.k
      BY <1>1, <1>8, <2>1 DEF TypeOK
    <3>2. table'.slot[k] = table.slot[k] /\ table.slot[k].fd # c /\ SlotRight(table.slot[k])
      BY <1>1, <1>8, <1>10, <3>1, SlotFacts
    <3> QED BY <1>11, <3>1, <3>2 DEF SlotRight
  <2> QED BY <1>1, <2>1, PassRest
<1>16. QueueRight'
  <2> SUFFICES ASSUME NEW x \in ToSet(backlog)
               PROVE  conn'[x].at \in {"queued", "hung"} /\ cc'[x].state # "live"
    BY <1>1 DEF QueueRight
  <2>1. backlog \in Seq(Clients)
    BY <1>1 DEF TypeOK
  <2>2. x \in Clients
    BY <2>1 DEF ToSet
  <2>3. x # c
    BY <1>1, <1>3 DEF QueueRight
  <2> QED BY <1>1, <1>11, <2>2, <2>3 DEF QueueRight
<1>17. AnswersUnderWay' /\ AnswersRight'
  <2>1. ASSUME NEW x \in Clients PROVE AnswerOK(x)'
    <3>1. AnswerOK(x)
      BY AnswersByClient DEF IInv
    <3>2. CASE x = c
      BY <3>2
    <3>3. CASE x # c
      BY <1>11, <3>1, <3>3, AnswerFixed
    <3> QED BY <3>2, <3>3
  <2> QED BY <2>1 DEF AnswersUnderWay, AnswersRight, AnswerOK
<1> QED BY <1>12, <1>13, <1>14, <1>15, <1>16, <1>17 DEF IInv

\* client_event() at "error": the slot goes, those behind it move down, and the
\* pass goes on behind the one that took its place.
LEMMA DroppedKeeps ==
  ASSUME IInv, UNCHANGED <<status, failed, backlog>>, status # "start",
         pass.n > 0, pass' = Called,
         NEW i \in 1 .. table.max, i = pass.k, NEW c \in Clients, table.slot[i].fd = c,
         NEW note \in Text, Dropped(c, note),
         note = <<>> \/ (note = <<"denied">> /\ c \notin Allowed /\ conn[c].in # <<>>)
  PROVE  IInv'
<1>1. TypeOK /\ SlotsRight /\ PassRight /\ QueueRight /\ ContextsRight
  BY DEF IInv
<1>2. /\ table \in Tables /\ MAX_POLLFD \in Nat /\ i \in 1 .. MAX_POLLFD
      /\ table.max \in 0 .. MAX_POLLFD
  <2>1. table \in Tables /\ MAX_POLLFD \in Nat /\ i \in 1 .. MAX_POLLFD
    BY <1>1, SlotFacts
  <2> QED BY <2>1 DEF Tables
<1>3. cc[c].state = "live" /\ conn[c].at \in {"open", "hung"}
  BY <1>1, ClientSlot
<1> DEFINE d == [NoCC EXCEPT !.state = "freed"]
           q == Left(conn[c], note)
           r == [q EXCEPT !.in = <<>>]
<1>4. /\ table' = unregister_pollcb(table, i)
      /\ cc' = [cc EXCEPT ![c] = d] /\ conn' = [conn EXCEPT ![c] = r]
  BY DEF Dropped
<1>5. d \in Contexts /\ d.state = "freed" /\ d.out = <<>> /\ d.outbuf = FALSE
  <2>1. <<>> \in Seq(Pieces)
    BY Texts DEF Text
  <2> QED BY <2>1 DEF Contexts, NoCC
<1>6. /\ r \in Conns /\ r.at = IF conn[c].at = "hung" THEN "out" ELSE "closed"
      /\ r.wire = IF conn[c].at = "hung" THEN <<>> ELSE conn[c].wire \o note
      /\ r.got = conn[c].got /\ r.asked = conn[c].asked
  <2>1. conn[c] \in Conns
    BY <1>1 DEF TypeOK
  <2>2. /\ q \in Conns /\ q.at = IF conn[c].at = "hung" THEN "out" ELSE "closed"
        /\ q.wire = IF conn[c].at = "hung" THEN <<>> ELSE conn[c].wire \o note
        /\ q.got = conn[c].got /\ q.asked = conn[c].asked
    BY <2>1, LeftConns
  <2> HIDE DEF q
  <2>3. <<>> \in Seq(DOMAIN Commands)
    OBVIOUS
  <2> QED BY <2>2, <2>3 DEF Conns
<1> HIDE DEF d, r
<1>7. /\ cc' \in [Clients -> Contexts] /\ conn' \in [Clients -> Conns]
      /\ cc'[c] = d /\ \A x \in Clients : x # c => cc'[x] = cc[x]
      /\ conn'[c] = r /\ \A x \in Clients : x # c => conn'[x] = conn[x]
  BY <1>1, <1>4, <1>5, <1>6 DEF TypeOK
<1>8. /\ table' \in Tables /\ table'.max = table.max - 1
      /\ \A k \in 1 .. (table.max - 1) : table'.slot[k] = table.slot[IF k < i THEN k ELSE k + 1]
  BY <1>2, <1>4, Unregistered
\* The slot that k was before.
<1> DEFINE Was(k) == IF k < i THEN k ELSE k + 1
<1>9. \A k \in 1 .. (table.max - 1) : Was(k) \in 1 .. table.max /\ Was(k) # i
  BY <1>2
<1>10. \A k, l \in 1 .. (table.max - 1) : k # l => Was(k) # Was(l)
  BY <1>2
<1>11. \A k \in 1 .. table.max : k # i => \E l \in 1 .. (table.max - 1) : Was(l) = k
  <2> SUFFICES ASSUME NEW k \in 1 .. table.max, k # i
               PROVE  \E l \in 1 .. (table.max - 1) : Was(l) = k
    OBVIOUS
  <2>1. CASE k < i
    <3>1. k \in 1 .. (table.max - 1) /\ Was(k) = k
      BY <1>2, <2>1
    <3> QED BY <3>1
  <2>2. CASE ~(k < i)
    <3>1. k - 1 \in 1 .. (table.max - 1) /\ Was(k - 1) = k
      BY <1>2, <2>2
    <3> QED BY <3>1
  <2> QED BY <2>1, <2>2
<1>12. \A k \in 1 .. (table.max - 1) : table'.slot[k] = table.slot[Was(k)]
  BY <1>8
<1>13. \A k \in 1 .. (table.max - 1) : k > i => Was(k) >= i
  BY <1>2
<1> HIDE DEF Was
<1>14. \A k \in 1 .. (table.max - 1) : table.slot[Was(k)].fd # c /\ SlotRight(table.slot[Was(k)])
  BY <1>1, <1>9 DEF SlotsRight
<1>15. TypeOK'
  <2>1. pass' \in [k: Nat \ {0}, n: Nat]
    BY <1>1, CalledRight
  <2> QED BY <1>1, <1>7, <1>8, <2>1 DEF TypeOK, Tables
<1>16. SlotsRight'
  <2>1. ASSUME NEW k \in 1 .. table'.max, NEW x, x = table'.slot[k] PROVE SlotRight(x)'
    <3>1. x = table.slot[Was(k)] /\ x.fd # c /\ SlotRight(table.slot[Was(k)])
      BY <1>8, <1>12, <1>14, <2>1
    <3> QED BY <1>7, <3>1 DEF SlotRight
  <2>2. \A k, l \in 1 .. table'.max : k # l => table'.slot[k].fd # table'.slot[l].fd
    BY <1>1, <1>8, <1>9, <1>10, <1>12 DEF SlotsRight
  <2> QED BY <1>1, <2>1, <2>2 DEF SlotsRight, SlotRight
<1>17. ContextsRight'
  <2> SUFFICES ASSUME NEW x \in Clients
               PROVE  /\ cc'[x].state = "live" => \E k \in 1 .. table'.max : table'.slot[k].fd = x
                      /\ cc'[x].state # "live" => ~cc'[x].outbuf
                      /\ ~cc'[x].outbuf => cc'[x].out = <<>>
    BY DEF ContextsRight
  <2>1. CASE x = c
    BY <1>5, <1>7, <2>1
  <2>2. CASE x # c
    <3>1. ASSUME cc[x].state = "live" PROVE \E k \in 1 .. table'.max : table'.slot[k].fd = x
      <4>1. PICK k \in 1 .. table.max : table.slot[k].fd = x
        BY <1>1, <3>1 DEF ContextsRight
      <4>2. PICK l \in 1 .. (table.max - 1) : Was(l) = k
        BY <1>11, <2>2, <4>1
      <4> QED BY <1>8, <1>12, <4>1, <4>2
    <3> QED BY <1>1, <1>7, <2>2, <3>1 DEF ContextsRight
  <2> QED BY <2>1, <2>2
<1>18. PassRight'
  <2>1. ASSUME NEW k \in 1 .. table'.max, k > pass.k
        PROVE  \/ table'.slot[k].cb # "client_event"
               \/ \E l \in 1 .. table.max :
                    /\ l >= pass.k /\ table'.slot[k] = table.slot[l]
                    /\ cc'[table.slot[l].fd] = cc[table.slot[l].fd]
    <3>1. /\ k \in 1 .. (table.max - 1) /\ Was(k) \in 1 .. table.max /\ Was(k) >= pass.k
          /\ table'.slot[k] = table.slot[Was(k)]
      BY <1>8, <1>9, <1>12, <1>13, <2>1
    <3>2. table.slot[Was(k)].fd # c /\ SlotRight(table.slot[Was(k)])
      BY <1>14, <3>1
    <3>3. table.slot[Was(k)].cb = "client_event" => table.slot[Was(k)].fd \in Clients
      BY <3>2 DEF SlotRight
    <3> QED BY <1>7, <3>1, <3>2, <3>3
  <2> QED BY <1>1, <2>1, PassRest
<1>19. QueueRight'
  <2> SUFFICES ASSUME NEW x \in ToSet(backlog)
               PROVE  conn'[x].at \in {"queued", "hung"} /\ cc'[x].state # "live"
    BY <1>1 DEF QueueRight
  <2>1. backlog \in Seq(Clients)
    BY <1>1 DEF TypeOK
  <2>2. x \in Clients
    BY <2>1 DEF ToSet
  <2>3. x # c
    BY <1>1, <1>3 DEF QueueRight
  <2> QED BY <1>1, <1>7, <2>2, <2>3 DEF QueueRight
<1>20. AnswersUnderWay' /\ AnswersRight'
  <2>1. ASSUME NEW x \in Clients PROVE AnswerOK(x)'
    <3>1. AnswerOK(x)
      BY AnswersByClient DEF IInv
    <3>2. CASE x = c
      <4>1. AnswerOK(c) /\ conn[c].at \in {"queued", "open", "hung"}
        BY <1>3, <3>1, <3>2
      <4>2. \/ note = <<>>
            \/ note = <<"busy">> /\ conn[c].at \in {"queued", "hung"}
            \/ note = <<"denied">> /\ c \notin Allowed /\ conn[c].in # <<>>
        OBVIOUS
      <4>3. AnswerOK(c)'
        BY <1>1, <1>6, <1>7, <4>1, <4>2, LeftRight
      <4> QED BY <3>2, <4>3
    <3>3. CASE x # c
      BY <1>7, <3>1, <3>3, AnswerFixed
    <3> QED BY <3>2, <3>3
  <2> QED BY <2>1 DEF AnswersUnderWay, AnswersRight, AnswerOK
<1> QED BY <1>15, <1>16, <1>17, <1>18, <1>19, <1>20 DEF IInv

\* client_event() keeps it.
LEMMA EventKeeps ==
  ASSUME IInv, client_event
  PROVE  IInv'
<1>1. /\ UNCHANGED <<status, backlog>> /\ status # "start" /\ pass.n > 0 /\ pass' = Called
      /\ pass.k <= table.max /\ table.slot[pass.k].cb = "client_event"
  BY DEF client_event, AtSlot, Running
<1>2. TypeOK /\ SlotsRight /\ PassRight /\ ContextsRight /\ ~failed
  BY DEF IInv, SlotsRight
<1>3. PICK i \in 1 .. table.max : i = pass.k
  BY <1>1, <1>2 DEF TypeOK
<1>4. PICK c : c = table.slot[i].fd
  OBVIOUS
<1>5. c \in Clients /\ table.slot[i].data = c /\ cc[c].state = "live" /\ conn[c].at \in {"open", "hung"}
  <2>1. SlotRight(table.slot[i])
    BY <1>2, SlotFacts
  <2> QED BY <1>1, <1>3, <1>4, <2>1 DEF SlotRight
<1>6. table.slot[i].revents = {POLLIN} => ~cc[c].outbuf
  <2>1. i >= pass.k
    BY <1>2, <1>3 DEF TypeOK
  <2> QED BY <1>1, <1>2, <1>3, <1>4, <2>1 DEF PassRight
<1>7. conn[c] \in Conns /\ cc[c] \in Contexts /\ cc[c].out \in Text
  BY <1>2, <1>5, Fields
<1>8. ~cc[c].outbuf => cc[c].out = <<>>
  BY <1>2, <1>5 DEF ContextsRight
<1>9. AnswerOK(c)
  BY <1>5, AnswersByClient DEF IInv
<1>10. CASE Dropped(c, <<>>)
  <2>1. UNCHANGED failed /\ <<>> \in Text
    BY <1>10, Texts DEF Dropped
  <2> QED BY <1>1, <1>3, <1>4, <1>5, <1>10, <2>1, DroppedKeeps
<1>11. CASE Dropped(c, <<"denied">>) /\ conn[c].in # <<>> /\ c \notin Allowed
  <2>1. UNCHANGED failed /\ <<"denied">> \in Text
    BY <1>11, Texts DEF Dropped
  <2> QED BY <1>1, <1>3, <1>4, <1>5, <1>11, <2>1, DroppedKeeps
\* Some of the output, or nothing where there is none, is sent.
<1>12. ASSUME NEW n \in 0 .. Len(cc[c].out), NEW e, e = Sent(cc[c], n),
              NEW sent, sent = SubSeq(cc[c].out, 1, n),
              conn[c].at # "hung" \/ cc[c].out = <<>>,
              UNCHANGED failed, cc' = [cc EXCEPT ![c] = e],
              table' = [table EXCEPT !.slot[i].events = Interest(e)],
              conn' = [conn EXCEPT ![c] = [conn[c] EXCEPT !.wire = conn[c].wire \o sent]]
       PROVE  IInv'
  <2> DEFINE r == [conn[c] EXCEPT !.wire = conn[c].wire \o sent]
  <2>1. /\ e \in Contexts /\ e.state = "live" /\ (~e.outbuf => e.out = <<>>)
        /\ sent \in Text /\ sent \o e.out = cc[c].out
    BY <1>5, <1>7, <1>8, <1>12, SentFacts
  <2>2. /\ conn[c].wire \in Text /\ conn[c].got \in Text /\ conn[c].wire \o sent \in Text
        /\ conn[c].got \o conn[c].wire \in Text /\ e.out \in Text
        /\ conn[c].got \o (conn[c].wire \o sent) \in Text
    <3>1. e.out \in Text
      BY <2>1 DEF Contexts, Text
    <3>2. conn[c].wire \in Text /\ conn[c].got \in Text
      BY <1>2, <1>5, Fields
    <3> QED BY <2>1, <3>1, <3>2, Texts
  <2>3. /\ r \in Conns /\ r.at = conn[c].at /\ r.in = conn[c].in /\ r.asked = conn[c].asked
        /\ r.wire = conn[c].wire \o sent /\ r.got = conn[c].got
    BY <1>7, <2>2 DEF Conns, Text
  <2>4. conn'[c] = r /\ cc'[c] = e
    BY <1>2, <1>5, <1>12 DEF TypeOK
  <2>5. conn' = [conn EXCEPT ![c] = r]
    BY <1>12
  <2> HIDE DEF r
  <2>6. cc[c].out = <<>> => sent = <<>> /\ e.out = <<>>
    BY <2>1, <2>2, EmptyText
  <2>7. sent = <<>> => r.wire = conn[c].wire
    BY <2>2, <2>3, Texts
  <2>8. AnswerOK(c)'
    <3>1. CASE conn[c].at = "hung"
      <4>1. r.wire = conn[c].wire
        BY <1>12, <2>6, <2>7, <3>1
      <4>2. AnswerRight(c)'
        BY <1>9, <2>3, <2>4, <4>1 DEF AnswerOK, AnswerRight
      <4> QED BY <1>9, <2>3, <2>4, <3>1, <4>1, <4>2 DEF AnswerOK
    <3>2. CASE conn[c].at = "open"
      <4>1. Ongoing(c)
        BY <1>9, <3>2 DEF AnswerOK
      <4>2. CASE conn[c].in = <<>>
        <5>1. (conn[c].got \o conn[c].wire) \o cc[c].out = dispatch_commands(conn[c].asked)
          BY <4>1, <4>2 DEF Ongoing
        <5>2. (r.got \o r.wire) \o e.out = (conn[c].got \o conn[c].wire) \o (sent \o e.out)
          <6>1. (conn[c].got \o conn[c].wire) \o sent = conn[c].got \o (conn[c].wire \o sent)
            <7>1. PICK a \in Text : a = conn[c].got
              BY <2>2
            <7>2. PICK b \in Text : b = conn[c].wire
              BY <2>2
            <7>3. (a \o b) \o sent = a \o (b \o sent)
              BY <2>1, Associative
            <7> QED BY <7>1, <7>2, <7>3
          <6>2. ((conn[c].got \o conn[c].wire) \o sent) \o e.out
                  = (conn[c].got \o conn[c].wire) \o (sent \o e.out)
            <7>1. PICK all \in Text : all = conn[c].got \o conn[c].wire
              BY <2>2
            <7>2. (all \o sent) \o e.out = all \o (sent \o e.out)
              BY <2>1, <2>2, Associative
            <7> QED BY <7>1, <7>2
          <6> QED BY <2>3, <6>1, <6>2
        <5>3. (r.got \o r.wire) \o e.out = dispatch_commands(conn[c].asked)
          BY <2>1, <5>1, <5>2
        <5>4. Ongoing(c)'
          BY <2>3, <2>4, <4>2, <5>3 DEF Ongoing
        <5>5. r.got \o r.wire \in Text
          BY <2>2, <2>3
        <5>6. IsPrefix(r.got \o r.wire, dispatch_commands(conn[c].asked))
          BY <2>2, <5>3, <5>5, PrefixOf
        <5>7. AnswerRight(c)'
          BY <2>3, <2>4, <5>6 DEF AnswerRight
        <5> QED BY <2>3, <2>4, <3>2, <5>4, <5>7 DEF AnswerOK
      <4>3. CASE conn[c].in # <<>>
        <5>1. cc[c].out = <<>>
          BY <4>1, <4>3 DEF Ongoing
        <5>2. r.wire = conn[c].wire /\ e.out = <<>>
          BY <2>6, <2>7, <5>1
        <5>3. Ongoing(c)'
          BY <2>3, <2>4, <4>1, <4>3, <5>2 DEF Ongoing
        <5>4. AnswerRight(c)'
          BY <1>9, <2>3, <2>4, <5>2 DEF AnswerOK, AnswerRight
        <5> QED BY <2>3, <2>4, <3>2, <5>3, <5>4 DEF AnswerOK
      <4> QED BY <4>2, <4>3
    <3> QED BY <1>5, <3>1, <3>2
  <2> QED BY <1>1, <1>3, <1>4, <1>5, <1>12, <2>1, <2>3, <2>5, <2>8, KeptKeeps
\* The commands are read and their answer is put into the buffer.
<1>13. ASSUME NEW e, e = Answered(c, cc[c]), ~cc[c].outbuf,
              UNCHANGED failed, cc' = [cc EXCEPT ![c] = e],
              table' = [table EXCEPT !.slot[i].events = Interest(e)],
              NEW wire, wire = conn[c].wire \o <<>>,
              conn' = [conn EXCEPT ![c] = [conn[c] EXCEPT !.wire = wire, !.in = <<>>]]
       PROVE  IInv'
  <2> DEFINE r == [conn[c] EXCEPT !.wire = wire, !.in = <<>>]
  <2>1. /\ e \in Contexts /\ e.state = "live" /\ e.outbuf
        /\ e.out = dispatch_commands(conn[c].in)
    <3>1. /\ e \in Contexts /\ e.state = cc[c].state /\ e.outbuf
          /\ e.out = dispatch_commands(conn[c].in)
      <4>1. PICK d \in Contexts : d = cc[c]
        BY <1>7
      <4>2. e = Answered(c, d) /\ c \in Clients
        BY <1>5, <1>13, <4>1
      <4>3. /\ e \in Contexts /\ e.state = d.state /\ e.outbuf
            /\ e.out = dispatch_commands(conn[c].in)
        BY <1>2, <4>2, AnsweredFacts
      <4> QED BY <4>1, <4>3
    <3> QED BY <1>5, <3>1
  <2>2. wire = conn[c].wire
    BY <1>2, <1>5, <1>13, Fields, Texts
  <2>3. /\ r \in Conns /\ r.at = conn[c].at /\ r.in = <<>> /\ r.asked = conn[c].asked
        /\ r.wire = conn[c].wire /\ r.got = conn[c].got
    <3>1. <<>> \in Seq(DOMAIN Commands)
      OBVIOUS
    <3> QED BY <1>7, <2>2, <3>1 DEF Conns
  <2>4. conn'[c] = r /\ cc'[c] = e
    BY <1>2, <1>5, <1>13 DEF TypeOK
  <2>5. conn' = [conn EXCEPT ![c] = r]
    BY <1>13
  <2> HIDE DEF r
  <2>6. Ongoing(c) => Ongoing(c)'
    <3> SUFFICES ASSUME Ongoing(c)
                 PROVE  (conn[c].got \o conn[c].wire) \o e.out = dispatch_commands(conn[c].asked)
      BY <2>3, <2>4 DEF Ongoing
    <3>1. CASE conn[c].in = <<>>
      <4>1. <<>> \in Lines
        BY DEF Lines
      <4>2. e.out = <<>> /\ cc[c].out = <<>>
        BY <1>8, <1>13, <2>1, <3>1, <4>1, DispatchFacts
      <4> QED BY <3>1, <4>2 DEF Ongoing
    <3>2. CASE conn[c].in # <<>>
      <4>1. conn[c].got \o conn[c].wire = <<>> /\ e.out = dispatch_commands(conn[c].asked)
        BY <2>1, <3>2 DEF Ongoing
      <4>2. dispatch_commands(conn[c].asked) \in Text
        BY <1>2, <1>5, Fields
      <4> QED BY <4>1, <4>2, Texts
    <3> QED BY <3>1, <3>2
  <2>7. AnswerRight(c)'
    BY <1>9, <2>3, <2>4 DEF AnswerOK, AnswerRight
  <2>8. AnswerOK(c)'
    BY <1>5, <1>9, <2>3, <2>4, <2>6, <2>7 DEF AnswerOK
  <2> QED BY <1>1, <1>3, <1>4, <1>5, <2>1, <1>13, <2>3, <2>5, <2>8, KeptKeeps
<1> DEFINE revents == table.slot[i].revents
           Kept(e, sent) ==
             /\ cc' = [cc EXCEPT ![c] = e]
             /\ table' = [table EXCEPT !.slot[i].events = Interest(e)]
             /\ conn' = [conn EXCEPT ![c] =
                           [conn[c] EXCEPT !.wire = conn[c].wire \o sent,
                                           !.in = IF POLLIN \in revents THEN <<>> ELSE conn[c].in]]
<1>14. \/ Dropped(c, <<>>)
       \/ Dropped(c, <<"denied">>) /\ conn[c].in # <<>> /\ c \notin Allowed
       \/ revents = {POLLOUT} /\ UNCHANGED failed /\ cc[c].out = <<>> /\ Kept(Sent(cc[c], 0), <<>>)
       \/ /\ revents = {POLLOUT} /\ UNCHANGED failed /\ cc[c].out # <<>> /\ conn[c].at # "hung"
          /\ \E n \in DOMAIN cc[c].out : Kept(Sent(cc[c], n), SubSeq(cc[c].out, 1, n))
       \/ revents = {POLLIN} /\ UNCHANGED failed /\ ~cc[c].outbuf /\ Kept(Answered(c, cc[c]), <<>>)
  BY <1>3, <1>4, <1>5, <1>6 DEF client_event
<1>15. ASSUME NEW n \in 0 .. Len(cc[c].out), revents = {POLLOUT}, UNCHANGED failed,
              conn[c].at # "hung" \/ cc[c].out = <<>>,
              Kept(Sent(cc[c], n), SubSeq(cc[c].out, 1, n))
       PROVE  IInv'
  <2> DEFINE e == Sent(cc[c], n)
             sent == SubSeq(cc[c].out, 1, n)
             wire == conn[c].wire \o sent
  <2>1. /\ cc' = [cc EXCEPT ![c] = e]
        /\ table' = [table EXCEPT !.slot[i].events = Interest(e)]
        /\ conn' = [conn EXCEPT ![c] = [conn[c] EXCEPT !.wire = wire,
                                          !.in = IF POLLIN \in revents THEN <<>> ELSE conn[c].in]]
    BY <1>15
  <2>2. POLLIN \notin revents
    BY <1>15 DEF POLLIN, POLLOUT
  <2> HIDE DEF e, sent, wire, revents
  <2>3. [conn[c] EXCEPT !.wire = wire, !.in = IF POLLIN \in revents THEN <<>> ELSE conn[c].in]
          = [conn[c] EXCEPT !.wire = wire]
    BY <1>7, <2>2 DEF Conns
  <2>4. conn' = [conn EXCEPT ![c] = [conn[c] EXCEPT !.wire = wire]]
    BY <2>1, <2>3
  <2> QED BY <1>12, <1>15, <2>1, <2>4 DEF e, sent, wire
<1>16. ASSUME revents = {POLLIN}, UNCHANGED failed, ~cc[c].outbuf,
              Kept(Answered(c, cc[c]), <<>>)
       PROVE  IInv'
  <2> DEFINE wire == conn[c].wire \o <<>>
  <2>1. /\ cc' = [cc EXCEPT ![c] = Answered(c, cc[c])]
        /\ table' = [table EXCEPT !.slot[i].events = Interest(Answered(c, cc[c]))]
        /\ conn' = [conn EXCEPT ![c] = [conn[c] EXCEPT !.wire = wire, !.in = <<>>]]
    BY <1>16
  <2> QED BY <1>13, <1>16, <2>1
<1>17. CASE revents = {POLLOUT} /\ UNCHANGED failed /\ cc[c].out = <<>> /\ Kept(Sent(cc[c], 0), <<>>)
  <2>1. SubSeq(cc[c].out, 1, 0) = <<>>
    BY SubSeqEmpty
  <2>2. 0 \in 0 .. Len(cc[c].out)
    BY <1>7 DEF Text
  <2> QED BY <1>15, <1>17, <2>1, <2>2
<1>18. CASE /\ revents = {POLLOUT} /\ UNCHANGED failed /\ cc[c].out # <<>> /\ conn[c].at # "hung"
            /\ \E n \in DOMAIN cc[c].out : Kept(Sent(cc[c], n), SubSeq(cc[c].out, 1, n))
  <2>1. PICK n \in DOMAIN cc[c].out : Kept(Sent(cc[c], n), SubSeq(cc[c].out, 1, n))
    BY <1>18
  <2>2. n \in 0 .. Len(cc[c].out)
    BY <1>7 DEF Text
  <2> QED BY <1>15, <1>18, <2>1, <2>2
<1> QED BY <1>10, <1>11, <1>14, <1>16, <1>17, <1>18

-----------------------------------------------------------------------------
(* The theorems *)

\* Every action does.
LEMMA NextIInv == IInv /\ [Next]_vars => IInv'
<1> SUFFICES ASSUME IInv, [Next]_vars PROVE IInv'
  OBVIOUS
<1>1. CASE Start
  BY <1>1, StartKeeps
<1>2. CASE Poll
  BY <1>2, PollKeeps
<1>3. CASE Skip
  BY <1>3, SkipKeeps
<1>4. CASE client_accept
  BY <1>4, AcceptKeeps
<1>5. CASE client_event
  BY <1>5, EventKeeps
<1>6. CASE process_mcefd
  BY <1>6, McefdKeeps
<1>7. CASE Forking \/ Handler \/ Ends \/ MachineCheck \/ UNCHANGED vars
  BY <1>7, SameKeeps DEF Forking, Handler, Ends, MachineCheck, vars, svars
<1>8. ASSUME NEW c \in Clients, Connect(c) \/ Ask(c) \/ Read(c) \/ Hangup(c) PROVE IInv'
  BY <1>8, ConnectKeeps, AskKeeps, ReadKeeps, HangupKeeps
<1> QED BY <1>1, <1>2, <1>3, <1>4, <1>5, <1>6, <1>7, <1>8 DEF Next, Loop

\* The invariant of the daemon.
LEMMA Invariance == Spec => []IInv
BY InitIInv, NextIInv, PTL DEF Spec

\* However clients come, hang up and are dropped in the middle of a pass, and
\* whatever poll() reported of a slot before it changed hands, client_event() of
\* client.c gets the clientcon of its own descriptor, never a freed one, and no
\* assertion fails: each slot in use is the server's, the machine checks', or
\* that of one live clientcon, whose buffer decides what the slot waits for.
THEOREM TableRightSound == Spec => []TableRight
<1>1. IInv => TableRight
  <2> SUFFICES ASSUME IInv PROVE TableRight
    OBVIOUS
  <2>1. TypeOK /\ SlotsRight /\ ContextsRight
    BY DEF IInv
  <2>2. table.max <= MAX_POLLFD /\ ~failed
    BY <2>1, MaxPollAssumption DEF TypeOK, SlotsRight
  <2>3. \A k, l \in 1 .. table.max : k # l => table.slot[k].fd # table.slot[l].fd
    BY <2>1 DEF SlotsRight
  <2>4. \A s \in InUse : s.cb = "client_event" => s.data = s.fd /\ cc[s.fd].state = "live"
    BY <2>1 DEF InUse, SlotsRight, SlotRight
  <2>5. \A c \in Clients : cc[c].state = "live" => \E s \in InUse : s.fd = c
    BY <2>1 DEF InUse, ContextsRight
  <2>6. \A s \in InUse : s.cb = "client_event" /\ cc[s.fd].outbuf => s.events = {POLLOUT}
    BY <2>1 DEF InUse, SlotsRight, SlotRight, Interest
  <2> QED BY <2>2, <2>3, <2>4, <2>5, <2>6 DEF TableRight
<1> QED BY <1>1, Invariance, PTL

\* A client gets the answers of its commands in order and without a gap, in
\* however many pieces send() takes them: what it has, what is under way and
\* what waits in its outbuf are the whole answer, or its commands are unread.
THEOREM AnswersRightSound == Spec => []AnswersRight
<1>1. IInv => AnswersRight
  BY DEF IInv
<1> QED BY <1>1, Invariance, PTL

-----------------------------------------------------------------------------
(* Functions that are defined by recursion *)

\* What holds of 0 and of the successor holds of all.
LEMMA UpTo ==
  ASSUME NEW L \in Nat, NEW P, 0 \in P, \A n \in 1 .. L : n - 1 \in P => n \in P
  PROVE  \A n \in 0 .. L : n \in P
<1> DEFINE Bad == {n \in 0 .. L : n \notin P}
<1> SUFFICES ASSUME Bad # {} PROVE FALSE
  OBVIOUS
<1>1. PICK m \in Bad : \A n \in Bad : m <= n
  <2>1. Bad \subseteq Nat
    OBVIOUS
  <2> HIDE DEF Bad
  <2> QED BY <2>1, LeastNat
<1>2. m \in 1 .. L /\ m \notin P /\ m - 1 \in 0 .. L
  <2>1. m \in 0 .. L /\ m \notin P
    BY <1>1
  <2>2. m # 0
    BY <2>1
  <2> QED BY <2>1, <2>2
<1>3. m - 1 \notin Bad
  <2> HIDE DEF Bad
  <2>1. m - 1 \in Bad => m <= m - 1
    BY <1>1
  <2> QED BY <1>2, <2>1
<1>4. m - 1 \in P
  BY <1>2, <1>3
<1> QED BY <1>2, <1>4

\* The values of a loop that starts with base and makes step[n] the n-th time.
Steps(S, L) == [1 .. L -> [S -> S]]
Looped(g, S, L, base, step) ==
  g \in [0 .. L -> S] /\ g[0] = base /\ \A n \in 1 .. L : g[n] = step[n][g[n - 1]]

\* A loop has its values: a recursive function on 0 .. L exists.
LEMMA Recursion ==
  ASSUME NEW L \in Nat, NEW S, NEW base \in S, NEW step \in Steps(S, L)
  PROVE  \E g : Looped(g, S, L, base, step)
<1> DEFINE P == {m \in 0 .. L : \E g : Looped(g, S, m, base, step)}
<1>1. 0 \in P
  <2>1. Looped([n \in 0 .. 0 |-> base], S, 0, base, step)
    BY DEF Looped
  <2>2. 0 \in 0 .. L
    OBVIOUS
  <2> QED BY <2>1, <2>2
<1>2. ASSUME NEW m \in 1 .. L, m - 1 \in P PROVE m \in P
  <2>1. PICK g : Looped(g, S, m - 1, base, step)
    BY <1>2
  <2> DEFINE h == [n \in 0 .. m |-> IF n = m THEN step[m][g[m - 1]] ELSE g[n]]
  <2>2. \A n \in 0 .. m : n = m \/ n \in 0 .. (m - 1)
    OBVIOUS
  <2>3. g[m - 1] \in S /\ step[m] \in [S -> S]
    BY <2>1 DEF Looped, Steps
  <2>4. h \in [0 .. m -> S] /\ h[0] = base
    BY <2>1, <2>2, <2>3 DEF Looped
  <2>5. ASSUME NEW n \in 1 .. m PROVE h[n] = step[n][h[n - 1]]
    <3>1. h[n - 1] = g[n - 1]
      OBVIOUS
    <3>2. CASE n = m
      BY <3>1, <3>2
    <3>3. CASE n # m
      <4>1. n \in 1 .. (m - 1) /\ h[n] = g[n]
        BY <3>3
      <4> QED BY <2>1, <3>1, <4>1 DEF Looped
    <3> QED BY <3>2, <3>3
  <2> HIDE DEF h
  <2>6. Looped(h, S, m, base, step)
    BY <2>4, <2>5 DEF Looped
  <2>7. m \in 0 .. L
    OBVIOUS
  <2> QED BY <2>6, <2>7
<1> HIDE DEF P
<1>3. L \in P
  <2>1. \A n \in 0 .. L : n \in P
    BY <1>1, <1>2, UpTo
  <2> QED BY <2>1
<1> QED BY <1>3 DEF P

\* What holds of n if it holds of all of smaller rank, holds of all.
LEMMA ByRank ==
  ASSUME NEW N, NEW L \in Nat, NEW rank \in [N -> 0 .. L], NEW P \in SUBSET N,
         \A n \in N : (\A m \in N : rank[m] < rank[n] => m \in P) => n \in P
  PROVE  N = P
<1> DEFINE Q == {k \in 0 .. L : \A n \in N : rank[n] <= k => n \in P}
<1>1. 0 \in Q
  <2>1. ASSUME NEW n \in N, rank[n] <= 0 PROVE n \in P
    <3>1. \A m \in N : ~(rank[m] < rank[n])
      BY <2>1
    <3> QED BY <3>1
  <2> QED BY <2>1
<1>2. ASSUME NEW k \in 1 .. L, k - 1 \in Q PROVE k \in Q
  <2>1. ASSUME NEW n \in N, rank[n] <= k PROVE n \in P
    <3>1. ASSUME NEW m \in N, rank[m] < rank[n] PROVE m \in P
      <4>1. rank[m] <= k - 1
        BY <2>1, <3>1
      <4> QED BY <1>2, <4>1
    <3> QED BY <3>1
  <2>2. k \in 0 .. L
    OBVIOUS
  <2> QED BY <2>1, <2>2
<1>3. L \in Q
  <2> HIDE DEF Q
  <2>1. L \in 0 .. L
    OBVIOUS
  <2> QED BY <1>1, <1>2, <2>1, UpTo
<1>4. \A n \in N : rank[n] <= L
  OBVIOUS
<1> QED BY <1>3, <1>4

\* A function that is defined by a step to something of smaller rank.
Defined(g, N, S, Stop, base, next, h) ==
  g \in [N -> S] /\ \A n \in N : g[n] = IF n \in Stop THEN base[n] ELSE h[n][g[next[n]]]

\* There is one, whatever the ranks.
LEMMA Fixpoint ==
  ASSUME NEW N, NEW S, NEW L \in Nat, NEW rank \in [N -> 0 .. L], NEW Stop,
         NEW base \in [N -> S], NEW next \in [N -> N], NEW h \in [N -> [S -> S]],
         \A n \in N : n \notin Stop => rank[next[n]] < rank[n]
  PROVE  \E g : Defined(g, N, S, Stop, base, next, h)
<1> DEFINE K == L + 2
           Better(f) == [n \in N |-> IF n \in Stop THEN base[n] ELSE h[n][f[next[n]]]]
           step == [k \in 1 .. K |-> [f \in [N -> S] |-> Better(f)]]
<1>1. K \in Nat /\ L + 1 \in 0 .. K /\ L + 1 \in Nat /\ K \in 1 .. K /\ K - 1 = L + 1
  OBVIOUS
<1>2. \A f \in [N -> S] : Better(f) \in [N -> S]
  OBVIOUS
<1> HIDE DEF Better, K
<1>3. step \in Steps([N -> S], K)
  BY <1>2 DEF Steps
<1>4. PICK G : Looped(G, [N -> S], K, base, step)
  <2> HIDE DEF step
  <2>1. \E G : Looped(G, [N -> S], K, base, step)
    BY <1>1, <1>3, Recursion
  <2> QED BY <2>1
<1>5. G \in [0 .. K -> [N -> S]]
  BY <1>4 DEF Looped
<1>6. ASSUME NEW k \in 1 .. K PROVE G[k] = Better(G[k - 1])
  <2>1. k - 1 \in 0 .. K /\ G[k - 1] \in [N -> S]
    BY <1>1, <1>5
  <2> QED BY <1>4, <2>1 DEF Looped
<1> HIDE DEF step
<1> DEFINE P == {k \in 0 .. L + 1 : \A n \in N : rank[n] < k => G[k + 1][n] = G[k][n]}
<1>7. 0 \in P
  <2>1. \A n \in N : ~(rank[n] < 0)
    OBVIOUS
  <2> QED BY <2>1
<1>8. ASSUME NEW k \in 1 .. L + 1, k - 1 \in P PROVE k \in P
  <2>1. k + 1 \in 1 .. K /\ k \in 1 .. K /\ (k + 1) - 1 = k /\ k \in 0 .. L + 1 /\ (k - 1) + 1 = k
    BY DEF K
  <2>2. G[k + 1] = Better(G[k]) /\ G[k] = Better(G[k - 1])
    BY <1>6, <2>1
  <2>3. ASSUME NEW n \in N, rank[n] < k PROVE G[k + 1][n] = G[k][n]
    <3>1. CASE n \in Stop
      BY <2>2, <3>1 DEF Better
    <3>2. CASE n \notin Stop
      <4>1. rank[next[n]] < rank[n] /\ next[n] \in N
        BY <3>2
      <4>2. rank[next[n]] < k - 1
        BY <2>3, <4>1
      <4>3. G[k][next[n]] = G[k - 1][next[n]]
        BY <1>8, <2>1, <4>1, <4>2
      <4>4. G[k + 1][n] = h[n][G[k][next[n]]] /\ G[k][n] = h[n][G[k - 1][next[n]]]
        BY <2>2, <3>2 DEF Better
      <4> QED BY <4>3, <4>4
    <3> QED BY <3>1, <3>2
  <2> QED BY <2>1, <2>3
<1>9. L + 1 \in P
  <2> HIDE DEF P
  <2>1. L + 1 \in 0 .. L + 1
    OBVIOUS
  <2>2. \A k \in 0 .. L + 1 : k \in P
    BY <1>1, <1>7, <1>8, UpTo
  <2> QED BY <2>1, <2>2
<1> DEFINE g == G[L + 1]
<1>10. g \in [N -> S] /\ \A n \in N : g[n] = G[K][n]
  <2>1. \A n \in N : rank[n] < L + 1
    OBVIOUS
  <2>2. (L + 1) + 1 = K
    BY DEF K
  <2>3. \A n \in N : G[K][n] = G[L + 1][n]
    BY <1>9, <2>1, <2>2
  <2> QED BY <1>1, <1>5, <2>3
<1>11. G[K] = Better(g)
  BY <1>1, <1>6
<1> HIDE DEF g
<1>12. Defined(g, N, S, Stop, base, next, h)
  BY <1>10, <1>11 DEF Defined, Better
<1> QED BY <1>12

-----------------------------------------------------------------------------
(* Buckets: bucket_account() and how it spreads the errors *)

Errors == [count : Nat, bucket : [count : Nat, excess : Nat, tstamp : Nat], since : Seq(Nat)]

\* A configuration is off, or has a time.
BucketConf == {c \in [capacity : Nat, agetime : Nat] : c.capacity > 0 => c.agetime > 0}

\* Of the errors s since the bucket was full, the last count came in its
\* period, which began at stamp; the others are spread over age and more.
Apart(s, count, stamp, cap, age, u) ==
  LET n == Len(s)
  IN  /\ stamp <= u /\ \A i \in 1 .. n : s[i] <= u
      /\ count <= n
      /\ cap = 0 => n = 0
      /\ cap > 0 =>
           /\ count < cap
           /\ \A i \in 1 .. n : i <= n - count => s[i] <= stamp
           /\ \A i \in 1 .. n : i > n - count => s[i] >= stamp
           /\ \A i \in 1 .. n : i + cap - 1 <= n - count => stamp - s[i] >= age
           /\ \A i \in 1 .. n : i + 2 * cap - 2 <= n => s[i + 2 * cap - 2] - s[i] >= age

Spread(et, c, u) == Apart(et.since, et.bucket.count, et.bucket.tstamp, c.capacity, c.agetime, u)

\* Time goes by.
LEMMA ApartLater ==
  ASSUME NEW s \in Seq(Nat), NEW count \in Nat, NEW stamp \in Nat, NEW cap \in Nat, NEW age \in Nat,
         NEW t \in Nat, NEW u \in Nat, t <= u, Apart(s, count, stamp, cap, age, t)
  PROVE  Apart(s, count, stamp, cap, age, u)
<1>1. stamp <= u /\ \A i \in 1 .. Len(s) : s[i] <= u
  BY DEF Apart
<1> QED BY <1>1 DEF Apart

\* A bucket that was just emptied.
LEMMA ApartEmpty ==
  ASSUME NEW stamp \in Nat, NEW cap \in Nat, NEW age \in Nat, NEW u \in Nat, stamp <= u
  PROVE  Apart(<<>>, 0, stamp, cap, age, u)
<1>1. Len(<<>>) = 0
  OBVIOUS
<1> QED BY <1>1 DEF Apart

\* A period ends.
LEMMA ApartAged ==
  ASSUME NEW s \in Seq(Nat), NEW count \in Nat, NEW stamp \in Nat, NEW cap \in Nat \ {0}, NEW age \in Nat,
         NEW u \in Nat, u - stamp >= age, Apart(s, count, stamp, cap, age, u)
  PROVE  Apart(s, 0, u, cap, age, u)
<1> DEFINE n == Len(s)
<1>1. n \in Nat /\ \A i \in 1 .. n : s[i] \in Nat
  OBVIOUS
<1>2. /\ stamp <= u /\ \A i \in 1 .. n : s[i] <= u
      /\ count < cap /\ count <= n
      /\ \A i \in 1 .. n : i <= n - count => s[i] <= stamp
      /\ \A i \in 1 .. n : i + 2 * cap - 2 <= n => s[i + 2 * cap - 2] - s[i] >= age
  BY DEF Apart
<1>3. ASSUME NEW i \in 1 .. n, i + cap - 1 <= n PROVE u - s[i] >= age
  <2> HIDE DEF n
  <2>1. i <= n - count
    BY <1>1, <1>2, <1>3
  <2>2. s[i] <= stamp /\ s[i] \in Nat
    BY <1>1, <1>2, <2>1
  <2> QED BY <2>2
<1>4. n - 0 = n
  OBVIOUS
<1>5. u <= u
  OBVIOUS
<1> HIDE DEF n
<1>6. \A i \in 1 .. n : ~(i > n)
  BY <1>1
<1> QED BY <1>1, <1>2, <1>3, <1>4, <1>5, <1>6 DEF Apart, n

\* More errors, too few to fill the bucket.
LEMMA ApartMore ==
  ASSUME NEW s \in Seq(Nat), NEW count \in Nat, NEW stamp \in Nat, NEW cap \in Nat \ {0}, NEW age \in Nat,
         NEW u \in Nat, NEW inc \in Nat, count + inc < cap, Apart(s, count, stamp, cap, age, u)
  PROVE  LET more == s \o [i \in 1 .. inc |-> u]
         IN  more \in Seq(Nat) /\ Apart(more, count + inc, stamp, cap, age, u)
<1> DEFINE n == Len(s)
           more == s \o [i \in 1 .. inc |-> u]
<1>1. n \in Nat /\ \A i \in 1 .. n : s[i] \in Nat
  OBVIOUS
<1>2. /\ stamp <= u /\ \A i \in 1 .. n : s[i] <= u
      /\ count < cap /\ count <= n
      /\ \A i \in 1 .. n : i <= n - count => s[i] <= stamp
      /\ \A i \in 1 .. n : i > n - count => s[i] >= stamp
      /\ \A i \in 1 .. n : i + cap - 1 <= n - count => stamp - s[i] >= age
      /\ \A i \in 1 .. n : i + 2 * cap - 2 <= n => s[i + 2 * cap - 2] - s[i] >= age
  BY DEF Apart
<1>3. more \in Seq(Nat) /\ Len(more) = n + inc
  OBVIOUS
<1>4. \A i \in 1 .. n + inc : more[i] = IF i <= n THEN s[i] ELSE u
  OBVIOUS
<1> HIDE DEF n, more
<1>5. (n + inc) - (count + inc) = n - count
  BY <1>1
<1>6. \A i \in 1 .. n + inc : more[i] <= u /\ more[i] \in Nat
  BY <1>1, <1>2, <1>4
<1>7. ASSUME NEW i \in 1 .. n + inc, i <= n - count
      PROVE  i \in 1 .. n /\ more[i] = s[i]
  BY <1>1, <1>4, <1>7
<1>8. ASSUME NEW i \in 1 .. n + inc, i > n - count PROVE more[i] >= stamp
  <2>1. CASE i <= n
    BY <1>1, <1>2, <1>4, <1>8, <2>1
  <2>2. CASE ~(i <= n)
    BY <1>2, <1>4, <2>2
  <2> QED BY <2>1, <2>2
<1>9. ASSUME NEW i \in 1 .. n + inc, i + cap - 1 <= n - count PROVE stamp - more[i] >= age
  <2>1. i <= n - count
    BY <1>1, <1>9
  <2> QED BY <1>2, <1>7, <1>9, <2>1
<1>10. ASSUME NEW i \in 1 .. n + inc, i + 2 * cap - 2 <= n + inc
       PROVE  more[i + 2 * cap - 2] - more[i] >= age
  <2> DEFINE j == i + 2 * cap - 2
  <2>1. j \in 1 .. n + inc /\ i <= j
    BY <1>1, <1>10
  <2>2. CASE j <= n
    <3>1. i \in 1 .. n /\ more[i] = s[i] /\ more[j] = s[j]
      BY <1>1, <1>4, <2>1, <2>2
    <3> QED BY <1>2, <2>2, <3>1
  <2>3. CASE ~(j <= n)
    <3> HIDE DEF j
    <3>1. more[j] = u
      BY <1>4, <2>1, <2>3
    <3>2. i + cap - 1 <= n - count
      BY <1>1, <1>10
    <3>3. stamp - more[i] >= age
      BY <1>9, <3>2
    <3>4. more[i] \in Nat
      BY <1>6
    <3>5. more[j] - more[i] >= age
      BY <1>2, <3>1, <3>3, <3>4
    <3> QED BY <3>5 DEF j
  <2> QED BY <2>2, <2>3
<1>11. \A i \in 1 .. n + inc : i <= n - count => more[i] <= stamp
  BY <1>2, <1>7
<1>12. count + inc <= n + inc
  BY <1>1, <1>2
<1>13. Apart(more, count + inc, stamp, cap, age, u)
  BY <1>2, <1>3, <1>5, <1>6, <1>8, <1>9, <1>10, <1>11, <1>12 DEF Apart
<1> QED BY <1>3, <1>13 DEF more

\* The quotient by a of what is m times a at least.
LEMMA Quotient ==
  ASSUME NEW a \in Nat \ {0}, NEW m \in Nat, NEW r \in Nat
  PROVE  (a * m + r) \div a >= m
<1> DEFINE x == a * m + r
           y == x \div a
<1>1. x \in Nat /\ a * m \in Nat
  OBVIOUS
<1> HIDE DEF x
<1>2. y \in Int /\ x < a * (y + 1)
  BY <1>1
<1> HIDE DEF y
<1>3. ASSUME y < m PROVE FALSE
  <2>1. PICK d \in Nat : m = (y + 1) + d
    <3>1. m - (y + 1) \in Nat /\ m = (y + 1) + (m - (y + 1))
      BY <1>2, <1>3
    <3> QED BY <3>1
  <2>2. a * m = a * (y + 1) + a * d /\ a * d \in Nat /\ a * (y + 1) \in Int
    BY <1>2, <2>1
  <2> QED BY <1>1, <1>2, <2>2 DEF x
<1> QED BY <1>2, <1>3 DEF x, y

\* A new account.
LEMMA NewErrorsSpread ==
  ASSUME NEW t \in Nat, NEW u \in Nat, t <= u, NEW c \in BucketConf
  PROVE  NewErrors(t) \in Errors /\ Spread(NewErrors(t), c, u)
<1>1. NewErrors(t) \in Errors
  BY DEF NewErrors, Errors, bucket_init
<1>2. NewErrors(t).since = <<>> /\ NewErrors(t).bucket.count = 0 /\ NewErrors(t).bucket.tstamp = t
  BY DEF NewErrors, bucket_init
<1>3. c.capacity \in Nat /\ c.agetime \in Nat
  BY DEF BucketConf
<1> QED BY <1>1, <1>2, <1>3, ApartEmpty DEF Spread

\* Time goes by for an account.
LEMMA SpreadLater ==
  ASSUME NEW et \in Errors, NEW c \in BucketConf, NEW t \in Nat, NEW u \in Nat, t <= u, Spread(et, c, t)
  PROVE  Spread(et, c, u)
<1>1. /\ et.since \in Seq(Nat) /\ et.bucket.count \in Nat /\ et.bucket.tstamp \in Nat
      /\ c.capacity \in Nat /\ c.agetime \in Nat
  BY DEF Errors, BucketConf
<1> QED BY <1>1, ApartLater DEF Spread

\* Aging empties the bucket and starts a period, or leaves both.
LEMMA Aged ==
  ASSUME NEW et \in Errors, NEW c \in BucketConf, c.capacity > 0,
         NEW u \in Nat, NEW t \in {0, u}, Spread(et, c, u)
  PROVE  LET b == bucket_age(c, et.bucket, t)
         IN  /\ b \in [count : Nat, excess : Nat, tstamp : Nat]
             /\ Apart(et.since, b.count, b.tstamp, c.capacity, c.agetime, u)
<1> DEFINE b == et.bucket
           diff == t - b.tstamp
<1>1. /\ b \in [count : Nat, excess : Nat, tstamp : Nat]
      /\ c.capacity \in Nat \ {0} /\ c.agetime \in Nat \ {0} /\ et.since \in Seq(Nat)
  BY DEF Errors, BucketConf
<1>2. CASE ~(diff >= c.agetime)
  <2>1. bucket_age(c, b, t) = b
    BY <1>2 DEF bucket_age
  <2> QED BY <1>1, <2>1 DEF Spread
<1>3. CASE diff >= c.agetime
  <2>1. t = u
    BY <1>1, <1>3
  <2>2. (diff * c.capacity) \div c.agetime >= c.capacity
    <3>1. PICK k \in Nat : diff = c.agetime + k
      <4>1. diff - c.agetime \in Nat /\ diff = c.agetime + (diff - c.agetime)
        BY <1>1, <1>3
      <4> QED BY <4>1
    <3> HIDE DEF diff
    <3>2. \A a, m \in Nat : (a + k) * m = a * m + k * m /\ k * m \in Nat
      OBVIOUS
    <3>3. diff * c.capacity = c.agetime * c.capacity + k * c.capacity /\ k * c.capacity \in Nat
      BY <1>1, <3>1, <3>2
    <3> QED BY <1>1, <3>3, Quotient
  <2>3. b.count < c.capacity
    BY DEF Spread, Apart
  <2> HIDE DEF b
  <2>4. bucket_age(c, b, t) = [count |-> 0, excess |-> 0, tstamp |-> t]
    <3>1. (diff * c.capacity) \div c.agetime > b.count
      BY <1>1, <2>2, <2>3
    <3> QED BY <1>3, <3>1 DEF bucket_age
  <2>5. Apart(et.since, 0, u, c.capacity, c.agetime, u)
    <3>1. Apart(et.since, b.count, b.tstamp, c.capacity, c.agetime, u)
      BY DEF Spread, b
    <3>2. b.count \in Nat /\ b.tstamp \in Nat /\ u - b.tstamp >= c.agetime
      BY <1>1, <1>3, <2>1
    <3> QED BY <1>1, <3>1, <3>2, ApartAged
  <2> QED BY <1>1, <2>1, <2>4, <2>5 DEF b
<1> QED BY <1>2, <1>3

\* __bucket_account() keeps the errors spread.
LEMMA AccountKeeps ==
  ASSUME NEW et \in Errors, NEW c \in BucketConf, NEW inc \in Nat \ {0},
         NEW u \in Nat, NEW t \in {0, u}, Spread(et, c, u)
  PROVE  LET r == Account(et, c, inc, t, u)
         IN  /\ r.full \in BOOLEAN /\ r.et \in Errors /\ r.et.count = et.count + inc
             /\ Spread(r.et, c, u)
<1> DEFINE b == bucket_age(c, et.bucket, t)
           more == et.since \o [i \in 1 .. inc |-> u]
           r == Account(et, c, inc, t, u)
<1>1. /\ et.bucket \in [count : Nat, excess : Nat, tstamp : Nat]
      /\ et.count \in Nat /\ et.since \in Seq(Nat)
      /\ c.capacity \in Nat /\ c.agetime \in Nat
  BY DEF Errors, BucketConf
<1>2. CASE c.capacity = 0
  <2>1. r = [full |-> FALSE, et |-> [count |-> et.count + inc, bucket |-> et.bucket, since |-> <<>>]]
    BY <1>2 DEF Account, bucket_account
  <2>2. r.et \in Errors
    BY <1>1, <2>1 DEF Errors
  <2>3. Len(et.since) = 0 /\ et.bucket.count <= Len(et.since) /\ et.bucket.tstamp <= u
    BY <1>2 DEF Spread, Apart
  <2>4. et.bucket.count = 0
    BY <1>1, <2>3
  <2>5. Spread(r.et, c, u)
    BY <1>1, <2>1, <2>3, <2>4, ApartEmpty DEF Spread
  <2> QED BY <2>1, <2>2, <2>5
<1>3. CASE c.capacity # 0
  <2>1. /\ b \in [count : Nat, excess : Nat, tstamp : Nat]
        /\ Apart(et.since, b.count, b.tstamp, c.capacity, c.agetime, u)
    <3>1. c.capacity > 0
      BY <1>1, <1>3
    <3> QED BY <3>1, Aged
  <2>2. b.count \in Nat /\ b.excess \in Nat /\ b.tstamp \in Nat /\ b.tstamp <= u
    BY <2>1 DEF Apart
  <2>3. CASE b.count + inc >= c.capacity
    <3>1. r = [full |-> TRUE, et |-> [count |-> et.count + inc, since |-> <<>>,
                                      bucket |-> [count |-> 0, excess |-> b.excess + (b.count + inc),
                                                  tstamp |-> b.tstamp]]]
      BY <1>3, <2>3 DEF Account, bucket_account
    <3> HIDE DEF b
    <3> DEFINE x == b.excess + (b.count + inc)
               y == et.count + inc
    <3>2. x \in Nat
      BY <2>2
    <3>3. y \in Nat
      BY <1>1
    <3> HIDE DEF x, y
    <3>4. r.et = [count |-> y, since |-> <<>>, bucket |-> [count |-> 0, excess |-> x, tstamp |-> b.tstamp]]
      BY <3>1 DEF x, y
    <3>5. r.et \in Errors
      BY <2>2, <3>2, <3>3, <3>4 DEF Errors
    <3>6. r.et.since = <<>> /\ r.et.bucket.count = 0 /\ r.et.bucket.tstamp = b.tstamp
      BY <3>1
    <3>7. Spread(r.et, c, u)
      BY <1>1, <2>2, <3>6, ApartEmpty DEF Spread
    <3> QED BY <3>1, <3>5, <3>7
  <2>4. CASE ~(b.count + inc >= c.capacity)
    <3>1. r = [full |-> FALSE, et |-> [count |-> et.count + inc, since |-> more,
                                       bucket |-> [b EXCEPT !.count = b.count + inc]]]
      BY <1>3, <2>4 DEF Account, bucket_account
    <3> HIDE DEF b
    <3>2. [b EXCEPT !.count = b.count + inc]
            = [count |-> b.count + inc, excess |-> b.excess, tstamp |-> b.tstamp]
      BY <2>1
    <3>3. more \in Seq(Nat) /\ Apart(more, b.count + inc, b.tstamp, c.capacity, c.agetime, u)
      <4>1. c.capacity \in Nat \ {0} /\ b.count + inc < c.capacity
        BY <1>1, <1>3, <2>2, <2>4
      <4> QED BY <1>1, <2>1, <2>2, <4>1, ApartMore
    <3> HIDE DEF more
    <3>4. r.et \in Errors
      <4>1. et.count + inc \in Nat /\ b.count + inc \in Nat /\ b.excess \in Nat /\ b.tstamp \in Nat
        BY <1>1, <2>2
      <4> QED BY <3>1, <3>2, <3>3, <4>1 DEF Errors
    <3>5. r.et.since = more /\ r.et.bucket.count = b.count + inc /\ r.et.bucket.tstamp = b.tstamp
      BY <3>1, <3>2
    <3> QED BY <3>1, <3>3, <3>4, <3>5 DEF Spread
  <2> QED BY <2>3, <2>4
<1> QED BY <1>2, <1>3

-----------------------------------------------------------------------------
(* Chains: the accounts of the DIMMs and sockets *)

DimmEntries == [id : EntryIds, ce : Errors, uc : Errors, memdev : BOOLEAN]
Hashes == 0 .. SHASH - 1
Databases == [dimms : [Hashes -> Seq(DimmEntries)], numdimms : Nat, runs : Nat]

\* The configuration of the accounts.
TableFor(cf, id) == IF id[2] = -1 /\ id[3] = -1 THEN cf.sockets ELSE cf.dimms
TablesRight(cf) ==
  {cf.dimms.ce, cf.dimms.uc, cf.sockets.ce, cf.sockets.uc, cf.page} \subseteq BucketConf

EntryRight(md, cf, u) ==
  Spread(md.ce, TableFor(cf, md.id).ce, u) /\ Spread(md.uc, TableFor(cf, md.id).uc, u)

\* Each DIMM is in its chain and once.
ChainsRight(d) ==
  \A h \in Hashes :
    /\ \A i \in 1 .. Len(d.dimms[h]) : dimmhash(d.dimms[h][i].id) = h
    /\ \A i, j \in 1 .. Len(d.dimms[h]) : d.dimms[h][i].id = d.dimms[h][j].id => i = j

DbRight(d, cf, u) ==
  /\ d \in Databases /\ ChainsRight(d) /\ Len(AllDimms(d)) = d.numdimms
  /\ \A h \in Hashes : \A i \in 1 .. Len(d.dimms[h]) : EntryRight(d.dimms[h][i], cf, u)

\* dimmhash() is an index of the table.
LEMMA HashesRight == \A id \in EntryIds : dimmhash(id) \in Hashes
BY HashAssumption DEF Hashes

\* The configuration of an account is one.
LEMMA TableForRight ==
  ASSUME NEW cf, TablesRight(cf), NEW id
  PROVE  TableFor(cf, id).ce \in BucketConf /\ TableFor(cf, id).uc \in BucketConf
BY DEF TablesRight, TableFor

\* What the search of a chain finds.
LEMMA FindFacts ==
  ASSUME NEW d \in Databases, NEW id \in EntryIds
  PROVE  LET chain == d.dimms[dimmhash(id)]
             k == Find(d, id)
         IN  /\ chain \in Seq(DimmEntries) /\ k \in 0 .. Len(chain)
             /\ k # 0 => k \in 1 .. Len(chain) /\ chain[k].id = id
             /\ k = 0 => \A i \in 1 .. Len(chain) : chain[i].id # id
<1> DEFINE chain == d.dimms[dimmhash(id)]
           I == {i \in 1 .. Len(chain) : chain[i].id = id}
<1>1. chain \in Seq(DimmEntries)
  BY HashesRight DEF Databases
<1>2. Find(d, id) = IF I # {} THEN Min(I) ELSE 0
  BY DEF Find, SelectInSeq
<1> HIDE DEF chain
<1>3. Len(chain) \in Nat /\ I \subseteq Nat
  BY <1>1
<1>4. CASE I # {}
  <2> HIDE DEF I
  <2>1. \E x \in I : \A y \in I : x <= y
    BY <1>3, <1>4, LeastNat
  <2>2. Min(I) \in I
    BY <2>1 DEF Min
  <2> QED BY <1>1, <1>2, <1>3, <1>4, <2>2 DEF I, chain
<1>5. CASE I = {}
  BY <1>1, <1>2, <1>3, <1>5 DEF chain
<1> QED BY <1>4, <1>5

\* The chains are changed, the counters not.
LEMMA OtherChains ==
  ASSUME NEW A, NEW d \in [dimms : A, numdimms : Nat, runs : Nat], NEW dimms
  PROVE  [d EXCEPT !.dimms = dimms] = [dimms |-> dimms, numdimms |-> d.numdimms, runs |-> d.runs]
OBVIOUS

\* The chains and the counter of the DIMMs are changed.
LEMMA OneMoreDimm ==
  ASSUME NEW A, NEW d \in [dimms : A, numdimms : Nat, runs : Nat], NEW dimms, NEW n
  PROVE  [d EXCEPT !.dimms = dimms, !.numdimms = n] = [dimms |-> dimms, numdimms |-> n, runs |-> d.runs]
<1> DEFINE r == [dimms |-> dimms, numdimms |-> d.numdimms, runs |-> d.runs]
<1>1. [d EXCEPT !.dimms = dimms] = r
  BY OtherChains
<1>2. [r EXCEPT !.numdimms = n] = [dimms |-> dimms, numdimms |-> n, runs |-> d.runs]
  OBVIOUS
<1> HIDE DEF r
<1> QED BY <1>1, <1>2

\* An entry is overwritten in its place.
LEMMA SetEntryFacts ==
  ASSUME NEW d \in Databases, NEW id \in EntryIds, Find(d, id) # 0, NEW md \in DimmEntries
  PROVE  LET e == SetEntry(d, id, md)
         IN  /\ e \in Databases /\ e.numdimms = d.numdimms /\ e.runs = d.runs
             /\ \A h \in Hashes : /\ Len(e.dimms[h]) = Len(d.dimms[h])
                                  /\ \A i \in 1 .. Len(d.dimms[h]) :
                                       e.dimms[h][i] = IF h = dimmhash(id) /\ i = Find(d, id)
                                                       THEN md ELSE d.dimms[h][i]
<1> DEFINE g == dimmhash(id)
           k == Find(d, id)
           chain == [d.dimms[g] EXCEPT ![k] = md]
           dimms == [d.dimms EXCEPT ![g] = chain]
<1>1. d.dimms \in [Hashes -> Seq(DimmEntries)] /\ d.numdimms \in Nat /\ d.runs \in Nat /\ g \in Hashes
  BY HashesRight DEF Databases
<1>2. d.dimms[g] \in Seq(DimmEntries) /\ k \in 1 .. Len(d.dimms[g])
  BY FindFacts
<1>3. SetEntry(d, id, md) = [dimms |-> dimms, numdimms |-> d.numdimms, runs |-> d.runs]
  <2>1. [d EXCEPT !.dimms = dimms] = [dimms |-> dimms, numdimms |-> d.numdimms, runs |-> d.runs]
    BY OtherChains DEF Databases
  <2>2. SetEntry(d, id, md) = [d EXCEPT !.dimms = dimms]
    BY Zenon DEF SetEntry
  <2> QED BY <2>1, <2>2
<1> HIDE DEF g, k
<1>4. /\ chain \in Seq(DimmEntries) /\ Len(chain) = Len(d.dimms[g])
      /\ \A i \in 1 .. Len(d.dimms[g]) : chain[i] = IF i = k THEN md ELSE d.dimms[g][i]
  BY <1>2
<1> HIDE DEF chain
<1>5. /\ dimms \in [Hashes -> Seq(DimmEntries)]
      /\ \A h \in Hashes : dimms[h] = IF h = g THEN chain ELSE d.dimms[h]
  BY <1>1, <1>4
<1> HIDE DEF dimms
<1>6. SetEntry(d, id, md) \in Databases
  BY <1>1, <1>3, <1>5 DEF Databases
<1> QED BY <1>3, <1>4, <1>5, <1>6 DEF g, k

\* The array that dump_memory_errors() fills.
LEMMA AllDimmsFacts ==
  ASSUME NEW d \in Databases
  PROVE  \E da \in [0 .. SHASH -> Seq(DimmEntries)] :
           /\ da[0] = <<>> /\ \A h \in 1 .. SHASH : da[h] = da[h - 1] \o d.dimms[h - 1]
           /\ AllDimms(d) = da[SHASH]
<1> DEFINE S == Seq(DimmEntries)
           da == CHOOSE da : da = [h \in 0 .. SHASH |-> IF h = 0 THEN <<>> ELSE da[h - 1] \o d.dimms[h - 1]]
<1>1. SHASH \in Nat /\ \A h \in 1 .. SHASH : h - 1 \in Hashes /\ d.dimms[h - 1] \in S
  BY SHASHAssumption DEF Databases, Hashes
<1>2. \A s1, s2 \in S : s1 \o s2 \in S
  OBVIOUS
<1>3. <<>> \in S
  OBVIOUS
<1>4. AllDimms(d) = da[SHASH]
  BY DEF AllDimms
<1> HIDE DEF S
<1>5. PICK g \in [0 .. SHASH -> S] : g[0] = <<>> /\ \A h \in 1 .. SHASH : g[h] = g[h - 1] \o d.dimms[h - 1]
  <2> DEFINE step == [h \in 1 .. SHASH |-> [s \in S |-> s \o d.dimms[h - 1]]]
  <2>1. step \in Steps(S, SHASH)
    BY <1>1, <1>2 DEF Steps
  <2> HIDE DEF step
  <2>2. PICK g : Looped(g, S, SHASH, <<>>, step)
    <3>1. \E g : Looped(g, S, SHASH, <<>>, step)
      BY <1>1, <1>3, <2>1, Recursion
    <3> QED BY <3>1
  <2>3. ASSUME NEW h \in 1 .. SHASH PROVE g[h] = g[h - 1] \o d.dimms[h - 1]
    <3>1. h - 1 \in 0 .. SHASH /\ g[h - 1] \in S
      BY <1>1, <2>2 DEF Looped
    <3> QED BY <2>2, <3>1 DEF step, Looped
  <2> QED BY <2>2, <2>3 DEF Looped
<1>6. g = [h \in 0 .. SHASH |-> IF h = 0 THEN <<>> ELSE g[h - 1] \o d.dimms[h - 1]]
  <2>1. ASSUME NEW h \in 0 .. SHASH PROVE g[h] = IF h = 0 THEN <<>> ELSE g[h - 1] \o d.dimms[h - 1]
    <3>1. h = 0 \/ h \in 1 .. SHASH
      BY <1>1
    <3> QED BY <1>5, <3>1
  <2> QED BY <2>1
<1>7. da = [h \in 0 .. SHASH |-> IF h = 0 THEN <<>> ELSE da[h - 1] \o d.dimms[h - 1]]
  BY <1>6
<1> HIDE DEF da
<1>8. da[0] = <<>> /\ \A h \in 1 .. SHASH : da[h] = da[h - 1] \o d.dimms[h - 1]
  <2>1. 0 \in 0 .. SHASH /\ \A h \in 1 .. SHASH : h \in 0 .. SHASH /\ h # 0
    BY <1>1
  <2> QED BY <1>7, <2>1
<1>9. \A h \in 0 .. SHASH : da[h] \in S
  <2> DEFINE P == {h \in 0 .. SHASH : da[h] \in S}
  <2>1. 0 \in P
    BY <1>1, <1>3, <1>8
  <2>2. \A h \in 1 .. SHASH : h - 1 \in P => h \in P
    BY <1>1, <1>2, <1>8
  <2> HIDE DEF P
  <2>3. \A h \in 0 .. SHASH : h \in P
    BY <1>1, <2>1, <2>2, UpTo
  <2> QED BY <2>3 DEF P
<1>10. da \in [0 .. SHASH -> S]
  BY <1>7, <1>9
<1> QED BY <1>4, <1>8, <1>10 DEF S

\* One chain is longer than before, or none: so is the array.
LEMMA Longer ==
  ASSUME NEW d \in Databases, NEW e \in Databases, NEW g \in Hashes, NEW more \in Nat,
         \A h \in Hashes : Len(e.dimms[h]) = Len(d.dimms[h]) + (IF h = g THEN more ELSE 0)
  PROVE  Len(AllDimms(e)) = Len(AllDimms(d)) + more
<1>1. PICK da \in [0 .. SHASH -> Seq(DimmEntries)] :
        /\ da[0] = <<>> /\ \A h \in 1 .. SHASH : da[h] = da[h - 1] \o d.dimms[h - 1]
        /\ AllDimms(d) = da[SHASH]
  BY AllDimmsFacts
<1>2. PICK ea \in [0 .. SHASH -> Seq(DimmEntries)] :
        /\ ea[0] = <<>> /\ \A h \in 1 .. SHASH : ea[h] = ea[h - 1] \o e.dimms[h - 1]
        /\ AllDimms(e) = ea[SHASH]
  BY AllDimmsFacts
<1>3. SHASH \in Nat /\ \A h \in 1 .. SHASH : h - 1 \in Hashes /\ h - 1 \in 0 .. SHASH
  BY SHASHAssumption DEF Hashes
<1> DEFINE P == {h \in 0 .. SHASH : Len(ea[h]) = Len(da[h]) + (IF h > g THEN more ELSE 0)}
<1>4. 0 \in P
  <2>1. ~(0 > g)
    BY DEF Hashes
  <2>2. Len(<<>>) = 0
    OBVIOUS
  <2>3. Len(da[0]) = 0 /\ Len(ea[0]) = 0 /\ 0 \in 0 .. SHASH
    BY <1>1, <1>2, <1>3, <2>2
  <2> QED BY <2>1, <2>3
<1>5. ASSUME NEW h \in 1 .. SHASH, h - 1 \in P PROVE h \in P
  <2>1. /\ da[h - 1] \in Seq(DimmEntries) /\ ea[h - 1] \in Seq(DimmEntries)
        /\ d.dimms[h - 1] \in Seq(DimmEntries) /\ e.dimms[h - 1] \in Seq(DimmEntries)
    BY <1>3 DEF Databases
  <2>2. /\ Len(da[h]) = Len(da[h - 1]) + Len(d.dimms[h - 1])
        /\ Len(ea[h]) = Len(ea[h - 1]) + Len(e.dimms[h - 1])
    <3>1. \A s, t \in Seq(DimmEntries) : Len(s \o t) = Len(s) + Len(t)
      OBVIOUS
    <3>2. da[h] = da[h - 1] \o d.dimms[h - 1] /\ ea[h] = ea[h - 1] \o e.dimms[h - 1]
      BY <1>1, <1>2, Zenon
    <3>3. Len(da[h - 1] \o d.dimms[h - 1]) = Len(da[h - 1]) + Len(d.dimms[h - 1])
      BY <2>1, <3>1, Zenon
    <3>4. Len(ea[h - 1] \o e.dimms[h - 1]) = Len(ea[h - 1]) + Len(e.dimms[h - 1])
      BY <2>1, <3>1, Zenon
    <3> QED BY <3>2, <3>3, <3>4, Zenon
  <2>3. Len(ea[h - 1]) = Len(da[h - 1]) + (IF h - 1 > g THEN more ELSE 0)
    BY <1>5
  <2>4. Len(e.dimms[h - 1]) = Len(d.dimms[h - 1]) + (IF h - 1 = g THEN more ELSE 0)
    BY <1>3
  <2>5. Len(da[h - 1]) \in Nat /\ Len(d.dimms[h - 1]) \in Nat
    BY <2>1
  <2>6. g \in Nat /\ h \in 0 .. SHASH
    BY <1>3 DEF Hashes
  <2>7. Len(ea[h]) = Len(da[h]) + (IF h > g THEN more ELSE 0)
    <3>1. g \in Nat /\ h \in Nat
      BY <1>3, <2>6
    <3> DEFINE p == Len(da[h - 1])
               q == Len(d.dimms[h - 1])
    <3>2. /\ p \in Nat /\ q \in Nat /\ Len(da[h]) = p + q
          /\ Len(ea[h]) = (p + (IF h - 1 > g THEN more ELSE 0)) + (q + (IF h - 1 = g THEN more ELSE 0))
      BY <2>2, <2>3, <2>4, <2>5
    <3> HIDE DEF p, q
    <3> QED BY <3>1, <3>2
  <2> QED BY <2>6, <2>7
<1>6. SHASH \in P
  <2>1. SHASH \in 0 .. SHASH
    BY <1>3
  <2> HIDE DEF P
  <2> QED BY <1>3, <1>4, <1>5, <2>1, UpTo
<1>7. SHASH > g
  BY <1>3 DEF Hashes
<1> QED BY <1>1, <1>2, <1>6, <1>7

\* The array has each entry of the chains and, like them, none twice.
LEMMA AllDimmsDistinct ==
  ASSUME NEW d \in Databases, ChainsRight(d)
  PROVE  LET all == AllDimms(d)
         IN  /\ all \in Seq(DimmEntries)
             /\ \A i, j \in 1 .. Len(all) : all[i].id = all[j].id => i = j
<1>1. PICK da \in [0 .. SHASH -> Seq(DimmEntries)] :
        /\ da[0] = <<>> /\ \A h \in 1 .. SHASH : da[h] = da[h - 1] \o d.dimms[h - 1]
        /\ AllDimms(d) = da[SHASH]
  BY AllDimmsFacts
<1>2. SHASH \in Nat /\ \A h \in 1 .. SHASH : h - 1 \in Hashes /\ h - 1 \in 0 .. SHASH
  BY SHASHAssumption DEF Hashes
<1> DEFINE Good(s, h) == /\ \A i \in 1 .. Len(s) : dimmhash(s[i].id) < h
                         /\ \A i, j \in 1 .. Len(s) : s[i].id = s[j].id => i = j
           P == {h \in 0 .. SHASH : Good(da[h], h)}
<1>3. 0 \in P
  <2>1. Len(<<>>) = 0
    OBVIOUS
  <2> QED BY <1>1, <1>2, <2>1
<1>4. ASSUME NEW h \in 1 .. SHASH, h - 1 \in P PROVE h \in P
  <2> DEFINE a == da[h - 1]
             b == d.dimms[h - 1]
             n == Len(a)
             m == Len(b)
  <2>1. a \in Seq(DimmEntries) /\ b \in Seq(DimmEntries) /\ n \in Nat /\ m \in Nat
    BY <1>2 DEF Databases
  <2>2. /\ \A i \in 1 .. n : dimmhash(a[i].id) < h - 1
        /\ \A i, j \in 1 .. n : a[i].id = a[j].id => i = j
    BY <1>4
  <2>3. /\ \A i \in 1 .. m : dimmhash(b[i].id) = h - 1
        /\ \A i, j \in 1 .. m : b[i].id = b[j].id => i = j
    BY <1>2 DEF ChainsRight
  <2>4. /\ Len(da[h]) = n + m
        /\ \A i \in 1 .. n + m : da[h][i] = IF i <= n THEN a[i] ELSE b[i - n]
    <3>1. da[h] = a \o b
      BY <1>1
    <3> HIDE DEF a, b
    <3> QED BY <2>1, <3>1
  <2>5. ASSUME NEW i \in 1 .. n PROVE dimmhash(a[i].id) \in Nat
    <3> HIDE DEF a
    <3>1. a[i] \in DimmEntries
      BY <2>1
    <3>2. a[i].id \in EntryIds
      BY <3>1 DEF DimmEntries
    <3> QED BY <3>2, HashesRight DEF Hashes
  <2> HIDE DEF a, b, n, m
  <2>6. ASSUME NEW i \in 1 .. n + m
        PROVE  \/ i <= n /\ i \in 1 .. n /\ da[h][i] = a[i]
               \/ ~(i <= n) /\ i - n \in 1 .. m /\ da[h][i] = b[i - n]
    BY <2>1, <2>4
  <2>7. ASSUME NEW i \in 1 .. n + m PROVE dimmhash(da[h][i].id) < h
    <3>1. CASE i <= n
      <4>1. dimmhash(a[i].id) < h - 1 /\ dimmhash(a[i].id) \in Nat /\ da[h][i] = a[i]
        BY <2>2, <2>5, <2>6, <3>1
      <4> QED BY <1>2, <4>1
    <3>2. CASE ~(i <= n)
      <4>1. dimmhash(b[i - n].id) = h - 1 /\ da[h][i] = b[i - n]
        BY <2>3, <2>6, <3>2
      <4> QED BY <1>2, <4>1
    <3> QED BY <3>1, <3>2
  <2>8. ASSUME NEW i \in 1 .. n + m, NEW j \in 1 .. n + m, da[h][i].id = da[h][j].id PROVE i = j
    <3>1. CASE i <= n /\ j <= n
      BY <2>2, <2>6, <2>8, <3>1
    <3>2. CASE ~(i <= n) /\ ~(j <= n)
      <4>1. i - n = j - n
        BY <2>3, <2>6, <2>8, <3>2
      <4> QED BY <2>1, <4>1
    <3>3. ASSUME NEW k \in 1 .. n + m, NEW l \in 1 .. n + m, k <= n, ~(l <= n)
          PROVE  da[h][k].id # da[h][l].id
      <4>1. dimmhash(da[h][k].id) < h - 1 /\ dimmhash(da[h][k].id) \in Nat
        BY <2>2, <2>5, <2>6, <3>3
      <4>2. dimmhash(da[h][l].id) = h - 1
        BY <2>3, <2>6, <3>3
      <4> QED BY <4>1, <4>2
    <3> QED BY <2>8, <3>1, <3>2, <3>3
  <2>9. Good(da[h], h)
    BY <2>4, <2>7, <2>8
  <2> QED BY <1>2, <2>9
<1>5. SHASH \in P
  <2>1. SHASH \in 0 .. SHASH
    BY <1>2
  <2> HIDE DEF P
  <2> QED BY <1>2, <1>3, <1>4, <2>1, UpTo
<1>6. da[SHASH] \in Seq(DimmEntries)
  BY <1>2
<1> QED BY <1>1, <1>5, <1>6

\* A new entry is right.
LEMMA NewDimmRight ==
  ASSUME NEW id \in EntryIds, NEW cf, TablesRight(cf), NEW u \in Nat
  PROVE  NewDimm(id, u) \in DimmEntries /\ NewDimm(id, u).id = id /\ EntryRight(NewDimm(id, u), cf, u)
<1>1. TableFor(cf, id).ce \in BucketConf /\ TableFor(cf, id).uc \in BucketConf
  BY TableForRight
<1>2. /\ NewErrors(u) \in Errors
      /\ Spread(NewErrors(u), TableFor(cf, id).ce, u) /\ Spread(NewErrors(u), TableFor(cf, id).uc, u)
  BY <1>1, NewErrorsSpread
<1>3. NewDimm(id, u) = [id |-> id, ce |-> NewErrors(u), uc |-> NewErrors(u), memdev |-> FALSE]
  BY DEF NewDimm
<1>4. NewDimm(id, u) \in DimmEntries
  BY <1>2, <1>3 DEF DimmEntries
<1> QED BY <1>2, <1>3, <1>4 DEF EntryRight

\* get_memdimm() keeps the chains, and the entry is there.
LEMMA GetKeeps ==
  ASSUME NEW cf, TablesRight(cf), NEW u \in Nat, NEW d, DbRight(d, cf, u), NEW id \in EntryIds
  PROVE  DbRight(get_memdimm(d, id, u), cf, u) /\ Find(get_memdimm(d, id, u), id) # 0
<1> DEFINE g == dimmhash(id)
           chain == <<NewDimm(id, u)>> \o d.dimms[g]
           dimms == [d.dimms EXCEPT ![g] = chain]
           e == get_memdimm(d, id, u)
<1>1. /\ d \in Databases /\ ChainsRight(d) /\ Len(AllDimms(d)) = d.numdimms
      /\ \A h \in Hashes : \A i \in 1 .. Len(d.dimms[h]) : EntryRight(d.dimms[h][i], cf, u)
  BY DEF DbRight
<1>2. CASE Find(d, id) # 0
  BY <1>2 DEF get_memdimm
<1>3. CASE Find(d, id) = 0
  <2>1. /\ d.dimms \in [Hashes -> Seq(DimmEntries)] /\ d.numdimms \in Nat /\ d.runs \in Nat /\ g \in Hashes
        /\ d.dimms[g] \in Seq(DimmEntries)
    BY <1>1, HashesRight DEF Databases
  <2>2. e = [dimms |-> dimms, numdimms |-> d.numdimms + 1, runs |-> d.runs]
    <3>1. e = [d EXCEPT !.dimms = dimms, !.numdimms = d.numdimms + 1]
      BY <1>3, Zenon DEF get_memdimm
    <3> HIDE DEF e, dimms
    <3> QED BY <1>1, <3>1, OneMoreDimm DEF Databases
  <2>3. NewDimm(id, u) \in DimmEntries /\ NewDimm(id, u).id = id /\ EntryRight(NewDimm(id, u), cf, u)
    BY NewDimmRight
  <2> DEFINE md == NewDimm(id, u)
             n == Len(d.dimms[g])
  <2> HIDE DEF g, md
  <2>4. n \in Nat /\ chain \in Seq(DimmEntries) /\ Len(chain) = n + 1
        /\ \A i \in 1 .. n + 1 : chain[i] = IF i = 1 THEN md ELSE d.dimms[g][i - 1]
    BY <2>1, <2>3 DEF md
  <2> HIDE DEF chain, n
  <2>5. dimms \in [Hashes -> Seq(DimmEntries)]
        /\ \A h \in Hashes : dimms[h] = IF h = g THEN chain ELSE d.dimms[h]
    BY <2>1, <2>4
  <2> HIDE DEF dimms
  <2>6. e.dimms = dimms /\ e.numdimms = d.numdimms + 1
    BY <2>2
  <2>7. e \in Databases
    BY <2>1, <2>2, <2>5 DEF Databases
  <2> HIDE DEF e
  <2>8. \A i \in 1 .. n + 1 : i = 1 \/ (i # 1 /\ i - 1 \in 1 .. n)
    BY <2>4
  <2>9. \A i \in 1 .. n : d.dimms[g][i].id # id
    BY <1>1, <1>3, FindFacts DEF g, n
  <2>10. /\ \A i \in 1 .. n : dimmhash(d.dimms[g][i].id) = g
         /\ \A i, j \in 1 .. n : d.dimms[g][i].id = d.dimms[g][j].id => i = j
    BY <1>1, <2>1 DEF ChainsRight, n
  <2>11. md.id = id /\ dimmhash(id) = g
    BY <2>3 DEF md, g
  <2>12. \A i \in 1 .. n + 1 : dimmhash(chain[i].id) = g
    BY <2>4, <2>8, <2>10, <2>11
  <2>13. ASSUME NEW i \in 1 .. n + 1, NEW j \in 1 .. n + 1, chain[i].id = chain[j].id PROVE i = j
    <3>1. CASE i = 1 \/ j = 1
      BY <2>4, <2>8, <2>9, <2>11, <2>13, <3>1
    <3>2. CASE i # 1 /\ j # 1
      <4>1. /\ i - 1 \in 1 .. n /\ chain[i] = d.dimms[g][i - 1]
            /\ j - 1 \in 1 .. n /\ chain[j] = d.dimms[g][j - 1]
        BY <2>4, <2>8, <3>2
      <4>2. i - 1 = j - 1
        BY <2>10, <2>13, <4>1
      <4> QED BY <2>4, <4>2
    <3> QED BY <3>1, <3>2
  <2>14. ChainsRight(e)
    BY <1>1, <2>4, <2>5, <2>6, <2>12, <2>13 DEF ChainsRight
  <2>15. Len(AllDimms(e)) = e.numdimms
    <3>1. \A h \in Hashes : Len(e.dimms[h]) = Len(d.dimms[h]) + (IF h = g THEN 1 ELSE 0)
      <4>1. \A h \in Hashes : Len(d.dimms[h]) \in Nat
        BY <2>1
      <4>2. ASSUME NEW h \in Hashes, h = g PROVE Len(e.dimms[h]) = Len(d.dimms[h]) + 1
        BY <2>4, <2>5, <2>6, <4>2 DEF n
      <4>3. ASSUME NEW h \in Hashes, h # g PROVE Len(e.dimms[h]) = Len(d.dimms[h]) + 0
        BY <2>5, <2>6, <4>1, <4>3
      <4> QED BY <4>2, <4>3
    <3>2. Len(AllDimms(e)) = Len(AllDimms(d)) + 1
      <4>1. 1 \in Nat /\ d \in Databases /\ g \in Hashes
        BY <1>1, <2>1
      <4> QED BY <2>7, <3>1, <4>1, Longer
    <3> QED BY <1>1, <2>6, <3>2
  <2>16. ASSUME NEW h \in Hashes, NEW i \in 1 .. Len(e.dimms[h]) PROVE EntryRight(e.dimms[h][i], cf, u)
    <3>1. CASE h # g
      BY <1>1, <2>5, <2>6, <2>16, <3>1
    <3>2. CASE h = g
      <4>1. e.dimms[h] = chain /\ i \in 1 .. n + 1
        BY <2>4, <2>5, <2>6, <3>2
      <4>2. CASE i = 1
        BY <2>3, <2>4, <4>1, <4>2 DEF md
      <4>3. CASE i # 1
        <5>1. i - 1 \in 1 .. n /\ chain[i] = d.dimms[g][i - 1]
          BY <2>4, <2>8, <4>1, <4>3
        <5> QED BY <1>1, <2>1, <4>1, <5>1 DEF n
      <4> QED BY <4>2, <4>3
    <3> QED BY <3>1, <3>2
  <2>17. Find(e, id) # 0
    <3>1. e.dimms[g] = chain /\ 1 \in 1 .. Len(chain) /\ chain[1].id = id
      BY <2>1, <2>4, <2>5, <2>6, <2>11
    <3> QED BY <2>7, <3>1, FindFacts DEF g
  <2>18. DbRight(e, cf, u)
    BY <2>7, <2>14, <2>15, <2>16 DEF DbRight
  <2> QED BY <2>17, <2>18 DEF e
<1> QED BY <1>2, <1>3

\* An entry that is found may be changed to one that is right.
LEMMA SetKeeps ==
  ASSUME NEW cf, NEW u \in Nat, NEW d, DbRight(d, cf, u), NEW id \in EntryIds, Find(d, id) # 0,
         NEW md \in DimmEntries, md.id = id, EntryRight(md, cf, u)
  PROVE  DbRight(SetEntry(d, id, md), cf, u) /\ Find(SetEntry(d, id, md), id) # 0
<1> DEFINE e == SetEntry(d, id, md)
           g == dimmhash(id)
           k == Find(d, id)
<1>1. /\ d \in Databases /\ ChainsRight(d) /\ Len(AllDimms(d)) = d.numdimms
      /\ \A h \in Hashes : \A i \in 1 .. Len(d.dimms[h]) : EntryRight(d.dimms[h][i], cf, u)
  BY DEF DbRight
<1>2. /\ e \in Databases /\ e.numdimms = d.numdimms
      /\ \A h \in Hashes : /\ Len(e.dimms[h]) = Len(d.dimms[h])
                           /\ \A i \in 1 .. Len(d.dimms[h]) :
                                e.dimms[h][i] = IF h = g /\ i = k THEN md ELSE d.dimms[h][i]
  BY <1>1, SetEntryFacts
<1>3. g \in Hashes /\ k \in 1 .. Len(d.dimms[g]) /\ d.dimms[g][k].id = id
  BY <1>1, FindFacts, HashesRight
<1> HIDE DEF e, g, k
<1>4. \A h \in Hashes : \A i \in 1 .. Len(d.dimms[h]) : e.dimms[h][i].id = d.dimms[h][i].id
  BY <1>2, <1>3
<1>5. ChainsRight(e)
  BY <1>1, <1>2, <1>4 DEF ChainsRight
<1>6. \A h \in Hashes : \A i \in 1 .. Len(e.dimms[h]) : EntryRight(e.dimms[h][i], cf, u)
  BY <1>1, <1>2
<1>7. Len(AllDimms(e)) = e.numdimms
  <2>1. \A h \in Hashes : Len(d.dimms[h]) \in Nat
    BY <1>1 DEF Databases
  <2>2. \A h \in Hashes : Len(e.dimms[h]) = Len(d.dimms[h]) + (IF h = g THEN 0 ELSE 0)
    BY <1>2, <2>1
  <2>3. Len(AllDimms(e)) = Len(AllDimms(d)) + 0
    <3>1. d \in Databases /\ e \in Databases /\ g \in Hashes /\ 0 \in Nat
      BY <1>1, <1>2, <1>3
    <3> QED BY <2>2, <3>1, Longer
  <2> QED BY <1>1, <1>2, <2>3 DEF Databases
<1>8. DbRight(e, cf, u)
  BY <1>2, <1>5, <1>6, <1>7 DEF DbRight
<1>9. Find(e, id) # 0
  <2>1. k \in 1 .. Len(e.dimms[g]) /\ e.dimms[g][k].id = id
    BY <1>2, <1>3, <1>4
  <2> QED BY <1>2, <2>1, FindFacts DEF g
<1> QED BY <1>8, <1>9 DEF e

\* The entry that is found is right.
LEMMA EntryFacts ==
  ASSUME NEW cf, NEW u, NEW d, DbRight(d, cf, u), NEW id \in EntryIds, Find(d, id) # 0
  PROVE  /\ Entry(d, id) \in DimmEntries /\ Entry(d, id).id = id /\ EntryRight(Entry(d, id), cf, u)
<1>1. d \in Databases /\ dimmhash(id) \in Hashes
  BY HashesRight DEF DbRight
<1>2. /\ d.dimms[dimmhash(id)] \in Seq(DimmEntries) /\ Find(d, id) \in 1 .. Len(d.dimms[dimmhash(id)])
      /\ d.dimms[dimmhash(id)][Find(d, id)].id = id
  BY <1>1, FindFacts
<1>3. Entry(d, id) = d.dimms[dimmhash(id)][Find(d, id)]
  BY DEF Entry
<1> QED BY <1>1, <1>2, <1>3 DEF DbRight

\* A trigger runs, or does not.
LEMMA TriggerKeeps ==
  ASSUME NEW cf, NEW u, NEW d, DbRight(d, cf, u), NEW full \in BOOLEAN
  PROVE  LET e == memdb_trigger(d, full)
         IN  DbRight(e, cf, u) /\ \A id \in EntryIds : Find(d, id) # 0 => Find(e, id) # 0
<1> DEFINE e == memdb_trigger(d, full)
<1>1. CASE ~full
  BY <1>1 DEF memdb_trigger
<1>2. CASE full
  <2>1. d \in [dimms : [Hashes -> Seq(DimmEntries)], numdimms : Nat, runs : Nat]
    BY DEF DbRight, Databases
  <2>2. e = [d EXCEPT !.runs = d.runs + 1]
    BY <1>2, Zenon DEF memdb_trigger
  <2>3. d.runs + 1 \in Nat
    BY <2>1
  <2> HIDE DEF e
  <2>4. e = [dimms |-> d.dimms, numdimms |-> d.numdimms, runs |-> d.runs + 1]
    BY <2>1, <2>2
  <2>5. e.dimms = d.dimms /\ e.numdimms = d.numdimms /\ e \in Databases
    BY <2>1, <2>3, <2>4 DEF Databases
  <2>6. AllDimms(e) = AllDimms(d)
    BY <2>5, Zenon DEF AllDimms
  <2>7. DbRight(e, cf, u)
    BY <2>5, <2>6 DEF DbRight, ChainsRight
  <2>8. \A id \in EntryIds : Find(e, id) = Find(d, id)
    BY <2>5, Zenon DEF Find
  <2> QED BY <2>7, <2>8 DEF e
<1> QED BY <1>1, <1>2

\* One error more, or inc of them, on an account of an entry that is there.
LEMMA ErrorsKeep ==
  ASSUME NEW cf, TablesRight(cf), NEW u \in Nat, NEW d, DbRight(d, cf, u),
         NEW id \in EntryIds, Find(d, id) # 0, NEW inc \in Nat \ {0}, NEW t \in {0, u}
  PROVE  LET md == Entry(d, id)
             c == Account(md.ce, TableFor(cf, id).ce, inc, t, u)
             e == memdb_trigger(SetEntry(d, id, [md EXCEPT !.ce = c.et]), c.full)
             v == Account(md.uc, TableFor(cf, id).uc, inc, t, u)
             f == memdb_trigger(SetEntry(d, id, [md EXCEPT !.uc = v.et]), v.full)
         IN  /\ DbRight(e, cf, u) /\ Find(e, id) # 0
             /\ DbRight(f, cf, u) /\ Find(f, id) # 0
<1> DEFINE md == Entry(d, id)
           c == Account(md.ce, TableFor(cf, id).ce, inc, t, u)
           v == Account(md.uc, TableFor(cf, id).uc, inc, t, u)
<1>1. TableFor(cf, id).ce \in BucketConf /\ TableFor(cf, id).uc \in BucketConf
  BY TableForRight
<1>2. md \in DimmEntries /\ md.id = id /\ EntryRight(md, cf, u)
  BY EntryFacts
<1> HIDE DEF md
<1>3. /\ md.ce \in Errors /\ Spread(md.ce, TableFor(cf, id).ce, u)
      /\ md.uc \in Errors /\ Spread(md.uc, TableFor(cf, id).uc, u)
  BY <1>2 DEF EntryRight, DimmEntries
<1>4. c.full \in BOOLEAN /\ c.et \in Errors /\ Spread(c.et, TableFor(cf, id).ce, u)
  BY <1>1, <1>3, AccountKeeps
<1>5. v.full \in BOOLEAN /\ v.et \in Errors /\ Spread(v.et, TableFor(cf, id).uc, u)
  BY <1>1, <1>3, AccountKeeps
<1> HIDE DEF c, v
<1>6. ASSUME NEW x \in Errors, Spread(x, TableFor(cf, id).ce, u), NEW full \in BOOLEAN
      PROVE  LET e == memdb_trigger(SetEntry(d, id, [md EXCEPT !.ce = x]), full)
             IN  DbRight(e, cf, u) /\ Find(e, id) # 0
  <2> DEFINE new == [md EXCEPT !.ce = x]
  <2>1. new = [id |-> md.id, ce |-> x, uc |-> md.uc, memdev |-> md.memdev]
    BY <1>2 DEF DimmEntries
  <2>2. new \in DimmEntries /\ new.id = id /\ new.ce = x /\ new.uc = md.uc
    BY <1>2, <2>1 DEF DimmEntries
  <2> HIDE DEF new
  <2>3. EntryRight(new, cf, u)
    BY <1>3, <1>6, <2>2 DEF EntryRight
  <2>4. DbRight(SetEntry(d, id, new), cf, u) /\ Find(SetEntry(d, id, new), id) # 0
    BY <2>2, <2>3, SetKeeps
  <2> QED BY <2>4, TriggerKeeps DEF new
<1>7. ASSUME NEW x \in Errors, Spread(x, TableFor(cf, id).uc, u), NEW full \in BOOLEAN
      PROVE  LET e == memdb_trigger(SetEntry(d, id, [md EXCEPT !.uc = x]), full)
             IN  DbRight(e, cf, u) /\ Find(e, id) # 0
  <2> DEFINE new == [md EXCEPT !.uc = x]
  <2>1. new = [id |-> md.id, ce |-> md.ce, uc |-> x, memdev |-> md.memdev]
    BY <1>2 DEF DimmEntries
  <2>2. new \in DimmEntries /\ new.id = id /\ new.ce = md.ce /\ new.uc = x
    BY <1>2, <2>1 DEF DimmEntries
  <2> HIDE DEF new
  <2>3. EntryRight(new, cf, u)
    BY <1>3, <1>7, <2>2 DEF EntryRight
  <2>4. DbRight(SetEntry(d, id, new), cf, u) /\ Find(SetEntry(d, id, new), id) # 0
    BY <2>2, <2>3, SetKeeps
  <2> QED BY <2>4, TriggerKeeps DEF new
<1>8. LET e == memdb_trigger(SetEntry(d, id, [md EXCEPT !.ce = c.et]), c.full)
      IN  DbRight(e, cf, u) /\ Find(e, id) # 0
  BY <1>4, <1>6
<1>9. LET f == memdb_trigger(SetEntry(d, id, [md EXCEPT !.uc = v.et]), v.full)
      IN  DbRight(f, cf, u) /\ Find(f, id) # 0
  BY <1>5, <1>7
<1> QED BY <1>8, <1>9 DEF md, c, v

\* account_memdb() keeps the chains.
LEMMA MemdbKeeps ==
  ASSUME NEW cf, TablesRight(cf), NEW u \in Nat, NEW d, DbRight(d, cf, u),
         NEW id \in EntryIds, Find(d, id) # 0, NEW m, m.uc \in BOOLEAN, m.time \in {0, u}
  PROVE  /\ DbRight(account_memdb(d, TableFor(cf, id), id, m, u), cf, u)
         /\ Find(account_memdb(d, TableFor(cf, id), id, m, u), id) # 0
<1> DEFINE T == TableFor(cf, id)
           md == Entry(d, id)
           c == Account(md.ce, T.ce, 1, m.time, u)
           e == memdb_trigger(SetEntry(d, id, [md EXCEPT !.ce = c.et]), c.full)
           v == Account(md.uc, T.uc, 1, m.time, u)
           f == memdb_trigger(SetEntry(d, id, [md EXCEPT !.uc = v.et]), v.full)
<1>1. account_memdb(d, T, id, m, u) = IF m.uc THEN f ELSE e
  BY Zenon DEF account_memdb
<1>2. 1 \in Nat \ {0}
  OBVIOUS
<1>3. DbRight(e, cf, u) /\ Find(e, id) # 0 /\ DbRight(f, cf, u) /\ Find(f, id) # 0
  <2> HIDE DEF e, f
  <2>1. LET t == m.time IN t \in {0, u}
    OBVIOUS
  <2> QED BY <1>2, ErrorsKeep, Zenon DEF e, f, c, v, md, T
<1> HIDE DEF T, e, f
<1> QED BY <1>1, <1>3 DEF T

\* account_over() keeps the chains.
LEMMA OverKeeps ==
  ASSUME NEW cf, TablesRight(cf), NEW u \in Nat, NEW d, DbRight(d, cf, u),
         NEW id \in EntryIds, Find(d, id) # 0, NEW m, m.time \in {0, u}, NEW corr \in Nat
  PROVE  /\ DbRight(account_over(d, TableFor(cf, id), id, m, corr, u), cf, u)
         /\ Find(account_over(d, TableFor(cf, id), id, m, corr, u), id) # 0
<1> DEFINE T == TableFor(cf, id)
           md == Entry(d, id)
           c == Account(md.ce, T.ce, corr - 1, m.time, u)
           e == memdb_trigger(SetEntry(d, id, [md EXCEPT !.ce = c.et]), c.full)
<1>1. account_over(d, T, id, m, corr, u) = IF corr > 1 THEN e ELSE d
  BY Zenon DEF account_over
<1>2. CASE corr > 1
  <2>1. corr - 1 \in Nat \ {0}
    BY <1>2
  <2>2. DbRight(e, cf, u) /\ Find(e, id) # 0
    <3> DEFINE n == corr - 1
    <3> HIDE DEF n
    <3>1. n \in Nat \ {0}
      BY <2>1 DEF n
    <3>2. LET x == Account(md.ce, T.ce, n, m.time, u)
              y == memdb_trigger(SetEntry(d, id, [md EXCEPT !.ce = x.et]), x.full)
          IN  DbRight(y, cf, u) /\ Find(y, id) # 0
      BY <3>1, ErrorsKeep, Zenon
    <3> QED BY <3>2 DEF n
  <2> HIDE DEF T, e
  <2> QED BY <1>1, <1>2, <2>2 DEF T
<1>3. CASE ~(corr > 1)
  <2> HIDE DEF e
  <2> QED BY <1>1, <1>3
<1> QED BY <1>2, <1>3

\* memory_error() keeps the chains.
LEMMA MemoryErrorKeeps ==
  ASSUME NEW cf, TablesRight(cf), NEW u \in Nat, NEW d, DbRight(d, cf, u),
         NEW m, m.uc \in BOOLEAN, m.time \in {0, u}, NEW ch, NEW dimm, NEW corr \in Nat,
         <<m.socketid, -1, -1>> \in EntryIds, <<m.socketid, ch, dimm>> \in EntryIds
  PROVE  DbRight(memory_error(d, cf, m, ch, dimm, corr, u), cf, u)
<1> DEFINE id   == <<m.socketid, ch, dimm>>
           sid  == <<m.socketid, -1, -1>>
           acc  == account_memdb(get_memdimm(d, id, u), cf.dimms, id, m, u)
           db1  == IF cf.memdb_enabled /\ (ch # -1 \/ dimm # -1) THEN acc ELSE d
           got  == get_memdimm(db1, sid, u)
           over == account_over(got, cf.sockets, sid, m, corr, u)
           last == account_memdb(over, cf.sockets, sid, m, u)
<1>1. memory_error(d, cf, m, ch, dimm, corr, u) =
        IF cf.recordlen = "short" THEN d ELSE IF cf.sockdb_enabled THEN last ELSE db1
  BY Zenon DEF memory_error
<1>2. TableFor(cf, sid) = cf.sockets
  BY DEF TableFor
<1>3. DbRight(db1, cf, u)
  <2>1. CASE cf.memdb_enabled /\ (ch # -1 \/ dimm # -1)
    <3>1. TableFor(cf, id) = cf.dimms
      BY <2>1 DEF TableFor
    <3>2. DbRight(get_memdimm(d, id, u), cf, u) /\ Find(get_memdimm(d, id, u), id) # 0
      BY GetKeeps
    <3>3. DbRight(acc, cf, u)
      <4> HIDE DEF id
      <4>1. DbRight(account_memdb(get_memdimm(d, id, u), TableFor(cf, id), id, m, u), cf, u)
        BY <3>2, MemdbKeeps DEF id
      <4> QED BY <3>1, <4>1
    <3> HIDE DEF acc
    <3> QED BY <2>1, <3>3
  <2>2. CASE ~(cf.memdb_enabled /\ (ch # -1 \/ dimm # -1))
    <3> HIDE DEF acc
    <3> QED BY <2>2
  <2> QED BY <2>1, <2>2
<1> HIDE DEF db1, sid
<1>4. sid \in EntryIds
  BY DEF sid
<1>5. DbRight(got, cf, u) /\ Find(got, sid) # 0
  BY <1>3, <1>4, GetKeeps
<1> HIDE DEF got
<1>6. DbRight(over, cf, u) /\ Find(over, sid) # 0
  <2>1. DbRight(account_over(got, TableFor(cf, sid), sid, m, corr, u), cf, u)
        /\ Find(account_over(got, TableFor(cf, sid), sid, m, corr, u), sid) # 0
    BY <1>4, <1>5, OverKeeps
  <2> QED BY <1>2, <2>1
<1> HIDE DEF over
<1>7. DbRight(last, cf, u)
  <2>1. DbRight(account_memdb(over, TableFor(cf, sid), sid, m, u), cf, u)
    BY <1>4, <1>6, MemdbKeeps
  <2> QED BY <1>2, <2>1
<1> HIDE DEF last
<1> QED BY <1>1, <1>3, <1>7

\* The name of an entry is changed, its errors are not.
LEMMA Named ==
  ASSUME NEW A, NEW B, NEW C, NEW md \in [id : A, ce : B, uc : B, memdev : C]
  PROVE  \A x : [md EXCEPT !.memdev = x] = [id |-> md.id, ce |-> md.ce, uc |-> md.uc, memdev |-> x]
OBVIOUS

\* A DMI record keeps the chains.
LEMMA PrefillKeeps ==
  ASSUME NEW cf, TablesRight(cf), NEW u \in Nat, NEW d, DbRight(d, cf, u), NEW id \in EntryIds \cup {<<>>}
  PROVE  DbRight(Prefill(d, id, u), cf, u)
<1>1. CASE id = <<>>
  BY <1>1 DEF Prefill
<1>2. CASE id # <<>>
  <2> DEFINE db1 == get_memdimm(d, id, u)
             md == Entry(db1, id)
             new == [md EXCEPT !.memdev = TRUE]
  <2>1. Prefill(d, id, u) = SetEntry(db1, id, new)
    BY <1>2, Zenon DEF Prefill
  <2>2. id \in EntryIds /\ DbRight(db1, cf, u) /\ Find(db1, id) # 0
    BY <1>2, GetKeeps
  <2> HIDE DEF db1
  <2>3. md \in DimmEntries /\ md.id = id /\ EntryRight(md, cf, u)
    BY <2>2, EntryFacts
  <2> HIDE DEF md
  <2>4. new = [id |-> md.id, ce |-> md.ce, uc |-> md.uc, memdev |-> TRUE]
    <3>1. md \in [id : EntryIds, ce : Errors, uc : Errors, memdev : BOOLEAN]
      BY <2>3 DEF DimmEntries
    <3>2. \A x : [md EXCEPT !.memdev = x] = [id |-> md.id, ce |-> md.ce, uc |-> md.uc, memdev |-> x]
      BY <3>1, Named
    <3>3. [md EXCEPT !.memdev = TRUE] = [id |-> md.id, ce |-> md.ce, uc |-> md.uc, memdev |-> TRUE]
      BY <3>2, Zenon
    <3> QED BY <3>3, Zenon
  <2>5. new \in DimmEntries /\ new.id = id /\ new.ce = md.ce /\ new.uc = md.uc
    BY <2>3, <2>4 DEF DimmEntries
  <2> HIDE DEF new
  <2>6. EntryRight(new, cf, u)
    BY <2>3, <2>5 DEF EntryRight
  <2> QED BY <2>1, <2>2, <2>5, <2>6, SetKeeps
<1> QED BY <1>1, <1>2

\* All of them do.
LEMMA PrefillAllKeeps ==
  ASSUME NEW cf, TablesRight(cf), NEW u \in Nat, NEW d, DbRight(d, cf, u),
         NEW dmi, Len(dmi) \in Nat, \A n \in 1 .. Len(dmi) : dmi[n] \in EntryIds \cup {<<>>}
  PROVE  DbRight(prefill_memdb(d, dmi, u), cf, u)
<1> DEFINE L == Len(dmi)
           S == {x \in Databases : DbRight(x, cf, u)}
           f == CHOOSE f : f = [n \in 0 .. L |-> IF n = 0 THEN d ELSE Prefill(f[n - 1], dmi[n], u)]
           step == [n \in 1 .. L |-> [x \in S |-> Prefill(x, dmi[n], u)]]
<1>1. prefill_memdb(d, dmi, u) = f[L]
  BY DEF prefill_memdb
<1>2. d \in S /\ L \in Nat
  BY DEF DbRight
<1>3. ASSUME NEW n \in 1 .. L, NEW x \in S PROVE Prefill(x, dmi[n], u) \in S
  <2>1. DbRight(Prefill(x, dmi[n], u), cf, u)
    BY PrefillKeeps
  <2> QED BY <2>1 DEF DbRight
<1> HIDE DEF S, L
<1>4. step \in Steps(S, L)
  BY <1>3 DEF Steps
<1> HIDE DEF step
<1>5. PICK g : Looped(g, S, L, d, step)
  <2>1. \E g : Looped(g, S, L, d, step)
    BY <1>2, <1>4, Recursion
  <2> QED BY <2>1
<1>6. ASSUME NEW n \in 1 .. L PROVE g[n] = Prefill(g[n - 1], dmi[n], u)
  <2>1. n - 1 \in 0 .. L /\ g[n - 1] \in S
    BY <1>2, <1>5 DEF Looped
  <2> QED BY <1>5, <2>1 DEF step, Looped
<1>7. g = [n \in 0 .. L |-> IF n = 0 THEN d ELSE Prefill(g[n - 1], dmi[n], u)]
  <2>1. ASSUME NEW n \in 0 .. L PROVE g[n] = IF n = 0 THEN d ELSE Prefill(g[n - 1], dmi[n], u)
    <3>1. n = 0 \/ n \in 1 .. L
      BY <1>2
    <3> QED BY <1>5, <1>6, <3>1 DEF Looped
  <2> QED BY <1>5, <2>1 DEF Looped
<1>8. f = [n \in 0 .. L |-> IF n = 0 THEN d ELSE Prefill(f[n - 1], dmi[n], u)]
  BY <1>7
<1> HIDE DEF f
<1>9. f[0] = d /\ \A n \in 1 .. L : f[n] = Prefill(f[n - 1], dmi[n], u)
  BY <1>2, <1>8
<1> DEFINE P == {n \in 0 .. L : f[n] \in S}
<1>10. 0 \in P
  BY <1>2, <1>9
<1>11. \A n \in 1 .. L : n - 1 \in P => n \in P
  BY <1>2, <1>3, <1>9
<1>12. L \in P
  <2> HIDE DEF P
  <2>1. \A n \in 0 .. L : n \in P
    BY <1>2, <1>10, <1>11, UpTo
  <2> QED BY <1>2, <2>1
<1> QED BY <1>1, <1>12 DEF L, S

\* The database is empty in the beginning.
LEMMA EmptyDbRight ==
  ASSUME NEW cf, NEW u
  PROVE  DbRight(EmptyDb, cf, u)
<1>1. /\ EmptyDb.dimms \in [Hashes -> Seq(DimmEntries)] /\ EmptyDb.numdimms = 0
      /\ \A h \in Hashes : EmptyDb.dimms[h] = <<>>
  BY DEF EmptyDb, Hashes
<1>2. EmptyDb \in Databases
  BY <1>1 DEF EmptyDb, Databases
<1>3. Len(<<>>) = 0
  OBVIOUS
<1>4. \A h \in Hashes : Len(EmptyDb.dimms[h]) = 0
  BY <1>1, <1>3
<1>5. Len(AllDimms(EmptyDb)) = 0
  <2>1. PICK da \in [0 .. SHASH -> Seq(DimmEntries)] :
          /\ da[0] = <<>> /\ \A h \in 1 .. SHASH : da[h] = da[h - 1] \o EmptyDb.dimms[h - 1]
          /\ AllDimms(EmptyDb) = da[SHASH]
    BY <1>2, AllDimmsFacts
  <2>2. SHASH \in Nat /\ \A h \in 1 .. SHASH : h - 1 \in Hashes
    BY SHASHAssumption DEF Hashes
  <2> DEFINE P == {h \in 0 .. SHASH : da[h] = <<>>}
  <2>3. 0 \in P
    BY <2>1, <2>2
  <2>4. ASSUME NEW h \in 1 .. SHASH, h - 1 \in P PROVE h \in P
    <3>1. <<>> \o <<>> = <<>>
      OBVIOUS
    <3>2. da[h - 1] = <<>> /\ EmptyDb.dimms[h - 1] = <<>> /\ h \in 0 .. SHASH
      BY <1>1, <2>2, <2>4
    <3>3. da[h] = <<>>
      BY <2>1, <3>1, <3>2
    <3> QED BY <3>2, <3>3
  <2>5. SHASH \in P
    <3> HIDE DEF P
    <3>1. \A h \in 0 .. SHASH : h \in P
      BY <2>2, <2>3, <2>4, UpTo
    <3> QED BY <2>2, <3>1
  <2> QED BY <1>3, <2>1, <2>5
<1> QED BY <1>1, <1>2, <1>4, <1>5 DEF DbRight, ChainsRight

\* Time goes by for the database.
LEMMA DbLater ==
  ASSUME NEW cf, TablesRight(cf), NEW t \in Nat, NEW u \in Nat, t <= u, NEW d, DbRight(d, cf, t)
  PROVE  DbRight(d, cf, u)
<1>1. ASSUME NEW h \in Hashes, NEW i \in 1 .. Len(d.dimms[h]) PROVE EntryRight(d.dimms[h][i], cf, u)
  <2>1. d.dimms[h][i] \in DimmEntries /\ EntryRight(d.dimms[h][i], cf, t)
    BY DEF DbRight, Databases
  <2> DEFINE md == d.dimms[h][i]
  <2> HIDE DEF md
  <2>2. /\ md.ce \in Errors /\ TableFor(cf, md.id).ce \in BucketConf /\ Spread(md.ce, TableFor(cf, md.id).ce, t)
        /\ md.uc \in Errors /\ TableFor(cf, md.id).uc \in BucketConf /\ Spread(md.uc, TableFor(cf, md.id).uc, t)
    BY <2>1, TableForRight DEF md, DimmEntries, EntryRight
  <2> QED BY <2>2, SpreadLater DEF md, EntryRight
<1> QED BY <1>1 DEF DbRight

-----------------------------------------------------------------------------
(* Pages: what is done about a page, and how it ends *)

\* What is done about a page, and what is printed about it.
Words == {"trigger", "soft", "hard", "soft-failed", "hard-failed"}
States == {"online", "offline", "offline-failed"}
Offline == {"off", "account", "soft", "hard", "soft-then-hard"}
PageEntries == [ce : Errors, offlined : States, triggered : BOOLEAN, did : Seq(Words)]

\* What has been done about a page is in hist; the pages that are only
\* counted trigger at most once for each of the n records.
PageRight(mp, cf, u, hist, n) ==
  /\ mp \in PageEntries /\ Spread(mp.ce, cf.page, u)
  /\ mp.did \in hist /\ mp.offlined = Outcome(mp.did)
  /\ cf.offline \in {"off", "account"} => Len(mp.did) <= n

\* The configuration, once it is read.
ConfRight == conf.on => conf.on = TRUE /\ TablesRight(conf) /\ conf.offline \in Offline

\* What is read from the file, or not, is a configuration.
LEMMA RateRead ==
  ASSUME NEW rate \in Rates
  PROVE  bucket_conf_init(rate, NoBucketConf) \in BucketConf
<1> DEFINE x == CapacityUnit(rate.cunit)
           y == timeconv(rate.tunit)
<1>1. rate.cap \in Nat /\ rate.t \in Nat
  BY DEF Rates
<1>2. x \in Nat /\ y \in Nat
  BY DEF CapacityUnit, timeconv
<1>3. CASE parse_rate_ok(rate)
  <2>1. rate.t # 0 /\ y # 0
    BY <1>3 DEF parse_rate_ok
  <2>2. bucket_conf_init(rate, NoBucketConf) = [capacity |-> rate.cap * x, agetime |-> rate.t * y]
    BY <1>3 DEF bucket_conf_init
  <2> HIDE DEF x, y
  <2>3. \A a, b \in Nat : a * b \in Nat /\ (a # 0 /\ b # 0 => a * b > 0)
    OBVIOUS
  <2> DEFINE cap == rate.cap * x
             age == rate.t * y
  <2>4. cap \in Nat /\ age \in Nat /\ age > 0
    BY <1>1, <1>2, <2>1, <2>3
  <2> HIDE DEF cap, age
  <2>5. [capacity |-> cap, agetime |-> age] \in BucketConf
    BY <2>4 DEF BucketConf
  <2> QED BY <2>2, <2>5 DEF cap, age
<1>4. CASE ~parse_rate_ok(rate)
  BY <1>4 DEF bucket_conf_init, NoBucketConf, BucketConf
<1> QED BY <1>3, <1>4

\* A page that nothing was done about.
LEMMA NewPageRight ==
  ASSUME NEW cf, TablesRight(cf), NEW t \in Nat, NEW u \in Nat, t <= u, NEW hist, <<>> \in hist, NEW n \in Nat
  PROVE  PageRight(NewPage(t), cf, u, hist, n)
<1>1. NewErrors(t) \in Errors /\ Spread(NewErrors(t), cf.page, u)
  BY NewErrorsSpread DEF TablesRight
<1>2. NewPage(t) = [ce |-> NewErrors(t), offlined |-> "online", triggered |-> FALSE, did |-> <<>>]
  BY DEF NewPage
<1>3. NewPage(t) \in PageEntries
  BY <1>1, <1>2 DEF PageEntries, States
<1>4. Outcome(<<>>) = "online"
  BY DEF Outcome
<1>5. Len(<<>>) = 0
  OBVIOUS
<1> QED BY <1>1, <1>2, <1>3, <1>4, <1>5 DEF PageRight

\* How a page is changed.
LEMMA Triggered ==
  ASSUME NEW mp \in PageEntries, NEW x, NEW y
  PROVE  [mp EXCEPT !.triggered = x, !.did = y]
           = [ce |-> mp.ce, offlined |-> mp.offlined, triggered |-> x, did |-> y]
<1> DEFINE r == [ce |-> mp.ce, offlined |-> mp.offlined, triggered |-> x, did |-> mp.did]
<1>1. [mp EXCEPT !.triggered = x] = r
  BY DEF PageEntries
<1>2. [r EXCEPT !.did = y] = [ce |-> mp.ce, offlined |-> mp.offlined, triggered |-> x, did |-> y]
  OBVIOUS
<1> HIDE DEF r
<1> QED BY <1>1, <1>2

\* The kernel was asked.
LEMMA TriedToOffline ==
  ASSUME NEW mp \in PageEntries, NEW x, NEW y
  PROVE  [mp EXCEPT !.did = y, !.offlined = x]
           = [ce |-> mp.ce, offlined |-> x, triggered |-> mp.triggered, did |-> y]
<1> DEFINE r == [ce |-> mp.ce, offlined |-> mp.offlined, triggered |-> mp.triggered, did |-> y]
<1>1. [mp EXCEPT !.did = y] = r
  BY DEF PageEntries
<1>2. [r EXCEPT !.offlined = x] = [ce |-> mp.ce, offlined |-> x, triggered |-> mp.triggered, did |-> y]
  OBVIOUS
<1> HIDE DEF r
<1> QED BY <1>1, <1>2

\* What is appended to a pair, or to one.
LEMMA Joined ==
  ASSUME NEW S, NEW s \in Seq(S), NEW t \in Seq(S), NEW z \in Seq(S), Len(z) = Len(s) + Len(t),
         \A i \in 1 .. Len(s) : z[i] = s[i], \A i \in 1 .. Len(t) : z[Len(s) + i] = t[i]
  PROVE  s \o t = z
<1> DEFINE w == s \o t
<1>1. w \in Seq(S) /\ Len(w) = Len(s) + Len(t)
      /\ \A i \in 1 .. Len(s) + Len(t) : w[i] = IF i <= Len(s) THEN s[i] ELSE t[i - Len(s)]
  BY ConcatProperties
<1>2. Len(s) \in Nat /\ Len(t) \in Nat
  OBVIOUS
<1> HIDE DEF w
<1>3. ASSUME NEW i \in 1 .. Len(w) PROVE w[i] = z[i]
  <2>1. CASE i <= Len(s)
    BY <1>1, <1>2, <1>3, <2>1
  <2>2. CASE ~(i <= Len(s))
    <3>1. i - Len(s) \in 1 .. Len(t) /\ Len(s) + (i - Len(s)) = i
      BY <1>1, <1>2, <1>3, <2>2
    <3>2. z[Len(s) + (i - Len(s))] = t[i - Len(s)]
      BY <3>1
    <3> QED BY <1>1, <2>2, <3>1, <3>2
  <2> QED BY <2>1, <2>2
<1>4. w = z
  BY <1>1, <1>3, SeqEqual
<1> QED BY <1>4 DEF w

\* Two and three words in a row.
LEMMA Joined2 ==
  ASSUME NEW S, NEW a \in S, NEW b \in S
  PROVE  <<a>> \o <<b>> = <<a, b>>
<1>1. <<a>> \in Seq(S) /\ <<b>> \in Seq(S) /\ <<a, b>> \in Seq(S)
  OBVIOUS
<1>2. Len(<<a>>) = 1 /\ Len(<<b>>) = 1 /\ Len(<<a, b>>) = 2
  OBVIOUS
<1>3. Len(<<a, b>>) = Len(<<a>>) + Len(<<b>>) /\ \A i \in 1 .. Len(<<a>>) : <<a, b>>[i] = <<a>>[i]
  BY <1>2
<1>4. \A i \in 1 .. Len(<<b>>) : <<a, b>>[Len(<<a>>) + i] = <<b>>[i]
  <2>1. \A i \in 1 .. 1 : i = 1
    OBVIOUS
  <2> QED BY <1>2, <2>1
<1> QED BY <1>1, <1>3, <1>4, Joined

\* And three.
LEMMA Joined3 ==
  ASSUME NEW S, NEW a \in S, NEW b \in S, NEW c \in S
  PROVE  <<a>> \o <<b, c>> = <<a, b, c>>
<1>1. <<a>> \in Seq(S) /\ <<b, c>> \in Seq(S) /\ <<a, b, c>> \in Seq(S)
  OBVIOUS
<1>2. Len(<<a>>) = 1 /\ Len(<<b, c>>) = 2 /\ Len(<<a, b, c>>) = 3
  OBVIOUS
<1>3. Len(<<a, b, c>>) = Len(<<a>>) + Len(<<b, c>>) /\ \A i \in 1 .. Len(<<a>>) : <<a, b, c>>[i] = <<a>>[i]
  BY <1>2
<1>4. \A i \in 1 .. Len(<<b, c>>) : <<a, b, c>>[Len(<<a>>) + i] = <<b, c>>[i]
  <2>1. \A i \in 1 .. 2 : i = 1 \/ i = 2
    OBVIOUS
  <2>2. <<a, b, c>>[1 + 1] = <<b, c>>[1] /\ <<a, b, c>>[1 + 2] = <<b, c>>[2]
    OBVIOUS
  <2> QED BY <1>2, <2>1, <2>2
<1> QED BY <1>1, <1>3, <1>4, Joined

\* The outcomes of the histories there can be.
LEMMA Outcomes ==
  /\ Outcome(<<"trigger", "soft">>) = "offline"
  /\ Outcome(<<"trigger", "hard">>) = "offline"
  /\ Outcome(<<"trigger", "soft-failed">>) = "offline-failed"
  /\ Outcome(<<"trigger", "hard-failed">>) = "offline-failed"
  /\ Outcome(<<"trigger", "soft-failed", "hard">>) = "offline"
  /\ Outcome(<<"trigger", "soft-failed", "hard-failed">>) = "offline-failed"
<1>1. \A a, b : <<a, b>> # <<>> /\ Len(<<a, b>>) = 2 /\ <<a, b>>[2] = b
  OBVIOUS
<1>2. \A a, b, c : <<a, b, c>> # <<>> /\ Len(<<a, b, c>>) = 3 /\ <<a, b, c>>[3] = c
  OBVIOUS
<1> QED BY <1>1, <1>2 DEF Outcome, Last

\* A page that is online triggers: how it ends is what is written down.
LEMMA Asked ==
  ASSUME conf.on, conf.offline \in {"soft", "hard", "soft-then-hard"}, NEW kernel
  PROVE  LET asked == memory_offline(conf.offline, kernel)
             did == <<"trigger">> \o asked
         IN  /\ did \in Seq(Words) /\ did \in Histories
             /\ Outcome(did) = IF Last(asked) \in {"soft", "hard"} THEN "offline" ELSE "offline-failed"
<1> DEFINE asked == memory_offline(conf.offline, kernel)
           did == <<"trigger">> \o asked
           Right(h) == /\ h \in Seq(Words) /\ h \in Histories
                       /\ Outcome(h) = IF Last(asked) \in {"soft", "hard"} THEN "offline" ELSE "offline-failed"
<1>1. \A b \in Words : <<"trigger">> \o <<b>> = <<"trigger", b>> /\ <<"trigger", b>> \in Seq(Words)
  <2>1. "trigger" \in Words
    BY DEF Words
  <2>2. ASSUME NEW b \in Words PROVE <<"trigger">> \o <<b>> = <<"trigger", b>> /\ <<"trigger", b>> \in Seq(Words)
    BY <2>1, Joined2
  <2> QED BY <2>2
<1>2. \A b, c \in Words : /\ <<"trigger">> \o <<b, c>> = <<"trigger", b, c>>
                          /\ <<"trigger", b, c>> \in Seq(Words)
  <2>1. "trigger" \in Words
    BY DEF Words
  <2>2. ASSUME NEW b \in Words, NEW c \in Words
        PROVE  <<"trigger">> \o <<b, c>> = <<"trigger", b, c>> /\ <<"trigger", b, c>> \in Seq(Words)
    BY <2>1, Joined3
  <2> QED BY <2>2
<1>3. \A b : Last(<<b>>) = b
  BY DEF Last
<1>4. \A b, c : Last(<<b, c>>) = c
  BY DEF Last
<1>5. {"soft", "hard", "soft-failed", "hard-failed"} \subseteq Words
  BY DEF Words
<1>6. CASE conf.offline = "soft"
  <2>1. asked = IF kernel.soft THEN <<"soft">> ELSE <<"soft-failed">>
    BY <1>6 DEF memory_offline
  <2>2. Histories = {<<>>, <<"trigger", "soft">>, <<"trigger", "soft-failed">>}
    BY <1>6 DEF Histories
  <2> HIDE DEF asked
  <2>3. \/ asked = <<"soft">> /\ did = <<"trigger", "soft">> /\ Last(asked) = "soft"
        \/ asked = <<"soft-failed">> /\ did = <<"trigger", "soft-failed">> /\ Last(asked) = "soft-failed"
    BY <1>1, <1>3, <1>5, <2>1
  <2> HIDE DEF did
  <2>4. did \in Seq(Words)
    BY <1>1, <1>2, <1>5, <2>3
  <2>5. did \in Histories
    BY <2>2, <2>3
  <2>6. Right(did)
    BY <2>3, <2>4, <2>5, Outcomes
  <2> QED BY <2>6 DEF did, asked
<1>7. CASE conf.offline = "hard"
  <2>1. asked = IF kernel.hard THEN <<"hard">> ELSE <<"hard-failed">>
    BY <1>7 DEF memory_offline
  <2>2. Histories = {<<>>, <<"trigger", "hard">>, <<"trigger", "hard-failed">>}
    BY <1>7 DEF Histories
  <2> HIDE DEF asked
  <2>3. \/ asked = <<"hard">> /\ did = <<"trigger", "hard">> /\ Last(asked) = "hard"
        \/ asked = <<"hard-failed">> /\ did = <<"trigger", "hard-failed">> /\ Last(asked) = "hard-failed"
    BY <1>1, <1>3, <1>5, <2>1
  <2> HIDE DEF did
  <2>4. did \in Seq(Words)
    BY <1>1, <1>2, <1>5, <2>3
  <2>5. did \in Histories
    BY <2>2, <2>3
  <2>6. Right(did)
    BY <2>3, <2>4, <2>5, Outcomes
  <2> QED BY <2>6 DEF did, asked
<1>8. CASE conf.offline = "soft-then-hard"
  <2>1. asked = IF kernel.soft THEN <<"soft">>
                ELSE <<"soft-failed", IF kernel.hard THEN "hard" ELSE "hard-failed">>
    BY <1>8 DEF memory_offline
  <2>2. Histories = {<<>>, <<"trigger", "soft">>, <<"trigger", "soft-failed", "hard">>,
                     <<"trigger", "soft-failed", "hard-failed">>}
    BY <1>8 DEF Histories
  <2> HIDE DEF asked
  <2>3. \/ asked = <<"soft">> /\ did = <<"trigger", "soft">> /\ Last(asked) = "soft"
        \/ /\ asked = <<"soft-failed", "hard">> /\ did = <<"trigger", "soft-failed", "hard">>
           /\ Last(asked) = "hard"
        \/ /\ asked = <<"soft-failed", "hard-failed">> /\ did = <<"trigger", "soft-failed", "hard-failed">>
           /\ Last(asked) = "hard-failed"
    BY <1>1, <1>2, <1>3, <1>4, <1>5, <2>1
  <2> HIDE DEF did
  <2>4. did \in Seq(Words)
    BY <1>1, <1>2, <1>5, <2>3
  <2>5. did \in Histories
    BY <2>2, <2>3
  <2>6. Right(did)
    BY <2>3, <2>4, <2>5, Outcomes
  <2> QED BY <2>6 DEF did, asked
<1> QED BY <1>6, <1>7, <1>8

\* The bucket of a page got full.
LEMMA PageFullKeeps ==
  ASSUME conf.on, conf.offline \in Offline, NEW n \in Nat, n < MaxRecords, NEW kernel,
         NEW mp \in PageEntries, mp.did \in Histories, mp.offlined = Outcome(mp.did),
         conf.offline \in {"off", "account"} => Len(mp.did) <= n
  PROVE  LET full == PageFull(mp, conf.offline, kernel)
         IN  /\ full \in PageEntries /\ full.ce = mp.ce
             /\ full.did \in Histories /\ full.offlined = Outcome(full.did)
             /\ conf.offline \in {"off", "account"} => Len(full.did) <= n + 1
<1> DEFINE full == PageFull(mp, conf.offline, kernel)
<1>1. /\ mp.ce \in Errors /\ mp.offlined \in States
      /\ mp.triggered \in BOOLEAN /\ mp.did \in Seq(Words) /\ Len(mp.did) \in Nat
  BY DEF PageEntries
<1>2. CASE mp.offlined # "online"
  <2>1. full = mp
    BY <1>2 DEF PageFull
  <2> HIDE DEF full
  <2> QED BY <1>1, <2>1 DEF full
<1>3. CASE mp.offlined = "online"
  <2> DEFINE did == Append(mp.did, "trigger")
             t == [mp EXCEPT !.triggered = TRUE, !.did = did]
  <2>1. full = offline_action(t, conf.offline, kernel)
    BY <1>3, Zenon DEF PageFull
  <2>2. t = [ce |-> mp.ce, offlined |-> mp.offlined, triggered |-> TRUE, did |-> did]
    <3>1. \A x, y : [mp EXCEPT !.triggered = x, !.did = y]
                      = [ce |-> mp.ce, offlined |-> mp.offlined, triggered |-> x, did |-> y]
      BY Triggered, Zenon
    <3> QED BY <3>1, Zenon
  <2>3. did \in Seq(Words) /\ Len(did) = Len(mp.did) + 1
    <3>1. "trigger" \in Words
      BY DEF Words
    <3> QED BY <1>1, <3>1
  <2> HIDE DEF did, t, full
  <2>4. t \in PageEntries /\ t.ce = mp.ce /\ t.offlined = "online" /\ t.did = did
    BY <1>1, <1>3, <2>2, <2>3 DEF PageEntries
  <2>5. CASE conf.offline \in {"off", "account"}
    <3>1. full = t
      BY <2>1, <2>5 DEF offline_action
    <3>2. Histories = UNION {[1 .. k -> {"trigger"}] : k \in 0 .. MaxRecords}
      BY <2>5 DEF Histories
    <3>3. PICK k \in 0 .. MaxRecords : mp.did \in [1 .. k -> {"trigger"}]
      BY <3>2
    <3>4. k \in Nat /\ Len(mp.did) = k /\ k <= n
      BY <1>1, <2>5, <3>3, BoundsAssumption
    <3>5. did \in [1 .. k + 1 -> {"trigger"}]
      <4>1. /\ did \in Seq(Words) /\ Len(did) = k + 1
            /\ \A i \in 1 .. k + 1 : did[i] = IF i <= k THEN mp.did[i] ELSE "trigger"
        BY <1>1, <2>3, <3>4 DEF did
      <4>2. \A i \in 1 .. k + 1 : did[i] = "trigger"
        BY <3>3, <3>4, <4>1
      <4> QED BY <3>4, <4>1, <4>2
    <3>6. k + 1 \in 0 .. MaxRecords
      BY <3>4, BoundsAssumption
    <3>7. did \in Histories
      BY <3>2, <3>5, <3>6
    <3>8. Outcome(did) = "online"
      <4>1. Last(did) = "trigger"
        BY <2>3, <3>4, <3>5 DEF Last
      <4> QED BY <4>1 DEF Outcome
    <3>9. Len(full.did) <= n + 1
      BY <2>3, <2>4, <3>1, <3>4
    <3> QED BY <2>4, <2>5, <3>1, <3>7, <3>8, <3>9 DEF full
  <2>6. CASE conf.offline \notin {"off", "account"}
    <3> DEFINE asked == memory_offline(conf.offline, kernel)
               new == t.did \o asked
               how == IF Last(asked) \in {"soft", "hard"} THEN "offline" ELSE "offline-failed"
    <3>1. full = [t EXCEPT !.did = new, !.offlined = how]
      BY <2>1, <2>6, Zenon DEF offline_action
    <3>2. conf.offline \in {"soft", "hard", "soft-then-hard"}
      BY <2>6 DEF Offline
    <3>3. mp.did = <<>>
      <4>1. mp.did = <<>> \/ mp.did \in {<<"trigger", "soft">>, <<"trigger", "soft-failed">>, <<"trigger", "hard">>,
              <<"trigger", "hard-failed">>, <<"trigger", "soft-failed", "hard">>,
              <<"trigger", "soft-failed", "hard-failed">>}
        BY <3>2 DEF Histories
      <4> QED BY <1>3, <4>1, Outcomes
    <3>4. new = <<"trigger">> \o asked
      <4>1. Append(<<>>, "trigger") = <<"trigger">>
        OBVIOUS
      <4> HIDE DEF asked
      <4> QED BY <2>4, <3>3, <4>1 DEF did
    <3>5. new \in Seq(Words) /\ new \in Histories /\ Outcome(new) = how
      BY <3>2, <3>4, Asked
    <3>6. how \in States
      BY DEF States
    <3> HIDE DEF new, how, asked
    <3>7. full = [ce |-> t.ce, offlined |-> how, triggered |-> t.triggered, did |-> new]
      BY <2>4, <3>1, TriedToOffline, Zenon
    <3>8. full \in PageEntries /\ full.ce = mp.ce /\ full.did = new /\ full.offlined = how
      BY <2>4, <3>5, <3>6, <3>7 DEF PageEntries
    <3> QED BY <2>6, <3>5, <3>8 DEF full
  <2> QED BY <2>5, <2>6
<1> QED BY <1>2, <1>3

-----------------------------------------------------------------------------
(* The tree of the pages *)

\* There is a largest page number.
LEMMA Top == \E top \in Nat : \A p \in Pages : p \in 1 .. top
<1>1. PICK n \in Nat : \E f : f \in Surjection(1 .. n, Pages)
  BY PagesAssumption, FS_NatSurjection DEF ExistsSurjection
<1>2. PICK f : f \in Surjection(1 .. n, Pages)
  BY <1>1
<1>3. f \in [1 .. n -> Pages] /\ \A p \in Pages : \E i \in 1 .. n : f[i] = p
  BY <1>2 DEF Surjection
<1> DEFINE P == {k \in 0 .. n : \E top \in Nat : \A i \in 1 .. k : f[i] <= top}
<1>4. 0 \in P
  OBVIOUS
<1>5. ASSUME NEW k \in 1 .. n, k - 1 \in P PROVE k \in P
  <2>1. PICK top \in Nat : \A i \in 1 .. k - 1 : f[i] <= top
    BY <1>5
  <2>2. f[k] \in Nat /\ \A i \in 1 .. k : f[i] \in Nat /\ (i = k \/ i \in 1 .. k - 1)
    <3>1. \A i \in 1 .. n : f[i] \in Nat
      BY <1>3, PagesAssumption
    <3>2. k \in 1 .. n /\ \A i \in 1 .. k : i \in 1 .. n /\ (i = k \/ i \in 1 .. k - 1)
      OBVIOUS
    <3> QED BY <3>1, <3>2
  <2>3. top + f[k] \in Nat /\ \A i \in 1 .. k : f[i] <= top + f[k]
    BY <2>1, <2>2
  <2>4. k \in 0 .. n
    OBVIOUS
  <2> QED BY <2>3, <2>4
<1>6. n \in P
  <2> HIDE DEF P
  <2>1. \A k \in 0 .. n : k \in P
    BY <1>4, <1>5, UpTo
  <2> QED BY <2>1
<1>7. PICK top \in Nat : \A i \in 1 .. n : f[i] <= top
  BY <1>6
<1>8. \A p \in Pages : p \in 1 .. top
  BY <1>3, <1>7, PagesAssumption
<1> QED BY <1>8

Nodes == Pages \cup {NULL}
Trees == [root : Nodes, p : [Pages -> Nodes], red : [Pages -> BOOLEAN], ch : [{"l", "r"} -> [Pages -> Nodes]]]

\* Every node of the tree has numbers between those of lo and hi below it,
\* and was born after its parent.
Shape(t, In, born, lo, hi, last) ==
  /\ t \in Trees /\ In \subseteq Pages
  /\ last \in Nat /\ born \in [Pages -> 0 .. last] /\ lo \in [Pages -> Nat] /\ hi \in [Pages -> Nat]
  /\ t.root = NULL => In = {}
  /\ t.root # NULL => /\ t.root \in In /\ t.p[t.root] = NULL
                      /\ \A q \in Pages : lo[t.root] < q /\ q < hi[t.root]
  /\ \A n \in Pages \ In : t.p[n] = NULL /\ t.ch["l"][n] = NULL /\ t.ch["r"][n] = NULL
  /\ \A n \in In :
       /\ lo[n] < n /\ n < hi[n]
       /\ n # t.root => t.p[n] \in In /\ n \in {t.ch["l"][t.p[n]], t.ch["r"][t.p[n]]}
       /\ t.ch["l"][n] # NULL =>
            LET c == t.ch["l"][n] IN c \in In /\ t.p[c] = n /\ born[n] < born[c] /\ lo[c] = lo[n] /\ hi[c] = n
       /\ t.ch["r"][n] # NULL =>
            LET c == t.ch["r"][n] IN c \in In /\ t.p[c] = n /\ born[n] < born[c] /\ lo[c] = n /\ hi[c] = hi[n]

TreeRight(t) == \E In, born, lo, hi, last : Shape(t, In, born, lo, hi, last)

\* The nodes of the tree: the root, and those that have a parent.
Members(t) == {n \in Pages : n = t.root \/ t.p[n] # NULL}

\* NULL is not a page.
LEMMA PageFacts == NULL \notin Pages /\ NULL = 0 /\ \A p \in Pages : p \in Nat /\ p > 0
BY PagesAssumption DEF NULL

\* The nodes of a tree are those of its shape.
LEMMA MembersIn ==
  ASSUME NEW t, NEW In, NEW born, NEW lo, NEW hi, NEW last, Shape(t, In, born, lo, hi, last)
  PROVE  In = Members(t)
<1>1. In \subseteq Pages /\ \A n \in Pages : n # NULL
  BY PageFacts DEF Shape
<1>2. ASSUME NEW n \in In PROVE n = t.root \/ t.p[n] # NULL
  BY <1>1 DEF Shape
<1>3. ASSUME NEW n \in Pages, n \notin In PROVE n # t.root /\ t.p[n] = NULL
  BY <1>1, <1>3 DEF Shape
<1> QED BY <1>1, <1>2, <1>3 DEF Members

\* rb_first(), rb_last() of a part of the tree: down on one side.
LEMMA Descends ==
  ASSUME NEW t, NEW In, NEW born, NEW lo, NEW hi, NEW last, Shape(t, In, born, lo, hi, last), NEW n \in In
  PROVE  LET d == Descend(t, n, "l") IN d \in In /\ lo[d] = lo[n] /\ t.ch["l"][d] = NULL
<1> DEFINE c == t.ch["l"]
           f == CHOOSE f : f = [m \in DOMAIN t.p |-> IF c[m] = NULL THEN m ELSE f[c[m]]]
           base == [m \in Pages |-> m]
           next == [m \in Pages |-> IF c[m] = NULL THEN m ELSE c[m]]
           same == [m \in Pages |-> [s \in Pages |-> s]]
           rank == [m \in Pages |-> last - born[m]]
           Stop == {m \in Pages : c[m] = NULL}
<1>1. Descend(t, n, "l") = f[n]
  BY DEF Descend
<1>2. /\ DOMAIN t.p = Pages /\ c \in [Pages -> Nodes] /\ In \subseteq Pages /\ last \in Nat
      /\ born \in [Pages -> 0 .. last]
  BY DEF Shape, Trees
<1>3. \A m \in Pages : c[m] # NULL => m \in In /\ c[m] \in In /\ born[m] < born[c[m]] /\ lo[c[m]] = lo[m]
  BY DEF Shape
<1> HIDE DEF c
<1>4. \E g : Defined(g, Pages, Pages, Stop, base, next, same)
  <2>1. rank \in [Pages -> 0 .. last]
    BY <1>2
  <2>2. base \in [Pages -> Pages] /\ next \in [Pages -> Pages] /\ same \in [Pages -> [Pages -> Pages]]
    BY <1>2, <1>3
  <2>3. \A m \in Pages : m \notin Stop => rank[next[m]] < rank[m]
    BY <1>2, <1>3
  <2> HIDE DEF rank, base, next, same, Stop
  <2> QED BY <1>2, <2>1, <2>2, <2>3, Fixpoint
<1>5. PICK g : Defined(g, Pages, Pages, Stop, base, next, same)
  BY <1>4
<1>6. g = [m \in DOMAIN t.p |-> IF c[m] = NULL THEN m ELSE g[c[m]]]
  <2>1. g \in [Pages -> Pages] /\ \A m \in Pages : g[m] = IF m \in Stop THEN base[m] ELSE same[m][g[next[m]]]
    BY <1>5 DEF Defined
  <2>2. ASSUME NEW m \in Pages PROVE g[m] = IF c[m] = NULL THEN m ELSE g[c[m]]
    <3>1. c[m] # NULL => next[m] = c[m] /\ c[m] \in Pages /\ g[c[m]] \in Pages
      BY <1>2, <1>3, <2>1
    <3> HIDE DEF next
    <3> QED BY <2>1, <3>1
  <2> QED BY <1>2, <2>1, <2>2
<1>7. f = [m \in DOMAIN t.p |-> IF c[m] = NULL THEN m ELSE f[c[m]]]
  BY <1>6
<1> HIDE DEF f
<1> DEFINE P == {m \in In : f[m] \in In /\ lo[f[m]] = lo[m] /\ c[f[m]] = NULL}
           down == [m \in In |-> last - born[m]]
<1>8. In = P
  <2>1. down \in [In -> 0 .. last]
    BY <1>2
  <2>2. ASSUME NEW m \in In, \A k \in In : down[k] < down[m] => k \in P PROVE m \in P
    <3>1. CASE c[m] = NULL
      BY <1>2, <1>7, <3>1
    <3>2. CASE c[m] # NULL
      <4>1. c[m] \in In /\ down[c[m]] < down[m] /\ lo[c[m]] = lo[m] /\ f[m] = f[c[m]]
        BY <1>2, <1>3, <1>7, <3>2
      <4> QED BY <2>2, <4>1
    <3> QED BY <3>1, <3>2
  <2>3. P \in SUBSET In
    OBVIOUS
  <2> HIDE DEF P, down
  <2> QED BY <1>2, <2>1, <2>2, <2>3, ByRank
<1> QED BY <1>1, <1>8 DEF P, c

\* Up from a right child, to the first node that is larger.
LEMMA Climbs ==
  ASSUME NEW t, NEW In, NEW born, NEW lo, NEW hi, NEW last, Shape(t, In, born, lo, hi, last), NEW n \in Pages
  PROVE  LET u == Climb(t, n, "r")
         IN  /\ u = NULL \/ (n \in In /\ u \in In /\ u = hi[n])
             /\ n \in In /\ u = NULL => hi[n] = hi[t.root]
<1> DEFINE p == t.p
           c == t.ch["r"]
           Right(m) == p[m] # NULL /\ m = c[p[m]]
           f == CHOOSE f : f = [m \in DOMAIN p |-> IF Right(m) THEN f[p[m]] ELSE p[m]]
           base == [m \in Pages |-> p[m]]
           next == [m \in Pages |-> IF Right(m) THEN p[m] ELSE m]
           same == [m \in Pages |-> [s \in Nodes |-> s]]
           Stop == {m \in Pages : ~Right(m)}
<1>1. Climb(t, n, "r") = f[n]
  BY DEF Climb
<1>2. /\ DOMAIN p = Pages /\ p \in [Pages -> Nodes] /\ c \in [Pages -> Nodes] /\ In \subseteq Pages
      /\ last \in Nat /\ born \in [Pages -> 0 .. last]
  BY DEF Shape, Trees
<1>3. ASSUME NEW m \in Pages, Right(m)
      PROVE  m \in In /\ p[m] \in In /\ born[p[m]] < born[m] /\ hi[m] = hi[p[m]]
  <2>1. m \in In
    BY <1>3 DEF Shape
  <2>2. m # t.root /\ p[m] \in In
    BY <1>3, <2>1 DEF Shape
  <2>3. c[p[m]] # NULL
    BY <1>3, PageFacts
  <2> QED BY <1>3, <2>1, <2>2, <2>3 DEF Shape
<1>4. ASSUME NEW m \in In, ~Right(m)
      PROVE  (p[m] = NULL /\ hi[m] = hi[t.root]) \/ (p[m] # NULL /\ p[m] \in In /\ p[m] = hi[m])
  <2>1. CASE m = t.root
    <3>1. t.root # NULL
      BY <1>2, <2>1, PageFacts
    <3> QED BY <2>1, <3>1 DEF Shape
  <2>2. CASE m # t.root
    <3>1. p[m] \in In /\ m \in {t.ch["l"][p[m]], c[p[m]]}
      BY <2>2 DEF Shape
    <3>2. m = t.ch["l"][p[m]] /\ m # NULL /\ p[m] # NULL
      BY <1>2, <1>4, <3>1, PageFacts
    <3> QED BY <3>1, <3>2 DEF Shape
  <2> QED BY <2>1, <2>2
<1>5. \A m \in Pages : m \notin In => p[m] = NULL
  BY DEF Shape
<1> HIDE DEF p, c
<1>6. PICK g : Defined(g, Pages, Nodes, Stop, base, next, same)
  <2>1. base \in [Pages -> Nodes] /\ next \in [Pages -> Pages] /\ same \in [Pages -> [Nodes -> Nodes]]
    BY <1>2, <1>3
  <2>2. \A m \in Pages : m \notin Stop => born[next[m]] < born[m]
    BY <1>2, <1>3
  <2> HIDE DEF base, next, same, Stop
  <2>3. \E g : Defined(g, Pages, Nodes, Stop, base, next, same)
    BY <1>2, <2>1, <2>2, Fixpoint
  <2> QED BY <2>3
<1>7. g = [m \in DOMAIN p |-> IF Right(m) THEN g[p[m]] ELSE p[m]]
  <2>1. g \in [Pages -> Nodes] /\ \A m \in Pages : g[m] = IF m \in Stop THEN base[m] ELSE same[m][g[next[m]]]
    BY <1>6 DEF Defined
  <2>2. ASSUME NEW m \in Pages PROVE g[m] = IF Right(m) THEN g[p[m]] ELSE p[m]
    <3>1. Right(m) => next[m] = p[m] /\ p[m] \in Pages /\ g[p[m]] \in Nodes
      BY <1>2, <1>3, <2>1
    <3> HIDE DEF next
    <3> QED BY <2>1, <3>1
  <2> QED BY <1>2, <2>1, <2>2
<1>8. f = [m \in DOMAIN p |-> IF Right(m) THEN f[p[m]] ELSE p[m]]
  BY <1>7
<1> HIDE DEF f
<1> DEFINE P == {m \in In : \/ f[m] = NULL /\ hi[m] = hi[t.root]
                            \/ f[m] # NULL /\ f[m] \in In /\ f[m] = hi[m]}
           age == [m \in In |-> born[m]]
<1>9. In = P
  <2>1. age \in [In -> 0 .. last]
    BY <1>2
  <2>2. ASSUME NEW m \in In, \A k \in In : age[k] < age[m] => k \in P PROVE m \in P
    <3>1. CASE ~Right(m)
      <4>1. f[m] = p[m]
        BY <1>2, <1>8, <3>1
      <4> QED BY <1>4, <3>1, <4>1
    <3>2. CASE Right(m)
      <4>1. p[m] \in In /\ age[p[m]] < age[m] /\ hi[p[m]] = hi[m] /\ f[m] = f[p[m]]
        BY <1>2, <1>3, <1>8, <3>2
      <4> QED BY <2>2, <4>1
    <3> QED BY <3>1, <3>2
  <2>3. P \in SUBSET In
    OBVIOUS
  <2> HIDE DEF P, age
  <2> QED BY <1>2, <2>1, <2>2, <2>3, ByRank
<1>10. CASE n \in In
  BY <1>1, <1>9, <1>10 DEF P
<1>11. CASE n \notin In
  <2>1. f[n] = NULL
    BY <1>2, <1>8, <1>5, <1>11
  <2> QED BY <1>1, <1>11, <2>1
<1> QED BY <1>10, <1>11

\* mempage_lookup() finds every page that is in the tree: no node on its way
\* lacks the child on its side.  It finds no other.
LEMMA LookupFinds ==
  ASSUME NEW t, NEW In, NEW born, NEW lo, NEW hi, NEW last, Shape(t, In, born, lo, hi, last), NEW a \in Pages
  PROVE  /\ mempage_lookup(t, a) # NULL <=> a \in In
         /\ a \in In => \A n \in In : lo[n] < a /\ a < hi[n] /\ n # a =>
                                     t.ch[IF a < n THEN "l" ELSE "r"][n] # NULL
<1> DEFINE below(n) == t.ch[IF a < n THEN "l" ELSE "r"][n]
           f == CHOOSE f : f = [n \in Nodes |-> IF n \in {NULL, a} THEN n ELSE f[below(n)]]
           base == [n \in Nodes |-> n]
           next == [n \in Nodes |-> IF n = NULL THEN NULL ELSE below(n)]
           same == [n \in Nodes |-> [s \in Nodes |-> s]]
           rank == [n \in Nodes |-> IF n = NULL THEN 0 ELSE last + 1 - born[n]]
<1>1. mempage_lookup(t, a) = f[t.root]
  BY DEF mempage_lookup, Nodes
<1>2. /\ In \subseteq Pages /\ last \in Nat /\ born \in [Pages -> 0 .. last] /\ t.root \in Nodes /\ a \in Nat
      /\ lo \in [Pages -> Nat] /\ hi \in [Pages -> Nat]
  BY PageFacts DEF Shape, Trees
<1>3. ASSUME NEW n \in Pages
      PROVE  below(n) = NULL \/ (n \in In /\ below(n) \in In /\ born[n] < born[below(n)])
  BY DEF Shape
<1>4. ASSUME NEW n \in In, n # t.root, lo[n] < a, a < hi[n]
      PROVE  /\ t.p[n] \in In /\ born[t.p[n]] < born[n] /\ below(t.p[n]) = n /\ t.p[n] # a
             /\ lo[t.p[n]] < a /\ a < hi[t.p[n]]
  <2> DEFINE q == t.p[n]
  <2>1. q \in In /\ n \in {t.ch["l"][q], t.ch["r"][q]} /\ n # NULL
    BY <1>2, <1>4, PageFacts DEF Shape
  <2> HIDE DEF q
  <2>2. q \in Nat /\ lo[q] < q /\ q < hi[q] /\ lo[q] \in Nat /\ hi[q] \in Nat
    BY <1>2, <2>1, PageFacts DEF Shape
  <2>3. CASE n = t.ch["l"][q]
    <3>1. born[q] < born[n] /\ lo[n] = lo[q] /\ hi[n] = q
      BY <2>1, <2>3 DEF Shape
    <3>2. a < q /\ a # q
      BY <1>2, <1>4, <2>2, <3>1
    <3> QED BY <1>2, <1>4, <2>1, <2>2, <2>3, <3>1, <3>2 DEF q
  <2>4. CASE n = t.ch["r"][q]
    <3>1. born[q] < born[n] /\ lo[n] = q /\ hi[n] = hi[q]
      BY <2>1, <2>4 DEF Shape
    <3>2. ~(a < q) /\ a # q
      BY <1>2, <1>4, <2>2, <3>1
    <3> QED BY <1>2, <1>4, <2>1, <2>2, <2>4, <3>1, <3>2 DEF q
  <2> QED BY <2>1, <2>3, <2>4
<1> HIDE DEF below
<1>5. rank \in [Nodes -> 0 .. last + 1] /\ last + 1 \in Nat
  <2>1. ASSUME NEW n \in Nodes, n # NULL PROVE last + 1 - born[n] \in 0 .. last + 1
    <3>1. born[n] \in 0 .. last
      BY <1>2, <2>1 DEF Nodes
    <3> QED BY <1>2, <3>1
  <2>2. 0 \in 0 .. last + 1
    BY <1>2
  <2> QED BY <1>2, <2>1, <2>2
<1>6. ASSUME NEW n \in Nodes, n \notin {NULL, a}
      PROVE  /\ n \in Pages /\ next[n] = below(n) /\ below(n) \in Nodes /\ rank[below(n)] < rank[n]
             /\ below(n) = NULL \/ below(n) \in In
  <2>1. n \in Pages /\ n # NULL /\ next[n] = below(n) /\ rank[n] = last + 1 - born[n] /\ born[n] \in 0 .. last
    BY <1>2, <1>6 DEF Nodes
  <2>2. CASE below(n) = NULL
    <3>1. rank[below(n)] = 0 /\ below(n) \in Nodes
      BY <2>2 DEF Nodes
    <3> HIDE DEF rank, next
    <3> QED BY <1>2, <2>1, <2>2, <3>1
  <2>3. CASE below(n) # NULL
    <3>1. below(n) \in Pages /\ below(n) \in In /\ born[n] < born[below(n)]
      BY <1>2, <1>3, <2>1, <2>3
    <3>2. rank[below(n)] = last + 1 - born[below(n)] /\ born[below(n)] \in 0 .. last /\ below(n) \in Nodes
      BY <1>2, <2>3, <3>1 DEF Nodes
    <3> HIDE DEF rank, next
    <3> QED BY <1>2, <2>1, <3>1, <3>2
  <2> QED BY <2>2, <2>3
<1>7. PICK g : Defined(g, Nodes, Nodes, {NULL, a}, base, next, same)
  <2>1. base \in [Nodes -> Nodes] /\ next \in [Nodes -> Nodes] /\ same \in [Nodes -> [Nodes -> Nodes]]
    <3>1. NULL \in Nodes /\ \A n \in Nodes : n # NULL => below(n) \in Nodes
      BY <1>2, <1>3 DEF Nodes
    <3> QED BY <3>1
  <2>2. \A n \in Nodes : n \notin {NULL, a} => rank[next[n]] < rank[n]
    <3> HIDE DEF rank, next
    <3> QED BY <1>6
  <2> HIDE DEF rank, base, next, same
  <2>3. \E g : Defined(g, Nodes, Nodes, {NULL, a}, base, next, same)
    BY <1>5, <2>1, <2>2, Fixpoint
  <2> QED BY <2>3
<1>8. g = [n \in Nodes |-> IF n \in {NULL, a} THEN n ELSE g[below(n)]]
  <2>1. g \in [Nodes -> Nodes]
        /\ \A n \in Nodes : g[n] = IF n \in {NULL, a} THEN base[n] ELSE same[n][g[next[n]]]
    BY <1>7 DEF Defined
  <2>2. ASSUME NEW n \in Nodes PROVE g[n] = IF n \in {NULL, a} THEN n ELSE g[below(n)]
    <3>1. n # NULL => next[n] = below(n) /\ below(n) \in Nodes
      BY <1>2, <1>3 DEF Nodes
    <3>2. n # NULL => g[below(n)] \in Nodes
      BY <2>1, <3>1
    <3> HIDE DEF next
    <3> QED BY <2>1, <3>1, <3>2
  <2> QED BY <2>1, <2>2
<1>9. f = [n \in Nodes |-> IF n \in {NULL, a} THEN n ELSE f[below(n)]]
  BY <1>8
<1> HIDE DEF f
<1> DEFINE P == {n \in In : lo[n] < a /\ a < hi[n] => f[t.root] = f[n]}
           age == [n \in In |-> born[n]]
<1>10. In = P
  <2>1. ASSUME NEW n \in In, \A m \in In : age[m] < age[n] => m \in P PROVE n \in P
    <3>1. CASE n = t.root \/ ~(lo[n] < a /\ a < hi[n])
      BY <3>1
    <3>2. CASE n # t.root /\ lo[n] < a /\ a < hi[n]
      <4> DEFINE q == t.p[n]
      <4>1. q \in In /\ born[q] < born[n] /\ below(q) = n /\ q # a /\ lo[q] < a /\ a < hi[q]
        BY <1>4, <3>2
      <4> HIDE DEF q
      <4>2. q \in P
        <5>1. age[q] < age[n]
          BY <4>1
        <5> HIDE DEF P, age
        <5> QED BY <2>1, <4>1, <5>1
      <4>3. q \in Nodes /\ q \notin {NULL, a}
        BY <1>2, <4>1, PageFacts DEF Nodes
      <4>4. f[q] = f[n]
        BY <1>9, <4>1, <4>3
      <4> QED BY <4>1, <4>2, <4>4
    <3> QED BY <3>1, <3>2
  <2>2. age \in [In -> 0 .. last] /\ P \in SUBSET In /\ last \in Nat
    BY <1>2
  <2> HIDE DEF P, age
  <2> QED BY <2>1, <2>2, ByRank
<1>11. f[NULL] = NULL /\ f[a] = a /\ a # NULL
  BY <1>2, <1>9, PageFacts DEF Nodes
<1>12. CASE a \in In
  <2>1. lo[a] < a /\ a < hi[a]
    BY <1>12 DEF Shape
  <2>2. f[t.root] = a
    BY <1>10, <1>11, <1>12, <2>1
  <2>3. ASSUME NEW n \in In, lo[n] < a, a < hi[n], n # a PROVE below(n) # NULL
    <3>1. f[t.root] = f[n]
      BY <1>10, <2>3
    <3>2. f[n] = f[below(n)]
      BY <1>2, <1>9, <2>3, PageFacts DEF Nodes
    <3> QED BY <1>11, <2>2, <3>1, <3>2
  <2> QED BY <1>1, <1>11, <1>12, <2>2, <2>3 DEF below
<1>13. CASE a \notin In
  <2> DEFINE R == {n \in Nodes : n # a => f[n] = NULL}
  <2>1. ASSUME NEW n \in Nodes, \A m \in Nodes : rank[m] < rank[n] => m \in R PROVE n \in R
    <3>1. CASE n \in {NULL, a}
      BY <1>11, <3>1
    <3>2. CASE n \notin {NULL, a}
      <4>1. /\ below(n) \in Nodes /\ rank[below(n)] < rank[n]
            /\ below(n) = NULL \/ below(n) \in In
        BY <1>6, <3>2
      <4>2. below(n) \in R /\ below(n) # a
        <5> HIDE DEF R, rank
        <5> QED BY <1>11, <1>13, <2>1, <4>1
      <4>3. f[n] = f[below(n)]
        BY <1>9, <3>2
      <4> QED BY <4>2, <4>3
    <3> QED BY <3>1, <3>2
  <2>2. Nodes = R
    <3>1. R \in SUBSET Nodes
      OBVIOUS
    <3> HIDE DEF R, rank
    <3> QED BY <1>5, <2>1, <3>1, ByRank
  <2>3. t.root # a
    BY <1>11, <1>13 DEF Shape
  <2> QED BY <1>1, <1>2, <1>13, <2>2, <2>3
<1> QED BY <1>12, <1>13

\* rb_next() is the next node of the tree.
LEMMA NextIsNext ==
  ASSUME NEW t, NEW In, NEW born, NEW lo, NEW hi, NEW last, Shape(t, In, born, lo, hi, last), NEW n \in In
  PROVE  LET s == rb_step(t, n, "r")
         IN  /\ s = NULL => \A m \in In : m <= n
             /\ s # NULL => s \in In /\ n < s /\ \A m \in In : n < m => s <= m
<1>1. /\ In \subseteq Pages /\ lo \in [Pages -> Nat] /\ hi \in [Pages -> Nat] /\ born \in [Pages -> 0 .. last]
      /\ n \in Pages /\ \A m \in In : m \in Nat /\ m # NULL /\ m \in Pages
  BY PageFacts DEF Shape
<1>2. Other("r") = "l"
  BY DEF Other
<1>3. t.p[n] # n
  <2>1. CASE n = t.root
    BY <1>1, <2>1 DEF Shape
  <2>2. CASE n # t.root
    <3> DEFINE q == t.p[n]
    <3>1. q \in In /\ n \in {t.ch["l"][q], t.ch["r"][q]}
      BY <2>2 DEF Shape
    <3> HIDE DEF q
    <3>2. born[q] < born[n]
      BY <1>1, <3>1 DEF Shape
    <3>3. born[n] \in Nat
      BY <1>1 DEF Shape
    <3> QED BY <3>2, <3>3 DEF q
  <2> QED BY <2>1, <2>2
<1>4. ASSUME NEW k \in In, NEW m \in In, lo[k] < m, m < hi[k], m # k
      PROVE  t.ch[IF m < k THEN "l" ELSE "r"][k] # NULL
  <2>1. m \in Pages
    BY <1>1
  <2> QED BY <1>4, <2>1, LookupFinds
<1>5. CASE t.ch["r"][n] # NULL
  <2> DEFINE c == t.ch["r"][n]
             d == Descend(t, c, "l")
  <2>1. rb_step(t, n, "r") = d
    BY <1>2, <1>3, <1>5 DEF rb_step
  <2>2. c \in In /\ lo[c] = n /\ hi[c] = hi[n]
    BY <1>5 DEF Shape
  <2> HIDE DEF c
  <2>3. d \in In /\ lo[d] = lo[c] /\ t.ch["l"][d] = NULL
    BY <2>2, Descends
  <2> HIDE DEF d
  <2>4. lo[d] < d /\ d < hi[d]
    BY <2>3 DEF Shape
  <2>5. ASSUME NEW m \in In, n < m PROVE d <= m
    <3>1. CASE m < d
      <4>1. lo[d] < m /\ m < hi[d] /\ m # d
        BY <1>1, <1>5, <2>2, <2>3, <2>4, <2>5, <3>1
      <4>2. t.ch[IF m < d THEN "l" ELSE "r"][d] # NULL
        BY <1>4, <2>3, <4>1
      <4> QED BY <2>3, <3>1, <4>2
    <3> QED BY <1>1, <2>3, <3>1
  <2> QED BY <1>1, <2>1, <2>2, <2>3, <2>4, <2>5
<1>6. CASE t.ch["r"][n] = NULL
  <2> DEFINE u == Climb(t, n, "r")
  <2>1. rb_step(t, n, "r") = u
    BY <1>3, <1>6 DEF rb_step
  <2>2. /\ u = NULL \/ (u \in In /\ u = hi[n])
        /\ u = NULL => hi[n] = hi[t.root]
    BY <1>1, Climbs
  <2> HIDE DEF u
  <2>3. lo[n] < n /\ n < hi[n] /\ \A m \in In : m < hi[t.root]
    <3>1. t.root # NULL
      BY DEF Shape
    <3> QED BY <1>1, <3>1 DEF Shape
  <2>4. ASSUME NEW m \in In, n < m PROVE ~(m < hi[n])
    <3>1. CASE m < hi[n]
      <4>1. lo[n] < m /\ m # n /\ ~(m < n)
        BY <1>1, <2>3, <2>4
      <4>2. t.ch[IF m < n THEN "l" ELSE "r"][n] # NULL
        BY <1>4, <3>1, <4>1
      <4> QED BY <1>6, <4>1, <4>2
    <3> QED BY <3>1
  <2> QED BY <1>1, <2>1, <2>2, <2>3, <2>4
<1> QED BY <1>5, <1>6

\* rb_first() is the first node.
LEMMA FirstIsFirst ==
  ASSUME NEW t, NEW In, NEW born, NEW lo, NEW hi, NEW last, Shape(t, In, born, lo, hi, last)
  PROVE  LET d == rb_end(t, "l")
         IN  /\ d = NULL => In = {}
             /\ d # NULL => d \in In /\ \A m \in In : d <= m
<1>1. /\ In \subseteq Pages /\ lo \in [Pages -> Nat] /\ hi \in [Pages -> Nat]
      /\ \A m \in In : m \in Nat /\ m # NULL /\ m \in Pages
  BY PageFacts DEF Shape
<1>2. CASE t.root = NULL
  BY <1>2 DEF rb_end, Shape
<1>3. CASE t.root # NULL
  <2> DEFINE d == Descend(t, t.root, "l")
  <2>1. rb_end(t, "l") = d
    BY <1>3 DEF rb_end
  <2>2. t.root \in In /\ \A m \in In : lo[t.root] < m
    BY <1>1, <1>3 DEF Shape
  <2>3. d \in In /\ lo[d] = lo[t.root] /\ t.ch["l"][d] = NULL
    BY <2>2, Descends
  <2> HIDE DEF d
  <2>4. lo[d] < d /\ d < hi[d]
    BY <2>3 DEF Shape
  <2>5. ASSUME NEW m \in In PROVE d <= m
    <3>1. CASE m < d
      <4>1. lo[d] < m /\ m < hi[d] /\ m # d /\ m \in Pages
        BY <1>1, <2>2, <2>3, <2>4, <3>1
      <4>2. t.ch[IF m < d THEN "l" ELSE "r"][d] # NULL
        BY <2>3, <4>1, LookupFinds
      <4> QED BY <2>3, <3>1, <4>2
    <3> QED BY <1>1, <2>3, <3>1
  <2> QED BY <1>1, <2>1, <2>3, <2>5
<1> QED BY <1>2, <1>3

Ascends(s) == s \in Seq(Pages) /\ \A i \in 2 .. Len(s) : s[i - 1] < s[i]

\* A smaller number in front.
LEMMA InFront ==
  ASSUME NEW n \in Pages, NEW s, Ascends(s), s = <<>> \/ n < s[1]
  PROVE  Ascends(<<n>> \o s) /\ (<<n>> \o s)[1] = n
<1> DEFINE w == <<n>> \o s
<1>1. s \in Seq(Pages) /\ <<n>> \in Seq(Pages) /\ Len(<<n>>) = 1 /\ <<n>>[1] = n /\ Len(s) \in Nat
  BY DEF Ascends
<1>2. /\ w \in Seq(Pages) /\ Len(w) = Len(<<n>>) + Len(s)
      /\ \A i \in 1 .. Len(<<n>>) + Len(s) : w[i] = IF i <= Len(<<n>>) THEN <<n>>[i] ELSE s[i - Len(<<n>>)]
  BY <1>1, ConcatProperties
<1> HIDE DEF w
<1>3. Len(w) = 1 + Len(s) /\ w[1] = n /\ \A i \in 2 .. 1 + Len(s) : i - 1 \in 1 .. Len(s) /\ w[i] = s[i - 1]
  BY <1>1, <1>2
<1>4. ASSUME NEW i \in 2 .. Len(w) PROVE w[i - 1] < w[i]
  <2>1. CASE i = 2
    <3>1. s # <<>> /\ w[2 - 1] = n /\ w[2] = s[1]
      <4>1. Len(s) >= 1
        BY <1>1, <1>3, <1>4, <2>1
      <4>2. Len(<<>>) = 0
        OBVIOUS
      <4>3. 2 - 1 = 1 /\ 2 \in 2 .. 1 + Len(s)
        BY <1>1, <4>1
      <4> QED BY <1>3, <4>1, <4>2, <4>3
    <3> QED BY <2>1, <3>1
  <2>2. CASE i # 2
    <3>1. i - 1 \in 2 .. 1 + Len(s) /\ i \in 2 .. 1 + Len(s) /\ i - 1 \in 2 .. Len(s)
      BY <1>1, <1>3, <1>4, <2>2
    <3>2. w[i] = s[i - 1] /\ w[i - 1] = s[(i - 1) - 1]
      BY <1>3, <3>1
    <3> QED BY <3>1, <3>2 DEF Ascends
  <2> QED BY <2>1, <2>2
<1> QED BY <1>2, <1>3, <1>4 DEF w, Ascends

\* The elements of a sequence with one more in front.
LEMMA InFrontSet ==
  ASSUME NEW n \in Pages, NEW s \in Seq(Pages)
  PROVE  ToSet(<<n>> \o s) = {n} \cup ToSet(s)
<1> DEFINE w == <<n>> \o s
<1>1. <<n>> \in Seq(Pages) /\ Len(<<n>>) = 1 /\ <<n>>[1] = n /\ Len(s) \in Nat /\ DOMAIN s = 1 .. Len(s)
  OBVIOUS
<1>2. /\ w \in Seq(Pages) /\ Len(w) = Len(<<n>>) + Len(s)
      /\ \A i \in 1 .. Len(<<n>>) + Len(s) : w[i] = IF i <= Len(<<n>>) THEN <<n>>[i] ELSE s[i - Len(<<n>>)]
  BY <1>1, ConcatProperties
<1> HIDE DEF w
<1>3. DOMAIN w = 1 .. (1 + Len(s)) /\ w[1] = n
  BY <1>1, <1>2
<1>4. ASSUME NEW i \in 1 .. (1 + Len(s)) PROVE w[i] \in {n} \cup ToSet(s)
  <2>1. CASE i = 1
    BY <1>3, <2>1
  <2>2. CASE i # 1
    <3>1. i - 1 \in DOMAIN s /\ w[i] = s[i - 1]
      BY <1>1, <1>2, <2>2
    <3> QED BY <3>1 DEF ToSet
  <2> QED BY <2>1, <2>2
<1>5. ASSUME NEW i \in DOMAIN s PROVE s[i] \in ToSet(w)
  <2>1. i + 1 \in DOMAIN w /\ w[i + 1] = s[(i + 1) - 1] /\ (i + 1) - 1 = i
    BY <1>1, <1>2, <1>3
  <2> QED BY <2>1 DEF ToSet
<1>6. n \in ToSet(w)
  <2>1. 1 \in DOMAIN w
    BY <1>1, <1>3
  <2> QED BY <1>3, <2>1 DEF ToSet
<1>7. \A x \in ToSet(w) : x \in {n} \cup ToSet(s)
  BY <1>3, <1>4 DEF ToSet
<1>8. \A x \in ToSet(s) : x \in ToSet(w)
  BY <1>5 DEF ToSet
<1> QED BY <1>6, <1>7, <1>8 DEF w

\* The loop over rb_first() and rb_next() prints the pages of the tree in order.
LEMMA WalkAscends ==
  ASSUME NEW t, TreeRight(t)
  PROVE  Ascends(Walk(t, "r")) /\ ToSet(Walk(t, "r")) = Members(t)
<1> DEFINE step(n) == rb_step(t, n, "r")
           f == CHOOSE f : f = [n \in DOMAIN t.p \cup {NULL} |-> IF n = NULL THEN <<>> ELSE <<n>> \o f[step(n)]]
           S == Seq(Pages)
           base == [n \in Nodes |-> <<>>]
           next == [n \in Nodes |-> IF n = NULL THEN NULL ELSE step(n)]
           front == [n \in Nodes |-> [s \in S |-> IF n = NULL THEN <<>> ELSE <<n>> \o s]]
<1>1. PICK In, born, lo, hi, last : Shape(t, In, born, lo, hi, last)
  BY DEF TreeRight
<1>2. DOMAIN t.p = Pages /\ DOMAIN t.p \cup {NULL} = Nodes
  BY <1>1 DEF Shape, Trees, Nodes
<1>3. PICK top \in Nat : \A n \in Pages : n \in 1 .. top
  BY Top
<1>4. \A n \in Pages : step(n) \in Nodes /\ (step(n) # NULL => step(n) \in Pages /\ n < step(n))
  <2>1. ASSUME NEW n \in In PROVE step(n) = NULL \/ (step(n) \in In /\ n < step(n))
    BY <1>1, <2>1, NextIsNext
  <2>2. ASSUME NEW n \in Pages, n \notin In PROVE step(n) = NULL
    <3>1. t.ch["r"][n] = NULL
      BY <1>1, <2>2 DEF Shape
    <3>2. Climb(t, n, "r") = NULL
      BY <1>1, <2>2, Climbs
    <3> QED BY <3>1, <3>2 DEF rb_step
  <2>3. In \subseteq Pages
    BY <1>1 DEF Shape
  <2> HIDE DEF step
  <2> QED BY <2>1, <2>2, <2>3 DEF Nodes
<1>5. rb_end(t, "l") \in Nodes
  <2>1. CASE t.root = NULL
    BY <2>1 DEF rb_end, Nodes
  <2>2. CASE t.root # NULL
    <3>1. t.root \in In /\ In \subseteq Pages
      BY <1>1, <2>2 DEF Shape
    <3>2. Descend(t, t.root, "l") \in In
      BY <1>1, <3>1, Descends
    <3> QED BY <2>2, <3>1, <3>2 DEF rb_end, Nodes
  <2> QED BY <2>1, <2>2
<1>6. Walk(t, "r") = f[rb_end(t, "l")]
  BY DEF Walk, Other
<1> HIDE DEF step
<1> DEFINE rank == [n \in Nodes |-> IF n = NULL THEN 0 ELSE top + 1 - n]
<1>7. rank \in [Nodes -> 0 .. top + 1]
  BY <1>3 DEF Nodes
<1>8. \A n \in Nodes : n \notin {NULL} => next[n] \in Nodes /\ next[n] = step(n) /\ rank[next[n]] < rank[n]
  <2>1. ASSUME NEW n \in Pages, n # NULL PROVE next[n] \in Nodes /\ next[n] = step(n) /\ rank[next[n]] < rank[n]
    <3>1. n \in Nodes /\ next[n] = step(n) /\ step(n) \in Nodes
      BY <1>4, <2>1 DEF Nodes
    <3>2. n \in 1 .. top /\ rank[n] = top + 1 - n
      BY <1>3, <2>1, <3>1
    <3>3. CASE step(n) = NULL
      <4>1. rank[step(n)] = 0
        BY <3>1, <3>3
      <4> QED BY <1>3, <3>1, <3>2, <4>1
    <3>4. CASE step(n) # NULL
      <4>1. step(n) \in 1 .. top /\ n < step(n) /\ rank[step(n)] = top + 1 - step(n)
        BY <1>3, <1>4, <3>1, <3>4
      <4> QED BY <1>3, <3>1, <3>2, <4>1
    <3> QED BY <3>3, <3>4
  <2> QED BY <2>1 DEF Nodes
<1>9. next \in [Nodes -> Nodes]
  BY <1>4 DEF Nodes
<1>10. base \in [Nodes -> S] /\ front \in [Nodes -> [S -> S]]
  <2>1. ASSUME NEW n \in Nodes, NEW s \in S PROVE (IF n = NULL THEN <<>> ELSE <<n>> \o s) \in S
    <3>1. <<>> \in S
      OBVIOUS
    <3>2. n # NULL => <<n>> \in S
      BY DEF Nodes
    <3>3. \A s1, s2 \in S : s1 \o s2 \in S
      OBVIOUS
    <3> HIDE DEF S
    <3> QED BY <3>1, <3>2, <3>3
  <2>2. <<>> \in S
    OBVIOUS
  <2> HIDE DEF S
  <2> QED BY <2>1, <2>2
<1>11. PICK g : Defined(g, Nodes, S, {NULL}, base, next, front)
  <2> HIDE DEF rank, base, next, front, S
  <2>1. \A n \in Nodes : n \notin {NULL} => rank[next[n]] < rank[n]
    BY <1>8
  <2>2. top + 1 \in Nat
    BY <1>3
  <2>3. \E g : Defined(g, Nodes, S, {NULL}, base, next, front)
    BY <1>7, <1>9, <1>10, <2>1, <2>2, Fixpoint
  <2> QED BY <2>3
<1>12. g = [n \in DOMAIN t.p \cup {NULL} |-> IF n = NULL THEN <<>> ELSE <<n>> \o g[step(n)]]
  <2>1. g \in [Nodes -> S]
        /\ \A n \in Nodes : g[n] = IF n \in {NULL} THEN base[n] ELSE front[n][g[next[n]]]
    BY <1>11 DEF Defined
  <2>2. ASSUME NEW n \in Nodes PROVE g[n] = IF n = NULL THEN <<>> ELSE <<n>> \o g[step(n)]
    <3>1. n # NULL => next[n] = step(n) /\ g[step(n)] \in S
      BY <1>8, <2>1
    <3> HIDE DEF next, S
    <3>2. n # NULL => front[n][g[step(n)]] = <<n>> \o g[step(n)]
      BY <3>1
    <3>3. base[n] = <<>>
      OBVIOUS
    <3> HIDE DEF base, front
    <3> QED BY <2>1, <3>1, <3>2, <3>3
  <2> HIDE DEF S, base, front, next
  <2> QED BY <1>2, <2>1, <2>2
<1>13. f = [n \in DOMAIN t.p \cup {NULL} |-> IF n = NULL THEN <<>> ELSE <<n>> \o f[step(n)]]
  BY <1>12
<1> HIDE DEF f
<1> DEFINE From(n, w) == /\ n = NULL => ToSet(w) = {}
                         /\ n \in In => ToSet(w) = {m \in In : n <= m}
           P == {n \in Nodes : Ascends(f[n]) /\ (f[n] # <<>> => f[n][1] = n) /\ From(n, f[n])}
<1> HIDE DEF From
<1>14. ASSUME NEW n \in Nodes, \A m \in Nodes : rank[m] < rank[n] => m \in P PROVE n \in P
  <2>1. CASE n = NULL
    <3>1. f[n] = <<>>
      BY <1>2, <1>13, <2>1
    <3>2. Ascends(<<>>) /\ ToSet(<<>>) = {}
      BY DEF Ascends, ToSet
    <3>3. NULL \notin In
      BY <1>1, PageFacts DEF Shape
    <3>4. From(n, f[n])
      BY <2>1, <3>1, <3>2, <3>3 DEF From
    <3> QED BY <3>1, <3>2, <3>4
  <2>2. CASE n # NULL
    <3>1. n \in Pages /\ step(n) \in P /\ f[n] = <<n>> \o f[step(n)]
      <4> HIDE DEF P
      <4>1. n \in Pages
        BY <2>2 DEF Nodes
      <4>2. step(n) \in Nodes /\ rank[step(n)] < rank[n]
        BY <1>8, <2>2
      <4>3. step(n) \in P
        BY <1>14, <4>2
      <4> QED BY <1>2, <1>13, <2>2, <4>1, <4>3
    <3>2. f[step(n)] = <<>> \/ n < f[step(n)][1]
      <4>1. CASE step(n) = NULL
        <5>1. NULL \in Nodes
          BY DEF Nodes
        <5> QED BY <1>2, <1>13, <4>1, <5>1
      <4>2. CASE step(n) # NULL
        BY <1>4, <3>1, <4>2
      <4> QED BY <4>1, <4>2
    <3>3. Ascends(f[n]) /\ f[n][1] = n
      BY <3>1, <3>2, InFront
    <3>4. ToSet(f[n]) = {n} \cup ToSet(f[step(n)])
      BY <3>1, InFrontSet DEF Ascends
    <3>5. From(step(n), f[step(n)])
      BY <3>1
    <3>6. ASSUME n \in In PROVE ToSet(f[n]) = {m \in In : n <= m}
      <4>1. /\ step(n) = NULL => \A m \in In : m <= n
            /\ step(n) # NULL => step(n) \in In /\ n < step(n) /\ \A m \in In : n < m => step(n) <= m
        BY <1>1, <3>6, NextIsNext DEF step
      <4>2. \A m \in In : m \in Nat
        BY <1>1, PageFacts DEF Shape
      <4>3. CASE step(n) = NULL
        <5>1. ToSet(f[step(n)]) = {}
          BY <3>5, <4>3 DEF From
        <5> QED BY <3>4, <3>6, <4>1, <4>2, <4>3, <5>1
      <4>4. CASE step(n) # NULL
        <5>1. ToSet(f[step(n)]) = {m \in In : step(n) <= m}
          BY <3>5, <4>1, <4>4 DEF From
        <5> QED BY <3>4, <3>6, <4>1, <4>2, <4>4, <5>1
      <4> QED BY <4>3, <4>4
    <3>7. From(n, f[n])
      BY <2>2, <3>6 DEF From
    <3> QED BY <2>2, <3>3, <3>7
  <2> QED BY <2>1, <2>2
<1>15. Nodes = P
  <2>1. P \in SUBSET Nodes /\ top + 1 \in Nat
    OBVIOUS
  <2> HIDE DEF P, rank
  <2> QED BY <1>7, <1>14, <2>1, ByRank
<1>16. ToSet(Walk(t, "r")) = In
  <2>1. /\ rb_end(t, "l") = NULL => In = {}
        /\ rb_end(t, "l") # NULL => rb_end(t, "l") \in In /\ \A m \in In : rb_end(t, "l") <= m
    BY <1>1, FirstIsFirst
  <2>2. rb_end(t, "l") \in P
    <3> HIDE DEF P
    <3> QED BY <1>5, <1>15
  <2>3. From(rb_end(t, "l"), Walk(t, "r"))
    BY <1>6, <2>2
  <2> QED BY <2>1, <2>3 DEF From
<1>17. In = Members(t)
  BY <1>1, MembersIn
<1>18. Ascends(Walk(t, "r"))
  BY <1>5, <1>6, <1>15 DEF P
<1> QED BY <1>16, <1>17, <1>18

\* mempage_lookup() finds the nodes of the tree.
LEMMA LookupRight ==
  ASSUME NEW t, TreeRight(t), NEW a \in Pages
  PROVE  mempage_lookup(t, a) # NULL <=> a \in Members(t)
<1>1. PICK In, born, lo, hi, last : Shape(t, In, born, lo, hi, last)
  BY DEF TreeRight
<1>2. In = Members(t)
  BY <1>1, MembersIn
<1> QED BY <1>1, <1>2, LookupFinds

\* A leaf is linked where there is none.
LEMMA LinkKeeps ==
  ASSUME NEW t, NEW In, NEW born, NEW lo, NEW hi, NEW last, Shape(t, In, born, lo, hi, last),
         NEW a \in Pages, a \notin In, NEW q \in In, lo[q] < a, a < hi[q],
         NEW side, side = (IF a < q THEN "l" ELSE "r"), t.ch[side][q] = NULL
  PROVE  LET u == rb_link_node(t, a, q, side) IN TreeRight(u) /\ Members(u) = Members(t) \cup {a}
<1> DEFINE T == rb_link_node(t, a, q, side)
           leaf == [s \in {"l", "r"} |-> [t.ch[s] EXCEPT ![a] = NULL]]
           In2 == In \cup {a}
           born2 == [born EXCEPT ![a] = last + 1]
           lo2 == [lo EXCEPT ![a] = IF a < q THEN lo[q] ELSE q]
           hi2 == [hi EXCEPT ![a] = IF a < q THEN q ELSE hi[q]]
<1>1. /\ t \in Trees /\ In \subseteq Pages /\ last \in Nat /\ born \in [Pages -> 0 .. last]
      /\ lo \in [Pages -> Nat] /\ hi \in [Pages -> Nat]
  BY DEF Shape
<1>2. /\ t.root \in Nodes /\ t.p \in [Pages -> Nodes] /\ t.red \in [Pages -> BOOLEAN]
      /\ t.ch["l"] \in [Pages -> Nodes] /\ t.ch["r"] \in [Pages -> Nodes]
      /\ t.root \in In /\ side \in {"l", "r"} /\ a \in Nat /\ q \in Nat /\ q # NULL /\ a # NULL /\ a # q
      /\ a \in Nodes /\ q \in Nodes /\ NULL \in Nodes
  BY <1>1, PageFacts DEF Trees, Shape, Nodes
<1>3. T = [root |-> t.root, p |-> [t.p EXCEPT ![a] = q], red |-> [t.red EXCEPT ![a] = TRUE],
           ch |-> [leaf EXCEPT ![side][q] = a]]
  BY <1>2, Zenon DEF rb_link_node
<1> HIDE DEF T, leaf
<1>4. /\ T.root = t.root
      /\ T.p \in [Pages -> Nodes] /\ \A n \in Pages : T.p[n] = IF n = a THEN q ELSE t.p[n]
      /\ T.red \in [Pages -> BOOLEAN]
  BY <1>2, <1>3
<1>5. /\ T.ch \in [{"l", "r"} -> [Pages -> Nodes]]
      /\ \A s \in {"l", "r"}, n \in Pages :
           T.ch[s][n] = IF n = a THEN NULL ELSE IF n = q /\ s = side THEN a ELSE t.ch[s][n]
  <2>1. leaf \in [{"l", "r"} -> [Pages -> Nodes]]
        /\ \A s \in {"l", "r"}, n \in Pages : leaf[s][n] = IF n = a THEN NULL ELSE t.ch[s][n]
    BY <1>2 DEF leaf
  <2> DEFINE chain == [leaf[side] EXCEPT ![q] = a]
             ch == [leaf EXCEPT ![side] = chain]
  <2>2. T.ch = ch
    BY <1>3, Zenon
  <2>3. chain \in [Pages -> Nodes] /\ \A n \in Pages : chain[n] = IF n = q THEN a ELSE leaf[side][n]
    BY <1>1, <1>2, <2>1
  <2> HIDE DEF chain
  <2>4. ch \in [{"l", "r"} -> [Pages -> Nodes]] /\ \A s \in {"l", "r"} : ch[s] = IF s = side THEN chain ELSE leaf[s]
    BY <1>2, <2>1, <2>3
  <2> HIDE DEF ch
  <2>5. ASSUME NEW s \in {"l", "r"}, NEW n \in Pages
        PROVE  ch[s][n] = IF n = a THEN NULL ELSE IF n = q /\ s = side THEN a ELSE t.ch[s][n]
    <3>1. CASE s = side
      BY <1>2, <2>1, <2>3, <2>4, <3>1
    <3>2. CASE s # side
      BY <2>1, <2>4, <3>2
    <3> QED BY <3>1, <3>2
  <2> QED BY <2>2, <2>4, <2>5
<1>6. T \in Trees
  <2>1. T \in [root : {T.root}, p : {T.p}, red : {T.red}, ch : {T.ch}]
    BY <1>3
  <2> QED BY <1>2, <1>4, <1>5, <2>1 DEF Trees
<1>7. /\ born2 \in [Pages -> 0 .. last + 1] /\ last + 1 \in Nat
      /\ lo2 \in [Pages -> Nat] /\ hi2 \in [Pages -> Nat]
      /\ \A n \in Pages : born2[n] = IF n = a THEN last + 1 ELSE born[n]
      /\ \A n \in Pages : lo2[n] = IF n = a THEN (IF a < q THEN lo[q] ELSE q) ELSE lo[n]
      /\ \A n \in Pages : hi2[n] = IF n = a THEN (IF a < q THEN q ELSE hi[q]) ELSE hi[n]
  BY <1>1, <1>2
<1> HIDE DEF born2, lo2, hi2
<1>8. In2 \subseteq Pages /\ \A n \in In2 : n = a \/ (n \in In /\ n # a /\ n \in Pages)
  BY <1>1
<1>9. /\ T.root \in In2 /\ T.p[T.root] = NULL /\ \A n \in Pages : lo2[T.root] < n /\ n < hi2[T.root]
  <2>1. t.root # a /\ t.root \in Pages /\ t.root # NULL
    BY <1>1, <1>2, PageFacts
  <2>2. t.p[t.root] = NULL /\ \A n \in Pages : lo[t.root] < n /\ n < hi[t.root]
    BY <2>1 DEF Shape
  <2> QED BY <1>2, <1>4, <1>7, <2>1, <2>2
<1>10. \A n \in Pages \ In2 : T.p[n] = NULL /\ T.ch["l"][n] = NULL /\ T.ch["r"][n] = NULL
  BY <1>1, <1>4, <1>5 DEF Shape
<1>11. ASSUME NEW n \in In2 PROVE lo2[n] < n /\ n < hi2[n]
  <2>1. CASE n = a
    BY <1>2, <1>7, <2>1
  <2>2. CASE n # a
    BY <1>7, <1>8, <2>2 DEF Shape
  <2> QED BY <2>1, <2>2
<1>12. ASSUME NEW n \in In2, n # T.root
       PROVE  T.p[n] \in In2 /\ n \in {T.ch["l"][T.p[n]], T.ch["r"][T.p[n]]}
  <2>1. CASE n = a
    <3>1. T.p[n] = q /\ T.ch[side][q] = a
      BY <1>1, <1>2, <1>4, <1>5, <2>1
    <3> QED BY <1>2, <2>1, <3>1
  <2>2. CASE n # a
    <3> DEFINE m == t.p[n]
    <3>1. n \in In /\ T.p[n] = m /\ m \in In /\ n \in {t.ch["l"][m], t.ch["r"][m]} /\ n # NULL
      BY <1>4, <1>8, <1>12, <2>2, PageFacts DEF Shape
    <3> HIDE DEF m
    <3>2. m \in Pages /\ m # a /\ ~(m = q /\ n = t.ch[side][m])
      BY <1>1, <3>1
    <3> QED BY <1>2, <1>5, <3>1, <3>2
  <2> QED BY <2>1, <2>2
<1>13. ASSUME NEW n \in In2, T.ch["l"][n] # NULL
       PROVE  LET c == T.ch["l"][n]
              IN  c \in In2 /\ T.p[c] = n /\ born2[n] < born2[c] /\ lo2[c] = lo2[n] /\ hi2[c] = n
  <2>1. n # a /\ n \in In /\ n \in Pages
    BY <1>5, <1>8, <1>13
  <2>2. CASE n = q /\ side = "l"
    <3>1. T.ch["l"][n] = a /\ a < q
      BY <1>2, <1>5, <2>1, <2>2
    <3>2. T.p[a] = q /\ lo2[a] = lo[q] /\ hi2[a] = q /\ born2[a] = last + 1 /\ born2[q] = born[q] /\ lo2[q] = lo[q]
      BY <1>1, <1>2, <1>4, <1>7, <3>1
    <3>3. born[q] \in 0 .. last
      BY <1>1
    <3> QED BY <1>1, <2>2, <3>1, <3>2, <3>3
  <2>3. CASE ~(n = q /\ side = "l")
    <3> DEFINE c == t.ch["l"][n]
    <3>1. T.ch["l"][n] = c /\ c # NULL
      BY <1>5, <1>13, <2>1, <2>3
    <3>2. c \in In /\ t.p[c] = n /\ born[n] < born[c] /\ lo[c] = lo[n] /\ hi[c] = n
      BY <2>1, <3>1 DEF Shape
    <3> HIDE DEF c
    <3>3. c # a /\ c \in Pages
      BY <1>1, <3>2
    <3> QED BY <1>4, <1>7, <2>1, <3>1, <3>2, <3>3
  <2> QED BY <2>2, <2>3
<1>14. ASSUME NEW n \in In2, T.ch["r"][n] # NULL
       PROVE  LET c == T.ch["r"][n]
              IN  c \in In2 /\ T.p[c] = n /\ born2[n] < born2[c] /\ lo2[c] = n /\ hi2[c] = hi2[n]
  <2>1. n # a /\ n \in In /\ n \in Pages
    BY <1>5, <1>8, <1>14
  <2>2. CASE n = q /\ side = "r"
    <3>1. T.ch["r"][n] = a /\ ~(a < q)
      BY <1>2, <1>5, <2>1, <2>2
    <3>2. T.p[a] = q /\ lo2[a] = q /\ hi2[a] = hi[q] /\ born2[a] = last + 1 /\ born2[q] = born[q] /\ hi2[q] = hi[q]
      BY <1>1, <1>2, <1>4, <1>7, <3>1
    <3>3. born[q] \in 0 .. last
      BY <1>1
    <3> QED BY <1>1, <2>2, <3>1, <3>2, <3>3
  <2>3. CASE ~(n = q /\ side = "r")
    <3> DEFINE c == t.ch["r"][n]
    <3>1. T.ch["r"][n] = c /\ c # NULL
      BY <1>5, <1>14, <2>1, <2>3
    <3>2. c \in In /\ t.p[c] = n /\ born[n] < born[c] /\ lo[c] = n /\ hi[c] = hi[n]
      BY <2>1, <3>1 DEF Shape
    <3> HIDE DEF c
    <3>3. c # a /\ c \in Pages
      BY <1>1, <3>2
    <3> QED BY <1>4, <1>7, <2>1, <3>1, <3>2, <3>3
  <2> QED BY <2>2, <2>3
<1>15. Shape(T, In2, born2, lo2, hi2, last + 1)
  <2>1. T.root # NULL
    BY <1>9, <1>8, PageFacts
  <2> HIDE DEF In2
  <2> QED BY <1>6, <1>7, <1>8, <1>9, <1>10, <1>11, <1>12, <1>13, <1>14, <2>1 DEF Shape
<1>16. Members(T) = In2 /\ Members(t) = In
  <2> HIDE DEF In2
  <2> QED BY <1>15, MembersIn
<1> QED BY <1>15, <1>16 DEF T, TreeRight

\* The tree of no pages.
LEMMA EmptyTreeRight == TreeRight(EmptyTree(Pages))
<1> DEFINE t == EmptyTree(Pages)
           zero == [n \in Pages |-> 0]
<1>1. /\ t \in Trees /\ t.root = NULL
      /\ \A n \in Pages : t.p[n] = NULL /\ t.ch["l"][n] = NULL /\ t.ch["r"][n] = NULL
  BY DEF EmptyTree, Trees, Nodes
<1>2. zero \in [Pages -> 0 .. 0] /\ zero \in [Pages -> Nat] /\ 0 \in Nat
  OBVIOUS
<1> HIDE DEF t, zero
<1>3. Shape(t, {}, zero, zero, zero, 0)
  BY <1>1, <1>2 DEF Shape
<1> QED BY <1>3 DEF t, TreeRight

\* mempage_insert() of a page that mempage_lookup() did not find.
LEMMA InsertKeeps ==
  ASSUME NEW t, TreeRight(t), NEW a \in Pages, mempage_lookup(t, a) = NULL
  PROVE  LET u == mempage_insert(t, a) IN TreeRight(u) /\ Members(u) = Members(t) \cup {a}
<1>1. PICK In, born, lo, hi, last : Shape(t, In, born, lo, hi, last)
  BY DEF TreeRight
<1>2. a \notin In
  BY <1>1, LookupFinds
<1> DEFINE Side(n) == IF a < n THEN "l" ELSE "r"
           f == CHOOSE f : f = [n \in Pages |-> IF t.ch[Side(n)][n] = NULL THEN n ELSE f[t.ch[Side(n)][n]]]
           T == mempage_insert(t, a)
<1>3. T = IF t.root = NULL THEN rb_link_node(t, a, NULL, "l")
          ELSE rb_link_node(t, a, f[t.root], Side(f[t.root]))
  BY DEF mempage_insert
<1>4. /\ In \subseteq Pages /\ last \in Nat /\ born \in [Pages -> 0 .. last] /\ t.root \in Nodes /\ a \in Nat
      /\ lo \in [Pages -> Nat] /\ hi \in [Pages -> Nat]
      /\ t.p \in [Pages -> Nodes] /\ t.red \in [Pages -> BOOLEAN]
      /\ t.ch["l"] \in [Pages -> Nodes] /\ t.ch["r"] \in [Pages -> Nodes]
  BY <1>1, PageFacts DEF Shape, Trees
<1>5. CASE t.root = NULL
  <2>1. PICK top \in Nat : \A n \in Pages : n \in 1 .. top
    BY Top
  <2>2. In = {} /\ \A n \in Pages : t.p[n] = NULL /\ t.ch["l"][n] = NULL /\ t.ch["r"][n] = NULL
    BY <1>1, <1>5 DEF Shape
  <2> DEFINE leaf == [s \in {"l", "r"} |-> [t.ch[s] EXCEPT ![a] = NULL]]
  <2>3. T = [root |-> a, p |-> [t.p EXCEPT ![a] = NULL], red |-> [t.red EXCEPT ![a] = TRUE], ch |-> leaf]
    <3>1. T = rb_link_node(t, a, NULL, "l")
      BY <1>3, <1>5
    <3> HIDE DEF T, leaf
    <3> QED BY <3>1 DEF rb_link_node, leaf
  <2> DEFINE zero == [n \in Pages |-> 0]
             high == [n \in Pages |-> top + 1]
  <2> HIDE DEF T
  <2>4. /\ leaf \in [{"l", "r"} -> [Pages -> Nodes]]
        /\ \A n \in Pages : leaf["l"][n] = NULL /\ leaf["r"][n] = NULL
    <3>1. NULL \in Nodes
      BY DEF Nodes
    <3> QED BY <1>4, <2>2, <3>1
  <2> HIDE DEF leaf
  <2>5. /\ T.root = a /\ T.ch = leaf /\ a \in Nodes /\ a # NULL
        /\ T.p \in [Pages -> Nodes] /\ T.red \in [Pages -> BOOLEAN]
        /\ \A n \in Pages : T.p[n] = NULL
    BY <1>4, <2>2, <2>3, PageFacts DEF Nodes
  <2>6. T \in Trees
    <3>1. T \in [root : {T.root}, p : {T.p}, red : {T.red}, ch : {T.ch}]
      BY <2>3
    <3> QED BY <2>4, <2>5, <3>1 DEF Trees
  <2>7. /\ zero \in [Pages -> 0 .. 0] /\ zero \in [Pages -> Nat] /\ 0 \in Nat /\ high \in [Pages -> Nat]
        /\ \A n, m \in Pages : zero[n] < m /\ m < high[n]
    BY <2>1
  <2> HIDE DEF zero, high
  <2>8. Shape(T, {a}, zero, zero, high, 0)
    BY <2>4, <2>5, <2>6, <2>7 DEF Shape
  <2>9. Members(T) = {a} /\ Members(t) = {}
    BY <1>1, <2>2, <2>8, MembersIn
  <2> QED BY <2>8, <2>9 DEF TreeRight, T
<1>6. CASE t.root # NULL
  <2> DEFINE next(n) == t.ch[Side(n)][n]
             base == [n \in Pages |-> n]
             down == [n \in Pages |-> IF next(n) = NULL THEN n ELSE next(n)]
             same == [n \in Pages |-> [s \in Pages |-> s]]
             rank == [n \in Pages |-> last - born[n]]
             Stop == {n \in Pages : next(n) = NULL}
  <2>1. ASSUME NEW n \in Pages, next(n) # NULL
        PROVE  n \in In /\ next(n) \in In /\ next(n) \in Pages /\ born[n] < born[next(n)]
    BY <1>1, <1>4, <2>1 DEF Shape
  <2>2. ASSUME NEW n \in In, next(n) # NULL, lo[n] < a, a < hi[n]
        PROVE  lo[next(n)] < a /\ a < hi[next(n)]
    <3>1. n \in Nat /\ n # a
      BY <1>2, <1>4, PageFacts
    <3>2. CASE a < n
      BY <1>1, <2>2, <3>2 DEF Shape
    <3>3. CASE ~(a < n)
      <4>1. n < a
        BY <1>4, <3>1, <3>3
      <4> QED BY <1>1, <2>2, <3>3, <4>1 DEF Shape
    <3> QED BY <3>2, <3>3
  <2>3. f = CHOOSE e : e = [n \in Pages |-> IF next(n) = NULL THEN n ELSE e[next(n)]]
    OBVIOUS
  <2> HIDE DEF f, T
  <2>4. T = rb_link_node(t, a, f[t.root], Side(f[t.root]))
    BY <1>3, <1>6
  <2>5. \A n \in Pages : next(n) = t.ch[Side(n)][n]
    OBVIOUS
  <2> HIDE DEF next
  <2>6. PICK g : Defined(g, Pages, Pages, Stop, base, down, same)
    <3>1. base \in [Pages -> Pages] /\ down \in [Pages -> Pages] /\ same \in [Pages -> [Pages -> Pages]]
      BY <1>4, <2>1
    <3>2. rank \in [Pages -> 0 .. last]
      BY <1>4
    <3>3. ASSUME NEW n \in Pages, n \notin Stop PROVE rank[down[n]] < rank[n]
      <4>1. next(n) \in Pages /\ born[n] < born[next(n)] /\ down[n] = next(n)
        BY <2>1, <3>3
      <4>2. rank[n] = last - born[n] /\ rank[next(n)] = last - born[next(n)]
        BY <3>3, <4>1
      <4>3. born[n] \in 0 .. last /\ born[next(n)] \in 0 .. last /\ last \in Nat
        BY <1>4, <3>3, <4>1
      <4> HIDE DEF rank, down
      <4> QED BY <4>1, <4>2, <4>3
    <3> HIDE DEF base, down, same, rank, Stop
    <3>4. \E g : Defined(g, Pages, Pages, Stop, base, down, same)
      BY <1>4, <3>1, <3>2, <3>3, Fixpoint
    <3> QED BY <3>4
  <2>7. g = [n \in Pages |-> IF next(n) = NULL THEN n ELSE g[next(n)]]
    <3>1. g \in [Pages -> Pages] /\ \A n \in Pages : g[n] = IF n \in Stop THEN base[n] ELSE same[n][g[down[n]]]
      BY <2>6 DEF Defined
    <3>2. ASSUME NEW n \in Pages PROVE g[n] = IF next(n) = NULL THEN n ELSE g[next(n)]
      <4>1. next(n) # NULL => down[n] = next(n) /\ g[next(n)] \in Pages
        BY <2>1, <3>1
      <4> HIDE DEF down
      <4> QED BY <3>1, <4>1
    <3> QED BY <3>1, <3>2
  <2>8. f = [n \in Pages |-> IF next(n) = NULL THEN n ELSE f[next(n)]]
    BY <2>3, <2>7
  <2> DEFINE P == {n \in In : lo[n] < a /\ a < hi[n] =>
                     f[n] \in In /\ next(f[n]) = NULL /\ lo[f[n]] < a /\ a < hi[f[n]]}
             left == [n \in In |-> last - born[n]]
  <2>9. In = P
    <3>1. ASSUME NEW n \in In, \A m \in In : left[m] < left[n] => m \in P PROVE n \in P
      <4>1. CASE next(n) = NULL
        BY <1>4, <2>8, <4>1
      <4>2. CASE next(n) # NULL
        <5>1. next(n) \in In /\ left[next(n)] < left[n] /\ f[n] = f[next(n)]
          <6>1. n \in Pages /\ next(n) \in In /\ next(n) \in Pages /\ born[n] < born[next(n)]
            BY <1>4, <2>1, <4>2
          <6>2. f[n] = f[next(n)]
            BY <2>8, <4>2, <6>1
          <6>3. left[n] = last - born[n] /\ left[next(n)] = last - born[next(n)]
            BY <6>1
          <6>4. born[n] \in 0 .. last /\ born[next(n)] \in 0 .. last /\ last \in Nat
            BY <1>4, <6>1
          <6> HIDE DEF left
          <6> QED BY <6>1, <6>2, <6>3, <6>4
        <5>2. next(n) \in P
          <6> HIDE DEF P, left
          <6> QED BY <3>1, <5>1
        <5> QED BY <2>2, <4>2, <5>1, <5>2
      <4> QED BY <4>1, <4>2
    <3>2. left \in [In -> 0 .. last] /\ P \in SUBSET In /\ last \in Nat
      BY <1>4
    <3> HIDE DEF P, left
    <3> QED BY <3>1, <3>2, ByRank
  <2> DEFINE q == f[t.root]
  <2>10. q \in In /\ next(q) = NULL /\ lo[q] < a /\ a < hi[q]
    <3>1. t.root \in In /\ lo[t.root] < a /\ a < hi[t.root]
      BY <1>1, <1>6 DEF Shape
    <3> QED BY <2>9, <3>1
  <2> HIDE DEF q
  <2>11. t.ch[Side(q)][q] = NULL
    BY <1>4, <2>5, <2>10
  <2>12. LET u == rb_link_node(t, a, q, Side(q)) IN TreeRight(u) /\ Members(u) = Members(t) \cup {a}
    BY <1>1, <1>2, <2>10, <2>11, LinkKeeps
  <2> QED BY <2>4, <2>12 DEF q, T
<1> QED BY <1>5, <1>6

-----------------------------------------------------------------------------
(* Records, one after the other *)

PagesRight(page, n) ==
  page \in [Pages -> PageEntries] /\ \A p \in Pages : PageRight(page[p], conf, now, Histories, n)

\* One record more was read.
LEMMA PageRightLater ==
  ASSUME NEW mp, NEW n \in Nat, PageRight(mp, conf, now, Histories, n)
  PROVE  PageRight(mp, conf, now, Histories, n + 1)
<1>1. Len(mp.did) \in Nat
  BY DEF PageRight, PageEntries
<1> QED BY <1>1 DEF PageRight

\* account_page_error() keeps the pages and the chains.
LEMMA AccountPageKeeps ==
  ASSUME conf.on, ConfRight, now \in Nat, NEW n \in Nat, n < MaxRecords,
         PagesRight(pdb.page, n), TreeRight(pdb.root), NEW d, DbRight(d, conf, now),
         NEW m, m.page \in Pages, m.time \in {0, now}, NEW ch, NEW dimm,
         <<m.socketid, ch, dimm>> \in EntryIds, NEW kernel
  PROVE  LET r == account_page_error(pdb, d, conf, m, ch, dimm, kernel, now)
         IN  DbRight(r.db, conf, now) /\ PagesRight(r.pdb.page, n + 1) /\ TreeRight(r.pdb.root)
<1> DEFINE addr == m.page
           id   == <<m.socketid, ch, dimm>>
           old  == IF mempage_lookup(pdb.root, addr) = NULL THEN NewPage(now) ELSE pdb.page[addr]
           root == IF mempage_lookup(pdb.root, addr) = NULL THEN mempage_insert(pdb.root, addr) ELSE pdb.root
           a    == Account(old.ce, conf.page, 1, m.time, now)
           mp   == [old EXCEPT !.ce = a.et]
           runs == a.full /\ old.offlined = "online"
           new  == IF a.full THEN PageFull(mp, conf.offline, kernel) ELSE mp
           page == [pdb.page EXCEPT ![addr] = new]
           d1   == IF runs THEN memdb_trigger(get_memdimm(d, id, now), TRUE) ELSE d
           r    == account_page_error(pdb, d, conf, m, ch, dimm, kernel, now)
<1>1. r = IF conf.offline = "off" \/ ~m.addrv \/ m.uc THEN [pdb |-> pdb, db |-> d]
          ELSE [pdb |-> [root |-> root, page |-> page], db |-> d1]
  BY Zenon DEF account_page_error
<1>2. TablesRight(conf) /\ conf.page \in BucketConf /\ conf.offline \in Offline
  BY DEF ConfRight, TablesRight, Offline
<1>3. /\ PageRight(old, conf, now, Histories, n)
  <2>1. <<>> \in Histories
    <3>1. <<>> \in [1 .. 0 -> {"trigger"}]
      OBVIOUS
    <3>2. 0 \in 0 .. MaxRecords
      BY BoundsAssumption
    <3>3. <<>> \in UNION {[1 .. k -> {"trigger"}] : k \in 0 .. MaxRecords}
      BY <3>1, <3>2
    <3> QED BY <3>3 DEF Histories
  <2>2. PageRight(NewPage(now), conf, now, Histories, n)
    BY <1>2, <2>1, NewPageRight
  <2> QED BY <2>2 DEF PagesRight
<1>4. TreeRight(root)
  BY InsertKeeps
<1> HIDE DEF old, root, r
<1>5. /\ old \in PageEntries /\ old.ce \in Errors /\ Spread(old.ce, conf.page, now)
      /\ old.did \in Histories /\ old.offlined = Outcome(old.did)
      /\ conf.offline \in {"off", "account"} => Len(old.did) <= n
  BY <1>3 DEF PageRight, PageEntries
<1>6. a.full \in BOOLEAN /\ a.et \in Errors /\ Spread(a.et, conf.page, now)
  <2>1. 1 \in Nat \ {0}
    OBVIOUS
  <2>2. ASSUME NEW t \in {0, now} 
        PROVE  LET x == Account(old.ce, conf.page, 1, t, now)
               IN  x.full \in BOOLEAN /\ x.et \in Errors /\ Spread(x.et, conf.page, now)
    BY <1>2, <1>5, <2>1, AccountKeeps
  <2> QED BY <2>2
<1> HIDE DEF a
<1>7. mp \in PageEntries /\ mp.ce = a.et /\ mp.did = old.did /\ mp.offlined = old.offlined
  <2>1. mp = [ce |-> a.et, offlined |-> old.offlined, triggered |-> old.triggered, did |-> old.did]
    BY <1>5 DEF PageEntries
  <2> HIDE DEF mp
  <2> QED BY <1>5, <1>6, <2>1 DEF PageEntries
<1> HIDE DEF mp
<1>8. PageRight(new, conf, now, Histories, n + 1)
  <2>1. CASE a.full
    <3>1. /\ new \in PageEntries /\ new.ce = mp.ce
          /\ new.did \in Histories /\ new.offlined = Outcome(new.did)
          /\ conf.offline \in {"off", "account"} => Len(new.did) <= n + 1
      BY <1>2, <1>5, <1>7, <2>1, PageFullKeeps
    <3> HIDE DEF new
    <3> QED BY <1>6, <1>7, <3>1 DEF PageRight
  <2>2. CASE ~a.full
    <3>1. PageRight(mp, conf, now, Histories, n)
      BY <1>5, <1>6, <1>7 DEF PageRight
    <3> QED BY <2>2, <3>1, PageRightLater
  <2> QED BY <2>1, <2>2
<1> HIDE DEF new
<1>9. PagesRight(page, n + 1)
  <2>1. page \in [Pages -> PageEntries] /\ \A p \in Pages : page[p] = IF p = addr THEN new ELSE pdb.page[p]
    BY <1>8 DEF PagesRight, PageRight
  <2> HIDE DEF page
  <2>2. \A p \in Pages : PageRight(pdb.page[p], conf, now, Histories, n + 1)
    BY PageRightLater DEF PagesRight
  <2> QED BY <1>8, <2>1, <2>2 DEF PagesRight
<1>10. PagesRight(pdb.page, n + 1)
  BY PageRightLater DEF PagesRight
<1>11. DbRight(d1, conf, now)
  <2>1. DbRight(get_memdimm(d, id, now), conf, now)
    BY <1>2, GetKeeps
  <2>2. DbRight(memdb_trigger(get_memdimm(d, id, now), TRUE), conf, now)
    <3> DEFINE e == get_memdimm(d, id, now)
    <3> HIDE DEF e
    <3>1. ASSUME NEW full \in BOOLEAN PROVE DbRight(memdb_trigger(e, full), conf, now)
      BY <2>1, TriggerKeeps DEF e
    <3> QED BY <3>1 DEF e
  <2> QED BY <2>2
<1> HIDE DEF page, d1, id
<1>12. CASE conf.offline = "off" \/ ~m.addrv \/ m.uc
  BY <1>1, <1>10, <1>12 DEF r
<1>13. CASE ~(conf.offline = "off" \/ ~m.addrv \/ m.uc)
  BY <1>1, <1>9, <1>11, <1>13, <1>4 DEF r
<1> QED BY <1>12, <1>13

\* The place of a record is one of those that have accounts.
LEMMA PlaceHasEntry ==
  ASSUME NEW m \in Records, NEW type
  PROVE  LET loc == Location(type, m)
         IN  <<m.socketid, loc[1], loc[2]>> \in EntryIds /\ <<m.socketid, -1, -1>> \in EntryIds
<1>1. m.misc \in Locations /\ m.channel \in Nat \cup {-1} /\ m.socketid \in Sockets
  BY RecordsAssumption DEF Record, Sockets
<1>2. AllIds \subseteq EntryIds
  BY DEF EntryIds
<1>3. <<m.socketid, -1, -1>> \in AllIds
  BY <1>1 DEF AllIds
<1>4. CASE type = "nehalem" /\ m.misc # <<>>
  <2>1. <<m.socketid, m.misc[1], m.misc[2]>> \in AllIds
    BY <1>4 DEF AllIds, DimmIds
  <2>2. Location(type, m) = m.misc
    BY <1>4 DEF Location
  <2> QED BY <1>2, <1>3, <2>1, <2>2
<1>5. CASE ~(type = "nehalem" /\ m.misc # <<>>)
  <2>1. Location(type, m) = <<m.channel, -1>>
    BY <1>5 DEF Location
  <2>2. m.channel # -1 => <<m.socketid, m.channel, -1>> \in AllIds
    BY DEF AllIds, DimmIds
  <2>3. <<m.channel, -1>>[1] = m.channel /\ <<m.channel, -1>>[2] = -1
    OBVIOUS
  <2> QED BY <1>2, <1>3, <2>1, <2>2, <2>3
<1> QED BY <1>4, <1>5

\* A record that has its time is otherwise the one that was read.
LEMMA StampedFacts ==
  ASSUME NEW m \in Records, NEW t
  PROVE  LET s == Stamped(m, t)
         IN  /\ s.time \in {0, t} /\ s.uc = m.uc /\ s.page = m.page /\ s.corr = m.corr
             /\ s.socketid = m.socketid /\ s.misc = m.misc /\ s.channel = m.channel
             /\ s.mem = m.mem /\ s.filt = m.filt /\ s.addrv = m.addrv
<1>1. m \in Record
  BY RecordsAssumption
<1>2. DOMAIN m = {"cpu", "mem", "filt", "channel", "misc", "uc", "addrv", "page", "corr", "timed", "socketid"}
  BY <1>1 DEF Record
<1> DEFINE time == IF m.timed THEN t ELSE 0
           s == [f \in DOMAIN m \cup {"time"} |-> IF f = "time" THEN time ELSE m[f]]
<1>3. Stamped(m, t) = s
  BY DEF Stamped
<1>4. time \in {0, t}
  OBVIOUS
<1> HIDE DEF time
<1>5. s["time"] = time /\ \A f \in DOMAIN m : s[f] = m[f]
  BY <1>2
<1> HIDE DEF s
<1> QED BY <1>2, <1>3, <1>4, <1>5

\* A record is processed.
LEMMA IntelKeeps ==
  ASSUME conf.on, ConfRight, now \in Nat, NEW n \in Nat, n < MaxRecords,
         PagesRight(pdb.page, n), TreeRight(pdb.root), DbRight(db, conf, now),
         NEW m \in Records, NEW type, NEW kernel
  PROVE  LET r == intel_memory_error(type, Stamped(m, now), kernel)
         IN  DbRight(r.db, conf, now) /\ PagesRight(r.pdb.page, n + 1) /\ TreeRight(r.pdb.root)
<1> DEFINE s == Stamped(m, now)
           loc == Location(type, s)
           corr == IF conf.recordlen = "full" THEN s.corr ELSE 0
           db1 == memory_error(db, conf, s, loc[1], loc[2], corr, now)
           acc == account_page_error(pdb, db1, conf, s, loc[1], loc[2], kernel, now)
           r == intel_memory_error(type, s, kernel)
<1>1. r = IF type \in IntelTypes /\ s.mem /\ ~s.filt THEN acc ELSE [pdb |-> pdb, db |-> db]
  BY Zenon DEF intel_memory_error
<1>2. /\ s.time \in {0, now} /\ s.uc = m.uc /\ s.page = m.page /\ s.corr = m.corr
      /\ s.socketid = m.socketid /\ s.misc = m.misc /\ s.channel = m.channel
  BY StampedFacts
<1> HIDE DEF s, r
<1>3. m.uc \in BOOLEAN /\ m.page \in Pages /\ m.corr \in Nat
  BY RecordsAssumption DEF Record
<1>4. loc = Location(type, m)
  BY <1>2 DEF Location
<1> HIDE DEF loc
<1>5. <<s.socketid, loc[1], loc[2]>> \in EntryIds /\ <<s.socketid, -1, -1>> \in EntryIds
  BY <1>2, <1>4, PlaceHasEntry
<1>6. corr \in Nat
  BY <1>2, <1>3
<1> HIDE DEF corr
<1>7. TablesRight(conf)
  BY DEF ConfRight
<1>8. DbRight(db1, conf, now)
  <2>1. s.uc \in BOOLEAN
    BY <1>2, <1>3
  <2> QED BY <1>2, <1>5, <1>6, <1>7, <2>1, MemoryErrorKeeps
<1> HIDE DEF db1
<1>9. DbRight(acc.db, conf, now) /\ PagesRight(acc.pdb.page, n + 1) /\ TreeRight(acc.pdb.root)
  <2>1. s.page \in Pages
    BY <1>2, <1>3
  <2> QED BY <1>2, <1>5, <1>8, <2>1, AccountPageKeeps
<1> HIDE DEF acc
<1>10. PagesRight(pdb.page, n + 1)
  BY PageRightLater DEF PagesRight
<1> QED BY <1>1, <1>9, <1>10 DEF s, r

\* The accounts, before and after the configuration is read.
AInv ==
  /\ conf.on \in BOOLEAN /\ ConfRight
  /\ now \in Nat \ {0} /\ nread \in 0 .. MaxRecords
  /\ DbRight(db, conf, now) /\ TreeRight(pdb.root)
  /\ conf.on => PagesRight(pdb.page, nread)
  /\ ~conf.on => db = EmptyDb /\ pdb.page = [p \in Pages |-> NewPage(0)] /\ nread = 0

\* Nothing is read yet.
LEMMA AccountsInit == AInit => AInv
<1> SUFFICES ASSUME AInit PROVE AInv
  OBVIOUS
<1>1. conf = [on |-> FALSE] /\ db = EmptyDb /\ pdb = EmptyPageDb /\ now = 1 /\ nread = 0
  BY DEF AInit
<1>2. conf.on = FALSE
  BY <1>1
<1>3. DbRight(db, conf, now)
  BY <1>1, EmptyDbRight
<1>4. pdb.page = [p \in Pages |-> NewPage(0)] /\ TreeRight(pdb.root)
  BY <1>1, EmptyTreeRight DEF EmptyPageDb
<1>5. 0 \in 0 .. MaxRecords
  BY BoundsAssumption
<1> QED BY <1>1, <1>2, <1>3, <1>4, <1>5 DEF AInv, ConfRight

\* The configuration is read, and the DMI table.
LEMMA SetupKeeps == AInv /\ Setup => AInv'
<1> SUFFICES ASSUME AInv, Setup PROVE AInv'
  OBVIOUS
<1>1. /\ ~conf.on /\ db = EmptyDb /\ pdb.page = [p \in Pages |-> NewPage(0)] /\ nread = 0
      /\ pdb' = pdb /\ now' = now /\ nread' = nread /\ now \in Nat
  BY DEF AInv, Setup
<1> DEFINE Conf(rate) == bucket_conf_init(rate, NoBucketConf)
           Bool(c, n) == IF n = -1 THEN c.support ELSE n = 1
<1>2. PICK f \in Configs :
        LET c == check_cpu(modifier(cpu, f.cpu))
        IN  /\ conf' = [on |-> TRUE, recordlen |-> f.recordlen, filter_bogus |-> f.filter,
                        memdb_enabled |-> Bool(c, f.dimm), sockdb_enabled |-> Bool(c, f.socket),
                        dimms |-> [ce |-> Conf(f.dimm_ce), uc |-> Conf(f.dimm_uc)],
                        sockets |-> [ce |-> Conf(f.sock_ce), uc |-> Conf(f.sock_uc)],
                        page |-> Conf(f.page_ce), offline |-> page_setup(f.action, f.sysfs)]
            /\ db' = IF Bool(c, f.dimm) THEN prefill_memdb(db, f.dmi, now) ELSE db
  BY Zenon DEF Setup
<1> DEFINE c == check_cpu(modifier(cpu, f.cpu))
<1> HIDE DEF c
<1>3. /\ conf'.on = TRUE
      /\ conf'.dimms.ce = Conf(f.dimm_ce) /\ conf'.dimms.uc = Conf(f.dimm_uc)
      /\ conf'.sockets.ce = Conf(f.sock_ce) /\ conf'.sockets.uc = Conf(f.sock_uc)
      /\ conf'.page = Conf(f.page_ce) /\ conf'.offline = page_setup(f.action, f.sysfs)
  <2> HIDE DEF Conf, Bool
  <2> QED BY <1>2 DEF c
<1>4. TablesRight(conf')
  <2>1. {f.dimm_ce, f.dimm_uc, f.sock_ce, f.sock_uc, f.page_ce} \subseteq Rates
    BY ConfigsAssumption
  <2>2. \A rate \in Rates : Conf(rate) \in BucketConf
    BY RateRead
  <2> HIDE DEF Conf
  <2> QED BY <1>3, <2>1, <2>2 DEF TablesRight
<1>5. conf'.offline \in Offline
  <2>1. f.action \in {"off", "account", "soft", "hard", "soft-then-hard"}
    BY ConfigsAssumption
  <2> QED BY <1>3, <2>1 DEF page_setup, Offline
<1>6. DbRight(db', conf', now)
  <2>1. DbRight(db, conf', now)
    BY <1>1, EmptyDbRight
  <2>2. DbRight(prefill_memdb(db, f.dmi, now), conf', now)
    <3>1. f.dmi \in Seq({<<>>} \cup (Nat \X Nat \X Nat))
      BY ConfigsAssumption
    <3>2. Len(f.dmi) \in Nat
      BY <3>1
    <3>3. ASSUME NEW n \in 1 .. Len(f.dmi) PROVE f.dmi[n] \in EntryIds \cup {<<>>}
      BY DEF EntryIds
    <3> QED BY <1>1, <1>4, <2>1, <3>2, <3>3, PrefillAllKeeps
  <2>3. db' \in {db, prefill_memdb(db, f.dmi, now)}
    BY <1>2
  <2> QED BY <2>1, <2>2, <2>3
<1>7. PagesRight(pdb.page, nread)'
  <2>1. <<>> \in Histories'
    <3>1. <<>> \in [1 .. 0 -> {"trigger"}]
      OBVIOUS
    <3>2. 0 \in 0 .. MaxRecords
      BY BoundsAssumption
    <3>3. <<>> \in UNION {[1 .. k -> {"trigger"}] : k \in 0 .. MaxRecords}
      BY <3>1, <3>2
    <3> QED BY <3>3 DEF Histories
  <2>2. PageRight(NewPage(0), conf', now', Histories', nread')
    <3>1. nread' \in Nat /\ 0 \in Nat /\ now' \in Nat /\ 0 <= now'
      BY <1>1
    <3> QED BY <1>4, <2>1, <3>1, NewPageRight
  <2>3. \A p \in Pages : pdb'.page[p] = NewPage(0)
    BY <1>1
  <2>4. NewPage(0) \in PageEntries
    BY <2>2 DEF PageRight
  <2> QED BY <1>1, <2>2, <2>3, <2>4 DEF PagesRight
<1>8. ConfRight'
  BY <1>3, <1>4, <1>5 DEF ConfRight, Offline
<1>9. nread' \in 0 .. MaxRecords /\ now' \in Nat \ {0} /\ TreeRight(pdb'.root)
  BY <1>1 DEF AInv
<1> QED BY <1>1, <1>3, <1>6, <1>7, <1>8, <1>9 DEF AInv

\* A record is processed, or is a bogus one of a filtering machine.
LEMMA ProcessKeeps ==
  ASSUME NEW m \in Records, NEW kernel, AInv, Process(m, kernel)
  PROVE  AInv'
<1>1. /\ conf.on /\ nread < MaxRecords /\ nread' = nread + 1 /\ conf' = conf /\ now' = now
      /\ ConfRight /\ now \in Nat /\ nread \in Nat /\ DbRight(db, conf, now) /\ PagesRight(pdb.page, nread)
      /\ TreeRight(pdb.root)
  BY BoundsAssumption DEF AInv, Process
<1> DEFINE c == mce_cpuid(cpu, m)
           r == intel_memory_error(c.type, Stamped(m, now), kernel)
<1>2. IF conf.filter_bogus THEN db' = r.db /\ pdb' = r.pdb ELSE db' = db /\ pdb' = pdb
  BY Zenon DEF Process
<1>3. DbRight(r.db, conf, now) /\ PagesRight(r.pdb.page, nread + 1) /\ TreeRight(r.pdb.root)
  BY <1>1, IntelKeeps
<1> HIDE DEF r
<1>4. PagesRight(pdb.page, nread + 1)
  BY <1>1, PageRightLater DEF PagesRight
<1>5. DbRight(db', conf, now) /\ PagesRight(pdb'.page, nread + 1) /\ TreeRight(pdb'.root)
  BY <1>1, <1>2, <1>3, <1>4
<1>6. Histories' = Histories
  BY <1>1 DEF Histories
<1>7. PagesRight(pdb.page, nread)'
  BY <1>1, <1>5, <1>6 DEF PagesRight
<1>8. ConfRight' /\ nread' \in 0 .. MaxRecords
  BY <1>1, BoundsAssumption DEF ConfRight
<1> QED BY <1>1, <1>5, <1>7, <1>8 DEF AInv

\* Time goes by.
LEMMA TickKeeps == AInv /\ Tick => AInv'
<1> SUFFICES ASSUME AInv, Tick PROVE AInv'
  OBVIOUS
<1>1. /\ conf.on /\ now' = now + 1 /\ UNCHANGED <<conf, db, pdb, nread>>
      /\ ConfRight /\ now \in Nat \ {0} /\ nread \in 0 .. MaxRecords /\ DbRight(db, conf, now) /\ PagesRight(pdb.page, nread)
      /\ TreeRight(pdb.root)
  BY DEF AInv, Tick
<1>2. TablesRight(conf) /\ conf.page \in BucketConf /\ now + 1 \in Nat \ {0} /\ now <= now + 1
  BY <1>1 DEF ConfRight, TablesRight
<1>3. DbRight(db, conf, now + 1)
  <2>1. now \in Nat /\ now + 1 \in Nat
    BY <1>1
  <2> QED BY <1>1, <1>2, <2>1, DbLater
<1>4. ASSUME NEW mp, PageRight(mp, conf, now, Histories, nread)
      PROVE  PageRight(mp, conf, now + 1, Histories, nread)
  <2>1. mp.ce \in Errors /\ Spread(mp.ce, conf.page, now)
    BY <1>4 DEF PageRight, PageEntries
  <2>2. Spread(mp.ce, conf.page, now + 1)
    <3>1. now \in Nat /\ now + 1 \in Nat
      BY <1>1
    <3> QED BY <1>2, <2>1, <3>1, SpreadLater
  <2> QED BY <1>4, <2>2 DEF PageRight
<1>5. Histories' = Histories
  BY <1>1 DEF Histories
<1>6. PagesRight(pdb.page, nread)'
  BY <1>1, <1>4, <1>5 DEF PagesRight
<1>7. ConfRight'
  BY <1>1 DEF ConfRight
<1> QED BY <1>1, <1>2, <1>3, <1>6, <1>7 DEF AInv

\* The inductive invariant of mcelog's accounts: the configuration is one, each
\* account of a DIMM or socket is in the chain of its hash and in no other, and
\* is counted; the errors of every bucket are as far apart as __bucket_account()
\* makes them; the tree of the pages is a search tree whose parents are right;
\* and what was done about a page is what its action allows.
THEOREM AccountsRight == ASpec => []AInv
<1>1. AInv /\ [ANext]_avars => AInv'
  <2> SUFFICES ASSUME AInv, [ANext]_avars PROVE AInv'
    OBVIOUS
  <2>1. CASE Setup
    BY <2>1, SetupKeeps
  <2>2. ASSUME NEW m \in Records, NEW kernel \in Kernels, Process(m, kernel) PROVE AInv'
    BY <2>2, ProcessKeeps
  <2>3. CASE Tick
    BY <2>3, TickKeeps
  <2>4. CASE UNCHANGED avars
    <3>1. conf' = conf /\ now' = now /\ nread' = nread /\ db' = db /\ pdb' = pdb
      BY <2>4 DEF avars
    <3>2. Histories' = Histories
      BY <3>1 DEF Histories
    <3> QED BY <3>1, <3>2 DEF AInv, ConfRight, PagesRight
  <2> QED BY <2>1, <2>2, <2>3, <2>4 DEF ANext
<1> QED BY <1>1, AccountsInit, PTL DEF ASpec

\* What is known of the buckets in use.
LEMMA BucketsRight ==
  ASSUME AInv, conf.on, NEW b \in Buckets
  PROVE  b[1] \in Errors /\ b[2] \in BucketConf /\ Spread(b[1], b[2], now)
<1>1. DbRight(db, conf, now) /\ PagesRight(pdb.page, nread) /\ TablesRight(conf)
  BY DEF AInv, ConfRight
<1>2. CASE b \in {<<pdb.page[p].ce, conf.page>> : p \in Pages}
  <2>1. PICK p \in Pages : b[1] = pdb.page[p].ce /\ b[2] = conf.page
    BY <1>2
  <2>2. pdb.page[p] \in PageEntries /\ Spread(pdb.page[p].ce, conf.page, now)
    BY <1>1 DEF PagesRight, PageRight
  <2> QED BY <1>1, <2>1, <2>2 DEF PageEntries, TablesRight
<1>3. CASE b \in UNION {{<<md.ce, TableOf(md.id).ce>>, <<md.uc, TableOf(md.id).uc>>} : md \in Entries}
  <2>1. PICK md \in Entries : b \in {<<md.ce, TableOf(md.id).ce>>, <<md.uc, TableOf(md.id).uc>>}
    BY <1>3
  <2>2. PICK h \in 0 .. SHASH - 1 : \E i \in 1 .. Len(db.dimms[h]) : md = db.dimms[h][i]
    BY <2>1 DEF Entries
  <2>3. PICK i \in 1 .. Len(db.dimms[h]) : md = db.dimms[h][i]
    BY <2>2
  <2>4. md \in DimmEntries /\ EntryRight(md, conf, now)
    <3>1. h \in Hashes /\ db.dimms \in [Hashes -> Seq(DimmEntries)]
      BY <1>1 DEF DbRight, Databases, Hashes
    <3>2. db.dimms[h] \in Seq(DimmEntries)
      BY <3>1
    <3>3. md \in DimmEntries
      BY <2>3, <3>2
    <3> QED BY <1>1, <2>3, <3>1, <3>3 DEF DbRight
  <2>5. TableOf(md.id) = TableFor(conf, md.id)
    BY DEF TableOf, TableFor
  <2>6. TableFor(conf, md.id).ce \in BucketConf /\ TableFor(conf, md.id).uc \in BucketConf
    BY <1>1, TableForRight
  <2>7. \/ b[1] = md.ce /\ b[2] = TableFor(conf, md.id).ce
        \/ b[1] = md.uc /\ b[2] = TableFor(conf, md.id).uc
    BY <2>1, <2>5
  <2>8. md.ce \in Errors /\ md.uc \in Errors
    BY <2>4 DEF DimmEntries
  <2>9. Spread(md.ce, TableFor(conf, md.id).ce, now) /\ Spread(md.uc, TableFor(conf, md.id).uc, now)
    BY <2>4 DEF EntryRight
  <2> QED BY <2>6, <2>7, <2>8, <2>9
<1> QED BY <1>2, <1>3 DEF Buckets

\* A burst is not missed by bucket_account(): of 2 * capacity - 1 errors within
\* less than agetime one makes the bucket full, wherever its periods start.
THEOREM BurstTriggersSound == ASpec => []BurstTriggers
<1>1. AInv => BurstTriggers
  <2> SUFFICES ASSUME AInv, conf.on, NEW b \in Buckets, b[2].capacity > 0,
                      NEW i \in DOMAIN b[1].since, i + 2 * b[2].capacity - 2 \in DOMAIN b[1].since
               PROVE  b[1].since[i + 2 * b[2].capacity - 2] - b[1].since[i] >= b[2].agetime
    BY DEF BurstTriggers
  <2> DEFINE s == b[1].since
             cap == b[2].capacity
  <2>1. s \in Seq(Nat) /\ cap \in Nat /\ Spread(b[1], b[2], now)
    BY BucketsRight DEF Errors, BucketConf
  <2>2. DOMAIN s = 1 .. Len(s) /\ Len(s) \in Nat
    BY <2>1
  <2>3. i \in 1 .. Len(s) /\ i + 2 * cap - 2 <= Len(s)
    BY <2>2
  <2> QED BY <2>1, <2>3 DEF Spread, Apart
<1> QED BY <1>1, AccountsRight, PTL

\* No bucket of memdb.c or page.c holds more errors than it was given since it was
\* last full.
THEOREM BucketsFedSound == ASpec => []BucketsFed
<1>1. AInv => BucketsFed
  BY BucketsRight DEF BucketsFed, Spread, Apart
<1> QED BY <1>1, AccountsRight, PTL

\* page.c offers a page to the kernel once, after its trigger, and what is printed
\* of it is how the kernel answered; pages that are only counted go on to trigger.
THEOREM OfflinedOnceSound == ASpec => []OfflinedOnce
<1>1. AInv => OfflinedOnce
  <2> SUFFICES ASSUME AInv, NEW p \in Pages
               PROVE  pdb.page[p].did \in Histories /\ pdb.page[p].offlined = Outcome(pdb.page[p].did)
    BY DEF OfflinedOnce
  <2>1. CASE conf.on
    BY <2>1 DEF AInv, PagesRight, PageRight
  <2>2. CASE ~conf.on
    <3>1. pdb.page[p] = NewPage(0)
      BY <2>2 DEF AInv
    <3>2. NewPage(0).did = <<>> /\ NewPage(0).offlined = "online"
      BY DEF NewPage
    <3>3. Histories = {<<>>} /\ Outcome(<<>>) = "online"
      BY <2>2 DEF Histories, Outcome
    <3> QED BY <3>1, <3>2, <3>3
  <2> QED BY <2>1, <2>2
<1> QED BY <1>1, AccountsRight, PTL

\* dump_memory_errors() fills the array of numdimms entries it allocated to the
\* last, whatever get_memdimm(), the DMI table and the triggers put in the chains,
\* and has no DIMM or socket twice.
THEOREM DimmsCountedSound == ASpec => []DimmsCounted
<1>1. AInv => DimmsCounted
  <2> SUFFICES ASSUME AInv PROVE DimmsCounted
    OBVIOUS
  <2> DEFINE all == AllDimms(db)
             ids == [i \in DOMAIN all |-> all[i].id]
  <2>1. db \in Databases /\ ChainsRight(db) /\ Len(all) = db.numdimms
    BY DEF AInv, DbRight
  <2>2. all \in Seq(DimmEntries) /\ \A i, j \in 1 .. Len(all) : all[i].id = all[j].id => i = j
    BY <2>1, AllDimmsDistinct
  <2> HIDE DEF all
  <2>3. DOMAIN all = 1 .. Len(all)
    BY <2>2
  <2>4. IsInjective(ids)
    BY <2>2, <2>3 DEF IsInjective
  <2>5. \A i \in DOMAIN all : all[i].ce.count \in Nat /\ all[i].uc.count \in Nat
    <3>1. \A i \in DOMAIN all : all[i] \in DimmEntries
      BY <2>2, <2>3
    <3>2. \A md \in DimmEntries : md.ce.count \in Nat /\ md.uc.count \in Nat
      BY DEF DimmEntries, Errors
    <3> QED BY <3>1, <3>2
  <2> QED BY <2>1, <2>4, <2>5 DEF DimmsCounted, all
<1> QED BY <1>1, AccountsRight, PTL

\* dump_page_errors() prints the pages in ascending order, each once: the tree is a
\* search tree even though mempage_insert() never has it balanced.
THEOREM PagesAscendSound == ASpec => []PagesAscend
<1>1. AInv => PagesAscend
  <2> SUFFICES ASSUME AInv PROVE PagesAscend
    OBVIOUS
  <2>1. Ascends(DumpedPages(pdb))
    BY WalkAscends DEF AInv, DumpedPages
  <2> QED BY <2>1 DEF PagesAscend, Ascends
<1> QED BY <1>1, AccountsRight, PTL

\* The databases of memdb.c and page.c hold together: all three of the above.
THEOREM DatabasesHoldSound == ASpec => []DatabasesHold
<1>1. DimmsCounted /\ BucketsFed /\ PagesAscend => DatabasesHold
  BY DEF DatabasesHold
<1> QED BY <1>1, DimmsCountedSound, BucketsFedSound, PagesAscendSound, PTL

-----------------------------------------------------------------------------
(* The ledger: what is counted for each DIMM, socket and page *)

Kinds == {"ce", "uc"}

\* The lookup of a DIMM that is there shows its account.
LEMMA CountOne ==
  ASSUME NEW d \in Databases, ChainsRight(d), NEW a \in EntryIds,
         NEW i \in 1 .. Len(d.dimms[dimmhash(a)]), d.dimms[dimmhash(a)][i].id = a, NEW kind
  PROVE  Counted(d, a, kind) = d.dimms[dimmhash(a)][i][kind].count
<1> DEFINE chain == d.dimms[dimmhash(a)]
           found == {md \in ToSet(chain) : md.id = a}
<1>1. chain \in Seq(DimmEntries) /\ \A j, k \in 1 .. Len(chain) : chain[j].id = chain[k].id => j = k
  BY HashesRight DEF Databases, ChainsRight
<1> HIDE DEF chain
<1>2. found = {chain[i]}
  <2>1. ToSet(chain) = {chain[j] : j \in 1 .. Len(chain)}
    BY <1>1 DEF ToSet
  <2>2. i \in 1 .. Len(chain) /\ chain[i].id = a
    BY DEF chain
  <2>3. \A md \in found : md = chain[i]
    BY <1>1, <2>1, <2>2
  <2>4. chain[i] \in found
    BY <2>1, <2>2
  <2> HIDE DEF found
  <2> QED BY <2>3, <2>4
<1>3. Counted(d, a, kind) = IF found = {} THEN 0 ELSE (CHOOSE md \in found : TRUE)[kind].count
  BY DEF Counted, chain
<1> HIDE DEF found
<1>4. (CHOOSE md \in found : TRUE) = chain[i] /\ found # {}
  BY <1>2
<1> QED BY <1>3, <1>4 DEF chain

\* The lookup of one that is not there shows nothing.
LEMMA CountNone ==
  ASSUME NEW d \in Databases, NEW a \in EntryIds,
         \A i \in 1 .. Len(d.dimms[dimmhash(a)]) : d.dimms[dimmhash(a)][i].id # a, NEW kind
  PROVE  Counted(d, a, kind) = 0
<1> DEFINE chain == d.dimms[dimmhash(a)]
<1>1. chain \in Seq(DimmEntries)
  BY HashesRight DEF Databases
<1> HIDE DEF chain
<1>2. {md \in ToSet(chain) : md.id = a} = {}
  BY <1>1 DEF ToSet, chain
<1> QED BY <1>2 DEF Counted, chain

\* What the database shows for the entry that is found.
LEMMA CountEntry ==
  ASSUME NEW d \in Databases, ChainsRight(d), NEW a \in EntryIds, NEW kind
  PROVE  Counted(d, a, kind) = IF Find(d, a) = 0 THEN 0 ELSE Entry(d, a)[kind].count
<1>1. CASE Find(d, a) = 0
  <2>1. \A i \in 1 .. Len(d.dimms[dimmhash(a)]) : d.dimms[dimmhash(a)][i].id # a
    BY <1>1, FindFacts
  <2> QED BY <1>1, <2>1, CountNone
<1>2. CASE Find(d, a) # 0
  <2> DEFINE k == Find(d, a)
  <2>1. k \in 1 .. Len(d.dimms[dimmhash(a)]) /\ d.dimms[dimmhash(a)][k].id = a
    BY <1>2, FindFacts
  <2>2. Entry(d, a) = d.dimms[dimmhash(a)][k]
    BY DEF Entry
  <2> HIDE DEF k
  <2>3. Counted(d, a, kind) = d.dimms[dimmhash(a)][k][kind].count
    BY <2>1, CountOne
  <2> QED BY <1>2, <2>2, <2>3
<1> QED BY <1>1, <1>2

\* It is a number.
LEMMA CountNat ==
  ASSUME NEW d \in Databases, ChainsRight(d), NEW a \in EntryIds, NEW kind \in Kinds
  PROVE  Counted(d, a, kind) \in Nat
<1>1. CASE Find(d, a) = 0
  BY <1>1, CountEntry
<1>2. CASE Find(d, a) # 0
  <2>1. Entry(d, a) \in DimmEntries
    <3>1. Find(d, a) \in 1 .. Len(d.dimms[dimmhash(a)]) /\ d.dimms[dimmhash(a)] \in Seq(DimmEntries)
      BY <1>2, FindFacts
    <3> QED BY <3>1 DEF Entry
  <2>2. \A md \in DimmEntries : md[kind].count \in Nat
    BY DEF DimmEntries, Errors, Kinds
  <2> QED BY <1>2, <2>1, <2>2, CountEntry
<1> QED BY <1>1, <1>2

\* inc errors of that kind more for one DIMM or socket, and for no other.
MoreCounted(d, e, id, kind, inc) ==
  \A a \in EntryIds, k \in Kinds :
    Counted(e, a, k) = Counted(d, a, k) + (IF a = id /\ k = kind THEN inc ELSE 0)

SameCounted(d, e) == \A a \in EntryIds, k \in Kinds : Counted(e, a, k) = Counted(d, a, k)

\* get_memdimm() makes an entry without errors.
LEMMA GetCounts ==
  ASSUME NEW cf, TablesRight(cf), NEW u \in Nat, NEW d, DbRight(d, cf, u), NEW id \in EntryIds
  PROVE  SameCounted(d, get_memdimm(d, id, u))
<1> DEFINE g == dimmhash(id)
           md == NewDimm(id, u)
           chain == <<md>> \o d.dimms[g]
           dimms == [d.dimms EXCEPT ![g] = chain]
           e == get_memdimm(d, id, u)
<1>1. d \in Databases /\ ChainsRight(d)
  BY DEF DbRight
<1>2. CASE Find(d, id) # 0
  BY <1>2 DEF get_memdimm, SameCounted
<1>3. CASE Find(d, id) = 0
  <2>1. /\ d.dimms \in [Hashes -> Seq(DimmEntries)] /\ g \in Hashes /\ d.dimms[g] \in Seq(DimmEntries)
    BY <1>1, HashesRight DEF Databases
  <2>2. e.dimms = dimms
    <3>1. e = [d EXCEPT !.dimms = dimms, !.numdimms = d.numdimms + 1]
      BY <1>3, Zenon DEF get_memdimm
    <3> HIDE DEF e, dimms
    <3>2. e = [dimms |-> dimms, numdimms |-> d.numdimms + 1, runs |-> d.runs]
      BY <1>1, <3>1, OneMoreDimm DEF Databases
    <3> QED BY <3>2
  <2>3. md \in DimmEntries /\ md.id = id
    BY NewDimmRight
  <2>4. md["ce"].count = 0 /\ md["uc"].count = 0
    BY DEF NewDimm, NewErrors
  <2>5. e \in Databases /\ ChainsRight(e)
    BY GetKeeps DEF DbRight
  <2> DEFINE n == Len(d.dimms[g])
  <2> HIDE DEF g, md, e
  <2>6. n \in Nat /\ chain \in Seq(DimmEntries) /\ Len(chain) = n + 1
        /\ \A i \in 1 .. n + 1 : chain[i] = IF i = 1 THEN md ELSE d.dimms[g][i - 1]
    BY <2>1, <2>3
  <2> HIDE DEF chain, n
  <2>7. \A h \in Hashes : dimms[h] = IF h = g THEN chain ELSE d.dimms[h]
    BY <2>1, <2>6
  <2> HIDE DEF dimms
  <2>8. ASSUME NEW a \in EntryIds, NEW k \in Kinds PROVE Counted(e, a, k) = Counted(d, a, k)
    <3> DEFINE h == dimmhash(a)
    <3>1. h \in Hashes /\ e.dimms[h] = IF h = g THEN chain ELSE d.dimms[h]
      BY <2>2, <2>7, HashesRight
    <3>2. CASE a = id
      <4>1. h = g /\ 1 \in 1 .. Len(e.dimms[h]) /\ e.dimms[h][1] = md
        BY <2>6, <3>1, <3>2 DEF g
      <4>2. Counted(e, a, k) = e.dimms[h][1][k].count
        <5>1. e.dimms[h][1].id = a
          BY <2>3, <3>2, <4>1
        <5> QED BY <2>5, <4>1, <5>1, CountOne
      <4>3. Counted(e, a, k) = 0
        BY <2>4, <4>1, <4>2 DEF Kinds
      <4>4. Counted(d, a, k) = 0
        BY <1>1, <1>3, <3>2, CountEntry
      <4> QED BY <4>3, <4>4
    <3>3. CASE a # id /\ Find(d, a) # 0
      <4> DEFINE i == Find(d, a)
      <4>1. i \in 1 .. Len(d.dimms[h]) /\ d.dimms[h][i].id = a
        BY <1>1, <3>3, FindFacts
      <4> HIDE DEF i
      <4>2. Counted(d, a, k) = d.dimms[h][i][k].count
        BY <1>1, <4>1, CountOne
      <4>3. PICK j \in 1 .. Len(e.dimms[h]) : e.dimms[h][j] = d.dimms[h][i]
        <5>1. CASE h = g
          <6>1. e.dimms[h] = chain /\ i \in 1 .. n
            BY <3>1, <4>1, <5>1 DEF n
          <6>2. i + 1 \in 1 .. n + 1 /\ i + 1 # 1 /\ (i + 1) - 1 = i
            BY <2>6, <6>1
          <6>3. chain[i + 1] = d.dimms[g][i]
            BY <2>6, <6>2
          <6> QED BY <2>6, <5>1, <6>1, <6>2, <6>3
        <5>2. CASE h # g
          BY <3>1, <4>1, <5>2
        <5> QED BY <5>1, <5>2
      <4>4. Counted(e, a, k) = e.dimms[h][j][k].count
        <5>1. e.dimms[h][j].id = a
          BY <4>1, <4>3
        <5> QED BY <2>5, <5>1, CountOne
      <4> QED BY <4>2, <4>3, <4>4
    <3>4. CASE a # id /\ Find(d, a) = 0
      <4>1. \A i \in 1 .. Len(d.dimms[h]) : d.dimms[h][i].id # a
        BY <1>1, <3>4, FindFacts
      <4>2. \A i \in 1 .. Len(e.dimms[h]) : e.dimms[h][i].id # a
        <5>1. CASE h = g
          <6>1. ASSUME NEW i \in 1 .. n + 1 PROVE chain[i].id # a
            <7>1. CASE i = 1
              BY <2>3, <2>6, <3>4, <7>1
            <7>2. CASE i # 1
              <8>1. i - 1 \in 1 .. n /\ chain[i] = d.dimms[g][i - 1]
                BY <2>6, <7>2
              <8> QED BY <4>1, <5>1, <8>1 DEF n
            <7> QED BY <7>1, <7>2
          <6> QED BY <2>6, <3>1, <5>1, <6>1
        <5>2. CASE h # g
          BY <3>1, <4>1, <5>2
        <5> QED BY <5>1, <5>2
      <4>3. Counted(d, a, k) = 0
        BY <1>1, <4>1, CountNone
      <4>4. Counted(e, a, k) = 0
        BY <2>5, <4>2, CountNone
      <4> QED BY <4>3, <4>4
    <3> QED BY <3>2, <3>3, <3>4
  <2> QED BY <2>8 DEF SameCounted, e
<1> QED BY <1>2, <1>3

\* An entry is overwritten.
LEMMA SetCounts ==
  ASSUME NEW cf, NEW u \in Nat, NEW d, DbRight(d, cf, u), NEW id \in EntryIds, Find(d, id) # 0,
         NEW md \in DimmEntries, md.id = id, EntryRight(md, cf, u)
  PROVE  \A a \in EntryIds, k \in Kinds :
           Counted(SetEntry(d, id, md), a, k) = IF a = id THEN md[k].count ELSE Counted(d, a, k)
<1> DEFINE e == SetEntry(d, id, md)
           i == Find(d, id)
<1>1. d \in Databases /\ ChainsRight(d) /\ e \in Databases /\ ChainsRight(e)
  BY SetKeeps DEF DbRight
<1>2. \A h \in Hashes : /\ Len(e.dimms[h]) = Len(d.dimms[h])
                        /\ \A j \in 1 .. Len(d.dimms[h]) :
                             e.dimms[h][j] = IF h = dimmhash(id) /\ j = i THEN md ELSE d.dimms[h][j]
  BY <1>1, SetEntryFacts
<1>3. i \in 1 .. Len(d.dimms[dimmhash(id)]) /\ d.dimms[dimmhash(id)][i].id = id
  BY <1>1, FindFacts
<1> HIDE DEF e, i
<1> SUFFICES ASSUME NEW a \in EntryIds, NEW k \in Kinds
             PROVE  Counted(e, a, k) = IF a = id THEN md[k].count ELSE Counted(d, a, k)
  BY DEF e
<1> DEFINE h == dimmhash(a)
<1>4. h \in Hashes
  BY HashesRight
<1>5. CASE a = id
  <2>1. i \in 1 .. Len(e.dimms[h]) /\ e.dimms[h][i] = md
    BY <1>2, <1>3, <1>4, <1>5
  <2> QED BY <1>1, <1>5, <2>1, CountOne
<1>6. CASE a # id /\ Find(d, a) # 0
  <2> DEFINE j == Find(d, a)
  <2>1. j \in 1 .. Len(d.dimms[h]) /\ d.dimms[h][j].id = a
    BY <1>1, <1>6, FindFacts
  <2> HIDE DEF j
  <2>2. j \in 1 .. Len(e.dimms[h]) /\ e.dimms[h][j] = d.dimms[h][j]
    BY <1>2, <1>3, <1>4, <1>6, <2>1
  <2>3. Counted(d, a, k) = d.dimms[h][j][k].count
    BY <1>1, <2>1, CountOne
  <2>4. Counted(e, a, k) = e.dimms[h][j][k].count
    BY <1>1, <2>1, <2>2, CountOne
  <2> QED BY <1>6, <2>2, <2>3, <2>4
<1>7. CASE a # id /\ Find(d, a) = 0
  <2>1. \A j \in 1 .. Len(d.dimms[h]) : d.dimms[h][j].id # a
    BY <1>1, <1>7, FindFacts
  <2>2. \A j \in 1 .. Len(e.dimms[h]) : e.dimms[h][j].id # a
    BY <1>2, <1>4, <1>7, <2>1
  <2>3. Counted(d, a, k) = 0
    BY <1>1, <2>1, CountNone
  <2>4. Counted(e, a, k) = 0
    BY <1>1, <2>2, CountNone
  <2> QED BY <1>7, <2>3, <2>4
<1> QED BY <1>5, <1>6, <1>7

\* A trigger counts nothing.
LEMMA TriggerCounts ==
  ASSUME NEW cf, NEW u, NEW d, DbRight(d, cf, u), NEW full \in BOOLEAN
  PROVE  \A a, kind : Counted(memdb_trigger(d, full), a, kind) = Counted(d, a, kind)
<1> DEFINE e == memdb_trigger(d, full)
<1>1. e.dimms = d.dimms
  <2>1. CASE ~full
    BY <2>1 DEF memdb_trigger
  <2>2. CASE full
    <3>1. d \in [dimms : [Hashes -> Seq(DimmEntries)], numdimms : Nat, runs : Nat]
      BY DEF DbRight, Databases
    <3>2. e = [d EXCEPT !.runs = d.runs + 1]
      BY <2>2, Zenon DEF memdb_trigger
    <3> HIDE DEF e
    <3> QED BY <3>1, <3>2
  <2> QED BY <2>1, <2>2
<1> HIDE DEF e
<1>2. ASSUME NEW a, NEW kind PROVE Counted(e, a, kind) = Counted(d, a, kind)
  BY <1>1 DEF Counted
<1> QED BY <1>2 DEF e

\* One error more, or inc of them.
LEMMA ErrorsCount ==
  ASSUME NEW cf, TablesRight(cf), NEW u \in Nat, NEW d, DbRight(d, cf, u),
         NEW id \in EntryIds, Find(d, id) # 0, NEW inc \in Nat \ {0}, NEW t \in {0, u}
  PROVE  LET md == Entry(d, id)
             c == Account(md.ce, TableFor(cf, id).ce, inc, t, u)
             e == memdb_trigger(SetEntry(d, id, [md EXCEPT !.ce = c.et]), c.full)
             v == Account(md.uc, TableFor(cf, id).uc, inc, t, u)
             f == memdb_trigger(SetEntry(d, id, [md EXCEPT !.uc = v.et]), v.full)
         IN  MoreCounted(d, e, id, "ce", inc) /\ MoreCounted(d, f, id, "uc", inc)
<1> DEFINE md == Entry(d, id)
           c == Account(md.ce, TableFor(cf, id).ce, inc, t, u)
           v == Account(md.uc, TableFor(cf, id).uc, inc, t, u)
<1>1. TableFor(cf, id).ce \in BucketConf /\ TableFor(cf, id).uc \in BucketConf
  BY TableForRight
<1>2. md \in DimmEntries /\ md.id = id /\ EntryRight(md, cf, u)
  BY EntryFacts
<1>3. d \in Databases /\ ChainsRight(d)
  BY DEF DbRight
<1>4. \A k \in Kinds : Counted(d, id, k) = md[k].count
  BY <1>3, CountEntry
<1> HIDE DEF md
<1>5. /\ md.ce \in Errors /\ Spread(md.ce, TableFor(cf, id).ce, u)
      /\ md.uc \in Errors /\ Spread(md.uc, TableFor(cf, id).uc, u)
  BY <1>2 DEF EntryRight, DimmEntries
<1>6. c.full \in BOOLEAN /\ c.et \in Errors /\ c.et.count = md.ce.count + inc /\ Spread(c.et, TableFor(cf, id).ce, u)
  BY <1>1, <1>5, AccountKeeps
<1>7. v.full \in BOOLEAN /\ v.et \in Errors /\ v.et.count = md.uc.count + inc /\ Spread(v.et, TableFor(cf, id).uc, u)
  BY <1>1, <1>5, AccountKeeps
<1> HIDE DEF c, v
<1>8. ASSUME NEW kind \in Kinds, NEW new \in DimmEntries, new.id = id, EntryRight(new, cf, u), NEW full \in BOOLEAN,
             \A k \in Kinds : new[k].count = md[k].count + (IF k = kind THEN inc ELSE 0)
      PROVE  MoreCounted(d, memdb_trigger(SetEntry(d, id, new), full), id, kind, inc)
  <2> DEFINE e == SetEntry(d, id, new)
  <2>1. \A a \in EntryIds, k \in Kinds : Counted(e, a, k) = IF a = id THEN new[k].count ELSE Counted(d, a, k)
    BY <1>8, SetCounts
  <2>2. DbRight(e, cf, u)
    BY <1>8, SetKeeps
  <2> HIDE DEF e
  <2>3. \A a, k : Counted(memdb_trigger(e, full), a, k) = Counted(e, a, k)
    BY <1>8, <2>2, TriggerCounts
  <2>4. \A a \in EntryIds, k \in Kinds : Counted(d, a, k) \in Nat
    BY <1>3, CountNat
  <2>5. MoreCounted(d, memdb_trigger(e, full), id, kind, inc)
    BY <1>4, <1>8, <2>1, <2>3, <2>4 DEF MoreCounted
  <2> QED BY <2>5 DEF e
<1>9. MoreCounted(d, memdb_trigger(SetEntry(d, id, [md EXCEPT !.ce = c.et]), c.full), id, "ce", inc)
  <2> DEFINE new == [md EXCEPT !.ce = c.et]
  <2>1. new = [id |-> md.id, ce |-> c.et, uc |-> md.uc, memdev |-> md.memdev]
    BY <1>2 DEF DimmEntries
  <2>2. new \in DimmEntries /\ new.id = id /\ new.ce = c.et /\ new.uc = md.uc
    BY <1>2, <1>6, <2>1 DEF DimmEntries
  <2> HIDE DEF new
  <2>3. EntryRight(new, cf, u)
    BY <1>5, <1>6, <2>2 DEF EntryRight
  <2>4. \A k \in Kinds : new[k].count = md[k].count + (IF k = "ce" THEN inc ELSE 0)
    <3>1. new.ce.count = md.ce.count + inc /\ new.uc.count = md.uc.count + 0
      BY <1>5, <1>6, <2>2 DEF Errors
    <3> QED BY <3>1 DEF Kinds
  <2>5. "ce" \in Kinds
    BY DEF Kinds
  <2> QED BY <1>6, <1>8, <2>2, <2>3, <2>4, <2>5 DEF new
<1>10. MoreCounted(d, memdb_trigger(SetEntry(d, id, [md EXCEPT !.uc = v.et]), v.full), id, "uc", inc)
  <2> DEFINE new == [md EXCEPT !.uc = v.et]
  <2>1. new = [id |-> md.id, ce |-> md.ce, uc |-> v.et, memdev |-> md.memdev]
    BY <1>2 DEF DimmEntries
  <2>2. new \in DimmEntries /\ new.id = id /\ new.ce = md.ce /\ new.uc = v.et
    BY <1>2, <1>7, <2>1 DEF DimmEntries
  <2> HIDE DEF new
  <2>3. EntryRight(new, cf, u)
    BY <1>5, <1>7, <2>2 DEF EntryRight
  <2>4. \A k \in Kinds : new[k].count = md[k].count + (IF k = "uc" THEN inc ELSE 0)
    <3>1. new.uc.count = md.uc.count + inc /\ new.ce.count = md.ce.count + 0
      BY <1>5, <1>7, <2>2 DEF Errors
    <3> QED BY <3>1 DEF Kinds
  <2>5. "uc" \in Kinds
    BY DEF Kinds
  <2> QED BY <1>7, <1>8, <2>2, <2>3, <2>4, <2>5 DEF new
<1> QED BY <1>9, <1>10 DEF md, c, v

\* account_memdb() counts the record.
LEMMA MemdbCounts ==
  ASSUME NEW cf, TablesRight(cf), NEW u \in Nat, NEW d, DbRight(d, cf, u),
         NEW id \in EntryIds, Find(d, id) # 0, NEW m, m.uc \in BOOLEAN, m.time \in {0, u}
  PROVE  MoreCounted(d, account_memdb(d, TableFor(cf, id), id, m, u), id, IF m.uc THEN "uc" ELSE "ce", 1)
<1> DEFINE T == TableFor(cf, id)
           md == Entry(d, id)
           c == Account(md.ce, T.ce, 1, m.time, u)
           e == memdb_trigger(SetEntry(d, id, [md EXCEPT !.ce = c.et]), c.full)
           v == Account(md.uc, T.uc, 1, m.time, u)
           f == memdb_trigger(SetEntry(d, id, [md EXCEPT !.uc = v.et]), v.full)
<1>1. account_memdb(d, T, id, m, u) = IF m.uc THEN f ELSE e
  BY Zenon DEF account_memdb
<1>2. 1 \in Nat \ {0}
  OBVIOUS
<1>3. MoreCounted(d, e, id, "ce", 1) /\ MoreCounted(d, f, id, "uc", 1)
  <2> HIDE DEF e, f
  <2> QED BY <1>2, ErrorsCount, Zenon DEF e, f, c, v, md, T
<1> HIDE DEF T, e, f
<1> QED BY <1>1, <1>3 DEF T

\* account_over() counts what was lost.
LEMMA OverCounts ==
  ASSUME NEW cf, TablesRight(cf), NEW u \in Nat, NEW d, DbRight(d, cf, u),
         NEW id \in EntryIds, Find(d, id) # 0, NEW m, m.time \in {0, u}, NEW corr \in Nat
  PROVE  MoreCounted(d, account_over(d, TableFor(cf, id), id, m, corr, u), id, "ce", IF corr > 1 THEN corr - 1 ELSE 0)
<1> DEFINE T == TableFor(cf, id)
           md == Entry(d, id)
           c == Account(md.ce, T.ce, corr - 1, m.time, u)
           e == memdb_trigger(SetEntry(d, id, [md EXCEPT !.ce = c.et]), c.full)
<1>1. account_over(d, T, id, m, corr, u) = IF corr > 1 THEN e ELSE d
  BY Zenon DEF account_over
<1>2. CASE corr > 1
  <2> DEFINE n == corr - 1
  <2>1. n \in Nat \ {0}
    BY <1>2
  <2> HIDE DEF n
  <2>2. LET x == Account(md.ce, T.ce, n, m.time, u)
            y == memdb_trigger(SetEntry(d, id, [md EXCEPT !.ce = x.et]), x.full)
        IN  MoreCounted(d, y, id, "ce", n)
    BY <2>1, ErrorsCount, Zenon
  <2>3. MoreCounted(d, e, id, "ce", corr - 1)
    BY <2>2 DEF n
  <2> HIDE DEF T, e
  <2> QED BY <1>1, <1>2, <2>3 DEF T
<1>3. CASE ~(corr > 1)
  <2>1. \A a \in EntryIds, k \in Kinds : Counted(d, a, k) \in Nat
    BY CountNat DEF DbRight
  <2>2. MoreCounted(d, d, id, "ce", 0)
    BY <2>1 DEF MoreCounted
  <2> HIDE DEF e
  <2> QED BY <1>1, <1>3, <2>2
<1> QED BY <1>2, <1>3

\* The place of an error, if it has an account.
At(kept, id, kind, a, k) == IF kept /\ a = id /\ k = kind THEN 1 ELSE 0

\* memory_error() counts the record for its DIMM and its socket, and what was
\* lost for the socket.
LEMMA MemoryErrorCounts ==
  ASSUME NEW cf, TablesRight(cf), NEW u \in Nat, NEW d, DbRight(d, cf, u),
         NEW m, m.uc \in BOOLEAN, m.time \in {0, u}, NEW ch, NEW dimm, NEW corr \in Nat,
         <<m.socketid, -1, -1>> \in EntryIds, <<m.socketid, ch, dimm>> \in EntryIds
  PROVE  LET id   == <<m.socketid, ch, dimm>>
             sid  == <<m.socketid, -1, -1>>
             kind == IF m.uc THEN "uc" ELSE "ce"
             one  == cf.recordlen # "short" /\ cf.memdb_enabled /\ (ch # -1 \/ dimm # -1)
             all  == cf.recordlen # "short" /\ cf.sockdb_enabled
             lost == IF corr > 1 THEN corr - 1 ELSE 0
             e    == memory_error(d, cf, m, ch, dimm, corr, u)
         IN  \A a \in EntryIds, k \in Kinds :
               Counted(e, a, k) = Counted(d, a, k) + At(one, id, kind, a, k)
                                  + At(all, sid, kind, a, k) + lost * At(all, sid, "ce", a, k)
<1> DEFINE id   == <<m.socketid, ch, dimm>>
           sid  == <<m.socketid, -1, -1>>
           kind == IF m.uc THEN "uc" ELSE "ce"
           lost == IF corr > 1 THEN corr - 1 ELSE 0
           one  == cf.memdb_enabled /\ (ch # -1 \/ dimm # -1)
           acc  == account_memdb(get_memdimm(d, id, u), cf.dimms, id, m, u)
           db1  == IF one THEN acc ELSE d
           got  == get_memdimm(db1, sid, u)
           over == account_over(got, cf.sockets, sid, m, corr, u)
           last == account_memdb(over, cf.sockets, sid, m, u)
           e    == memory_error(d, cf, m, ch, dimm, corr, u)
<1>1. e = IF cf.recordlen = "short" THEN d ELSE IF cf.sockdb_enabled THEN last ELSE db1
  BY Zenon DEF memory_error
<1>2. TableFor(cf, sid) = cf.sockets
  BY DEF TableFor
<1>3. DbRight(db1, cf, u) /\ \A a \in EntryIds, k \in Kinds : Counted(db1, a, k) = Counted(d, a, k) + At(one, id, kind, a, k)
  <2>1. CASE one
    <3> DEFINE e1 == get_memdimm(d, id, u)
    <3>1. TableFor(cf, id) = cf.dimms
      BY <2>1 DEF TableFor
    <3>2. DbRight(e1, cf, u) /\ Find(e1, id) # 0
      BY GetKeeps
    <3>3. SameCounted(d, e1)
      BY GetCounts
    <3>4. DbRight(acc, cf, u) /\ MoreCounted(e1, acc, id, kind, 1)
      <4> HIDE DEF id, e1
      <4>1. id \in EntryIds
        BY DEF id
      <4>2. DbRight(account_memdb(e1, TableFor(cf, id), id, m, u), cf, u)
            /\ MoreCounted(e1, account_memdb(e1, TableFor(cf, id), id, m, u), id, kind, 1)
        BY <3>2, <4>1, MemdbKeeps, MemdbCounts
      <4> QED BY <3>1, <4>2 DEF e1
    <3> HIDE DEF acc, e1, id, kind, one
    <3>5. db1 = acc
      BY <2>1
    <3> HIDE DEF db1
    <3> QED BY <2>1, <3>3, <3>4, <3>5 DEF SameCounted, MoreCounted, At
  <2>2. CASE ~one
    <3> HIDE DEF acc, id, kind, one
    <3>1. \A a \in EntryIds, k \in Kinds : Counted(d, a, k) \in Nat
      BY CountNat DEF DbRight
    <3>2. db1 = d
      BY <2>2
    <3> HIDE DEF db1
    <3> QED BY <2>2, <3>1, <3>2 DEF At
  <2> QED BY <2>1, <2>2
<1> HIDE DEF db1, sid, kind
<1>4. sid \in EntryIds
  BY DEF sid
<1>5. DbRight(got, cf, u) /\ Find(got, sid) # 0 /\ SameCounted(db1, got)
  BY <1>3, <1>4, GetKeeps, GetCounts
<1> HIDE DEF got
<1>6. DbRight(over, cf, u) /\ Find(over, sid) # 0 /\ MoreCounted(got, over, sid, "ce", lost)
  <2> DEFINE o == account_over(got, TableFor(cf, sid), sid, m, corr, u)
  <2>1. DbRight(o, cf, u) /\ Find(o, sid) # 0
    BY <1>4, <1>5, OverKeeps
  <2>2. MoreCounted(got, o, sid, "ce", lost)
    BY <1>4, <1>5, OverCounts
  <2> HIDE DEF o, lost
  <2>3. over = o
    BY <1>2 DEF o
  <2> HIDE DEF over
  <2> QED BY <2>1, <2>2, <2>3
<1> HIDE DEF over
<1>7. MoreCounted(over, last, sid, kind, 1)
  <2>1. MoreCounted(over, account_memdb(over, TableFor(cf, sid), sid, m, u), sid, kind, 1)
    BY <1>4, <1>6, MemdbCounts DEF kind
  <2> QED BY <1>2, <2>1
<1>8. lost \in Nat /\ \A a \in EntryIds, k \in Kinds : Counted(d, a, k) \in Nat
  BY CountNat DEF DbRight
<1> HIDE DEF last, e, id, lost, one
<1>9. ASSUME NEW a \in EntryIds, NEW k \in Kinds
      PROVE  Counted(e, a, k) = Counted(d, a, k) + At(cf.recordlen # "short" /\ one, id, kind, a, k)
               + At(cf.recordlen # "short" /\ cf.sockdb_enabled, sid, kind, a, k)
               + lost * At(cf.recordlen # "short" /\ cf.sockdb_enabled, sid, "ce", a, k)
  <2>1. CASE cf.recordlen = "short"
    BY <1>1, <1>8, <2>1 DEF At
  <2>2. CASE cf.recordlen # "short" /\ ~cf.sockdb_enabled
    <3>1. e = db1
      BY <1>1, <2>2
    <3>2. Counted(e, a, k) = Counted(d, a, k) + At(cf.recordlen # "short" /\ one, id, kind, a, k)
      BY <1>3, <2>2, <3>1 DEF At
    <3> QED BY <1>8, <2>2, <3>2 DEF At
  <2>3. CASE cf.recordlen # "short" /\ cf.sockdb_enabled
    <3>1. e = last
      BY <1>1, <2>3
    <3>2. /\ Counted(db1, a, k) = Counted(d, a, k) + At(one, id, kind, a, k)
          /\ Counted(got, a, k) = Counted(db1, a, k)
          /\ Counted(over, a, k) = Counted(got, a, k) + (IF a = sid /\ k = "ce" THEN lost ELSE 0)
          /\ Counted(last, a, k) = Counted(over, a, k) + (IF a = sid /\ k = kind THEN 1 ELSE 0)
      BY <1>3, <1>5, <1>6, <1>7 DEF SameCounted, MoreCounted
    <3>3. /\ (IF a = sid /\ k = "ce" THEN lost ELSE 0) = lost * At(cf.recordlen # "short" /\ cf.sockdb_enabled, sid, "ce", a, k)
          /\ (IF a = sid /\ k = kind THEN 1 ELSE 0) = At(cf.recordlen # "short" /\ cf.sockdb_enabled, sid, kind, a, k)
          /\ At(one, id, kind, a, k) = At(cf.recordlen # "short" /\ one, id, kind, a, k)
          /\ At(one, id, kind, a, k) \in Nat
      BY <1>8, <2>3 DEF At
    <3> QED BY <1>8, <3>1, <3>2, <3>3
  <2> QED BY <2>1, <2>2, <2>3
<1> QED BY <1>9 DEF e, id, sid, kind, lost, one

\* A DMI record counts nothing.
LEMMA PrefillCounts ==
  ASSUME NEW cf, TablesRight(cf), NEW u \in Nat, NEW d, DbRight(d, cf, u), NEW id \in EntryIds \cup {<<>>}
  PROVE  SameCounted(d, Prefill(d, id, u))
<1>1. CASE id = <<>>
  BY <1>1 DEF Prefill, SameCounted
<1>2. CASE id # <<>>
  <2> DEFINE db1 == get_memdimm(d, id, u)
             md == Entry(db1, id)
             new == [md EXCEPT !.memdev = TRUE]
  <2>1. Prefill(d, id, u) = SetEntry(db1, id, new)
    BY <1>2, Zenon DEF Prefill
  <2>2. id \in EntryIds /\ DbRight(db1, cf, u) /\ Find(db1, id) # 0 /\ SameCounted(d, db1)
    BY <1>2, GetKeeps, GetCounts
  <2> HIDE DEF db1
  <2>3. md \in DimmEntries /\ md.id = id /\ EntryRight(md, cf, u)
    BY <2>2, EntryFacts
  <2>4. \A k \in Kinds : Counted(db1, id, k) = md[k].count
    BY <2>2, CountEntry DEF DbRight
  <2> HIDE DEF md
  <2>5. new = [id |-> md.id, ce |-> md.ce, uc |-> md.uc, memdev |-> TRUE]
    <3>1. md \in [id : EntryIds, ce : Errors, uc : Errors, memdev : BOOLEAN]
      BY <2>3 DEF DimmEntries
    <3>2. \A x : [md EXCEPT !.memdev = x] = [id |-> md.id, ce |-> md.ce, uc |-> md.uc, memdev |-> x]
      BY <3>1, Named
    <3>3. [md EXCEPT !.memdev = TRUE] = [id |-> md.id, ce |-> md.ce, uc |-> md.uc, memdev |-> TRUE]
      BY <3>2, Zenon
    <3> QED BY <3>3, Zenon
  <2>6. new \in DimmEntries /\ new.id = id /\ new.ce = md.ce /\ new.uc = md.uc
    BY <2>3, <2>5 DEF DimmEntries
  <2> HIDE DEF new
  <2>7. EntryRight(new, cf, u)
    BY <2>3, <2>6 DEF EntryRight
  <2>8. \A a \in EntryIds, k \in Kinds :
          Counted(SetEntry(db1, id, new), a, k) = IF a = id THEN new[k].count ELSE Counted(db1, a, k)
    BY <2>2, <2>6, <2>7, SetCounts
  <2>9. \A k \in Kinds : new[k].count = md[k].count
    BY <2>6 DEF Kinds
  <2> QED BY <2>1, <2>2, <2>4, <2>8, <2>9 DEF SameCounted
<1> QED BY <1>1, <1>2

\* All of them count nothing.
LEMMA PrefillAllCounts ==
  ASSUME NEW cf, TablesRight(cf), NEW u \in Nat, NEW d, DbRight(d, cf, u),
         NEW dmi, Len(dmi) \in Nat, \A n \in 1 .. Len(dmi) : dmi[n] \in EntryIds \cup {<<>>}
  PROVE  SameCounted(d, prefill_memdb(d, dmi, u))
<1> DEFINE L == Len(dmi)
           S == {x \in Databases : DbRight(x, cf, u) /\ SameCounted(d, x)}
           f == CHOOSE f : f = [n \in 0 .. L |-> IF n = 0 THEN d ELSE Prefill(f[n - 1], dmi[n], u)]
           step == [n \in 1 .. L |-> [x \in S |-> Prefill(x, dmi[n], u)]]
<1>1. prefill_memdb(d, dmi, u) = f[L]
  BY DEF prefill_memdb
<1>2. d \in S /\ L \in Nat
  BY DEF DbRight, SameCounted
<1>3. ASSUME NEW n \in 1 .. L, NEW x \in S PROVE Prefill(x, dmi[n], u) \in S
  <2>1. DbRight(Prefill(x, dmi[n], u), cf, u)
    BY PrefillKeeps
  <2>2. SameCounted(x, Prefill(x, dmi[n], u))
    BY PrefillCounts
  <2> QED BY <2>1, <2>2 DEF DbRight, SameCounted
<1> HIDE DEF S, L
<1>4. step \in Steps(S, L)
  BY <1>3 DEF Steps
<1> HIDE DEF step
<1>5. PICK g : Looped(g, S, L, d, step)
  <2>1. \E g : Looped(g, S, L, d, step)
    BY <1>2, <1>4, Recursion
  <2> QED BY <2>1
<1>6. ASSUME NEW n \in 1 .. L PROVE g[n] = Prefill(g[n - 1], dmi[n], u)
  <2>1. n - 1 \in 0 .. L /\ g[n - 1] \in S
    BY <1>2, <1>5 DEF Looped
  <2> QED BY <1>5, <2>1 DEF step, Looped
<1>7. g = [n \in 0 .. L |-> IF n = 0 THEN d ELSE Prefill(g[n - 1], dmi[n], u)]
  <2>1. ASSUME NEW n \in 0 .. L PROVE g[n] = IF n = 0 THEN d ELSE Prefill(g[n - 1], dmi[n], u)
    <3>1. n = 0 \/ n \in 1 .. L
      BY <1>2
    <3> QED BY <1>5, <1>6, <3>1 DEF Looped
  <2> QED BY <1>5, <2>1 DEF Looped
<1>8. f = [n \in 0 .. L |-> IF n = 0 THEN d ELSE Prefill(f[n - 1], dmi[n], u)]
  BY <1>7
<1> HIDE DEF f
<1>9. f[0] = d /\ \A n \in 1 .. L : f[n] = Prefill(f[n - 1], dmi[n], u)
  BY <1>2, <1>8
<1> DEFINE P == {n \in 0 .. L : f[n] \in S}
<1>10. 0 \in P
  BY <1>2, <1>9
<1>11. \A n \in 1 .. L : n - 1 \in P => n \in P
  BY <1>2, <1>3, <1>9
<1>12. L \in P
  <2> HIDE DEF P
  <2>1. \A n \in 0 .. L : n \in P
    BY <1>2, <1>10, <1>11, UpTo
  <2> QED BY <1>2, <2>1
<1> QED BY <1>1, <1>12 DEF L, S

\* What the dump of the pages shows for one of them.
PageCount(q, p) == IF p \in ToSet(DumpedPages(q)) THEN q.page[p].ce.count ELSE 0

\* account_page_error() counts the record for its page, and for no DIMM.
LEMMA AccountPageCounts ==
  ASSUME conf.on, ConfRight, now \in Nat, NEW n \in Nat, n < MaxRecords,
         PagesRight(pdb.page, n), TreeRight(pdb.root), NEW d, DbRight(d, conf, now),
         NEW m, m.page \in Pages, m.time \in {0, now}, NEW ch, NEW dimm,
         <<m.socketid, ch, dimm>> \in EntryIds, NEW kernel
  PROVE  LET r == account_page_error(pdb, d, conf, m, ch, dimm, kernel, now)
             counts == ~(conf.offline = "off" \/ ~m.addrv \/ m.uc)
         IN  /\ SameCounted(d, r.db)
             /\ \A p \in Pages : /\ PageCount(pdb, p) \in Nat
                                 /\ PageCount(r.pdb, p) = PageCount(pdb, p) + (IF counts /\ p = m.page THEN 1 ELSE 0)
<1> DEFINE addr == m.page
           id   == <<m.socketid, ch, dimm>>
           old  == IF mempage_lookup(pdb.root, addr) = NULL THEN NewPage(now) ELSE pdb.page[addr]
           root == IF mempage_lookup(pdb.root, addr) = NULL THEN mempage_insert(pdb.root, addr) ELSE pdb.root
           a    == Account(old.ce, conf.page, 1, m.time, now)
           mp   == [old EXCEPT !.ce = a.et]
           runs == a.full /\ old.offlined = "online"
           new  == IF a.full THEN PageFull(mp, conf.offline, kernel) ELSE mp
           page == [pdb.page EXCEPT ![addr] = new]
           d1   == IF runs THEN memdb_trigger(get_memdimm(d, id, now), TRUE) ELSE d
           q    == [root |-> root, page |-> page]
           r    == account_page_error(pdb, d, conf, m, ch, dimm, kernel, now)
           counts == ~(conf.offline = "off" \/ ~m.addrv \/ m.uc)
<1>1. r = IF ~counts THEN [pdb |-> pdb, db |-> d] ELSE [pdb |-> q, db |-> d1]
  BY Zenon DEF account_page_error
<1>2. TablesRight(conf) /\ conf.page \in BucketConf /\ conf.offline \in Offline
  BY DEF ConfRight, TablesRight, Offline
<1>3. TreeRight(root) /\ Members(root) = Members(pdb.root) \cup {addr}
  <2>1. CASE mempage_lookup(pdb.root, addr) = NULL
    <3>1. LET u == mempage_insert(pdb.root, addr) IN TreeRight(u) /\ Members(u) = Members(pdb.root) \cup {addr}
      BY <2>1, InsertKeeps
    <3> QED BY <2>1, <3>1
  <2>2. CASE mempage_lookup(pdb.root, addr) # NULL
    <3>1. addr \in Members(pdb.root)
      BY <2>2, LookupRight
    <3> QED BY <2>2, <3>1
  <2> QED BY <2>1, <2>2
<1>4. /\ ToSet(DumpedPages(pdb)) = Members(pdb.root)
      /\ ToSet(DumpedPages(q)) = Members(root)
  <2>1. ToSet(Walk(root, "r")) = Members(root) /\ ToSet(Walk(pdb.root, "r")) = Members(pdb.root)
    BY <1>3, WalkAscends
  <2> HIDE DEF root, page
  <2>2. q.root = root
    OBVIOUS
  <2> QED BY <2>1, <2>2 DEF DumpedPages
<1>5. pdb.page \in [Pages -> PageEntries]
  BY DEF PagesRight
<1>6. PageRight(old, conf, now, Histories, n) /\ old.ce.count = PageCount(pdb, addr)
  <2>1. <<>> \in Histories
    <3>1. <<>> \in [1 .. 0 -> {"trigger"}]
      OBVIOUS
    <3>2. 0 \in 0 .. MaxRecords
      BY BoundsAssumption
    <3>3. <<>> \in UNION {[1 .. k -> {"trigger"}] : k \in 0 .. MaxRecords}
      BY <3>1, <3>2
    <3> QED BY <3>3 DEF Histories
  <2>2. PageRight(NewPage(now), conf, now, Histories, n)
    BY <1>2, <2>1, NewPageRight
  <2>3. NewPage(now).ce.count = 0
    BY DEF NewPage, NewErrors
  <2>4. mempage_lookup(pdb.root, addr) # NULL <=> addr \in Members(pdb.root)
    BY LookupRight
  <2> QED BY <1>4, <2>2, <2>3, <2>4 DEF PagesRight, PageCount
<1> HIDE DEF old, root, r
<1>7. /\ old \in PageEntries /\ old.ce \in Errors /\ Spread(old.ce, conf.page, now)
      /\ old.did \in Histories /\ old.offlined = Outcome(old.did)
      /\ conf.offline \in {"off", "account"} => Len(old.did) <= n
  BY <1>6 DEF PageRight, PageEntries
<1>8. a.full \in BOOLEAN /\ a.et \in Errors /\ a.et.count = old.ce.count + 1
  <2>1. 1 \in Nat \ {0}
    OBVIOUS
  <2>2. ASSUME NEW t \in {0, now}
        PROVE  LET x == Account(old.ce, conf.page, 1, t, now)
               IN  x.full \in BOOLEAN /\ x.et \in Errors /\ x.et.count = old.ce.count + 1
    BY <1>2, <1>7, <2>1, AccountKeeps
  <2> QED BY <2>2
<1> HIDE DEF a
<1>9. mp \in PageEntries /\ mp.ce = a.et /\ mp.did = old.did /\ mp.offlined = old.offlined
  <2>1. mp = [ce |-> a.et, offlined |-> old.offlined, triggered |-> old.triggered, did |-> old.did]
    BY <1>7 DEF PageEntries
  <2> HIDE DEF mp
  <2> QED BY <1>7, <1>8, <2>1 DEF PageEntries
<1> HIDE DEF mp
<1>10. new.ce.count = old.ce.count + 1
  <2>1. CASE a.full
    <3>1. new.ce = mp.ce
      BY <1>2, <1>7, <1>9, <2>1, PageFullKeeps
    <3> QED BY <1>8, <1>9, <3>1
  <2>2. CASE ~a.full
    BY <1>8, <1>9, <2>2
  <2> QED BY <2>1, <2>2
<1> HIDE DEF new
<1>11. q.page = page /\ \A p \in Pages : page[p] = IF p = addr THEN new ELSE pdb.page[p]
  BY <1>5
<1>12. \A p \in Pages : PageCount(pdb, p) \in Nat
  <2>1. \A p \in Pages : pdb.page[p].ce.count \in Nat
    BY <1>5 DEF PageEntries, Errors
  <2> QED BY <2>1 DEF PageCount
<1> HIDE DEF page, q
<1>13. ASSUME NEW p \in Pages PROVE PageCount(q, p) = PageCount(pdb, p) + (IF p = addr THEN 1 ELSE 0)
  <2>1. CASE p = addr
    BY <1>3, <1>4, <1>6, <1>10, <1>11, <2>1 DEF PageCount
  <2>2. CASE p # addr
    <3>1. PageCount(q, p) = PageCount(pdb, p)
      BY <1>3, <1>4, <1>11, <2>2 DEF PageCount
    <3> QED BY <1>12, <2>2, <3>1
  <2> QED BY <2>1, <2>2
<1>14. SameCounted(d, d1)
  <2> DEFINE e == get_memdimm(d, id, now)
  <2>1. DbRight(e, conf, now) /\ SameCounted(d, e)
    BY <1>2, GetKeeps, GetCounts
  <2> HIDE DEF e
  <2>2. ASSUME NEW full \in BOOLEAN PROVE \A x, kind : Counted(memdb_trigger(e, full), x, kind) = Counted(e, x, kind)
    BY <2>1, <2>2, TriggerCounts
  <2>3. SameCounted(d, memdb_trigger(e, TRUE))
    BY <2>1, <2>2 DEF SameCounted
  <2>4. SameCounted(d, d)
    BY DEF SameCounted
  <2> QED BY <2>3, <2>4 DEF e
<1>15. SameCounted(d, d)
  BY DEF SameCounted
<1> HIDE DEF d1, id
<1>16. CASE ~counts
  BY <1>1, <1>12, <1>15, <1>16 DEF r
<1>17. CASE counts
  <2>1. r.db = d1 /\ r.pdb = q
    BY <1>1, <1>17
  <2> HIDE DEF counts
  <2> QED BY <1>12, <1>13, <1>14, <1>17, <2>1 DEF r, counts
<1> QED BY <1>16, <1>17


\* The accounts that are shown, and what nothing is put on.
LEMMA AccountFacts ==
  /\ Ledger!Accounts = AllIds /\ AllIds \subseteq EntryIds
  /\ <<>> \notin AllIds /\ DimmIds \subseteq AllIds
  /\ \A m \in Records : <<m.socketid, -1, -1>> \in {Ledger!Whole(t) : t \in Sockets}
                        /\ <<m.socketid, -1, -1>> \in AllIds
<1>1. \A t : Ledger!Whole(t) = <<t, -1, -1>>
  BY DEF Ledger!Whole
<1>2. Ledger!Accounts = AllIds
  BY <1>1 DEF Ledger!Accounts, AllIds
<1>3. AllIds \subseteq EntryIds /\ DimmIds \subseteq AllIds
  BY DEF EntryIds, AllIds
<1>4. \A x, y, z : <<x, y, z>> # <<>>
  <2>1. \A x, y, z : Len(<<x, y, z>>) = 3 /\ Len(<<>>) = 0
    OBVIOUS
  <2> QED BY <2>1
<1>5. <<>> \notin AllIds
  BY <1>4 DEF AllIds, DimmIds
<1>6. \A m \in Records : m.socketid \in Sockets
  BY DEF Sockets
<1> QED BY <1>1, <1>2, <1>3, <1>5, <1>6 DEF AllIds

\* The accounts, as the ledger reads them off a record, are the entries that
\* intel_memory_error() looks up for it.
LEMMA PlacesRead ==
  ASSUME conf.on, conf.filter_bogus, NEW m \in Records, NEW type, type \in IntelTypes, m.mem, ~m.filt
  PROVE  LET loc == Location(type, m)
             id  == <<m.socketid, loc[1], loc[2]>>
             sid == <<m.socketid, -1, -1>>
             one == conf.recordlen # "short" /\ conf.memdb_enabled /\ (loc[1] # -1 \/ loc[2] # -1)
             all == conf.recordlen # "short" /\ conf.sockdb_enabled
         IN  /\ one => id # sid
             /\ \A a \in AllIds : a \in Ledger!AccountsOf(m, type) <=> (one /\ a = id) \/ (all /\ a = sid)
             /\ \A a \in AllIds : a \in Ledger!LostOn(m, type)
                                    <=> all /\ conf.recordlen = "full" /\ m.corr > 1 /\ a = sid
             /\ \A p \in Pages : p \in Ledger!PagesOf(m, type)
                                   <=> conf.offline # "off" /\ m.addrv /\ ~m.uc /\ p = m.page
<1> DEFINE loc == Location(type, m)
           id  == <<m.socketid, loc[1], loc[2]>>
           sid == <<m.socketid, -1, -1>>
           known == loc[1] # -1 \/ loc[2] # -1
           dimms == conf.recordlen # "short" /\ conf.memdb_enabled
           all == conf.recordlen # "short" /\ conf.sockdb_enabled
<1>1. /\ "dimm" \in KindsKept <=> dimms
      /\ "socket" \in KindsKept <=> all
      /\ "page" \in KindsKept <=> conf.offline # "off"
      /\ "lost" \in KindsKept <=> conf.recordlen = "full"
  BY DEF KindsKept
<1>2. Ledger!IsMemoryError(m, type)
  BY DEF Ledger!IsMemoryError
<1>3. Ledger!Whole(m.socketid) = sid
  BY DEF Ledger!Whole
<1>4. Ledger!DimmOf(m, type) = IF known THEN {id} ELSE {}
  <2>1. CASE type = "nehalem" /\ m.misc # <<>>
    <3>1. loc = m.misc /\ loc[1] # -1
      BY <2>1, RecordsAssumption DEF Location, Record, Locations
    <3> QED BY <2>1, <3>1 DEF Ledger!DimmOf
  <2>2. CASE ~(type = "nehalem" /\ m.misc # <<>>)
    <3>1. loc = <<m.channel, -1>>
      BY <2>2 DEF Location
    <3> HIDE DEF loc
    <3>2. loc[1] = m.channel /\ loc[2] = -1 /\ (known <=> m.channel # -1)
      BY <3>1
    <3>3. Ledger!DimmOf(m, type) = {<<m.socketid, c, -1>> : c \in {m.channel} \ {-1}}
      BY <2>2 DEF Ledger!DimmOf
    <3> QED BY <3>2, <3>3
  <2> QED BY <2>1, <2>2
<1>5. known => id # sid
  OBVIOUS
<1>6. Ledger!Accounts = AllIds
  BY AccountFacts
<1> HIDE DEF loc, id, sid, known, dimms, all
<1>7. \A a \in AllIds : a \in Ledger!AccountsOf(m, type) <=> (dimms /\ known /\ a = id) \/ (all /\ a = sid)
  BY <1>1, <1>2, <1>3, <1>4, <1>6 DEF Ledger!AccountsOf
<1>8. \A a \in AllIds : a \in Ledger!LostOn(m, type)
                          <=> all /\ conf.recordlen = "full" /\ m.corr > 1 /\ a = sid
  BY <1>1, <1>3, <1>5, <1>7 DEF Ledger!LostOn
<1>9. \A p \in Pages : p \in Ledger!PagesOf(m, type)
                         <=> conf.offline # "off" /\ m.addrv /\ ~m.uc /\ p = m.page
  BY <1>1, <1>2 DEF Ledger!PagesOf
<1> QED BY <1>5, <1>7, <1>8, <1>9 DEF loc, id, sid, known, dimms, all

\* What a record that is read adds to the accounts and to the pages: one error
\* on those it belongs to, what was lost on its socket, and nothing elsewhere.
Recorded(m, type, e, q) ==
  /\ \A a \in AllIds, k \in Kinds :
       Counted(e, a, k) = Counted(db, a, k)
                          + (IF k = (IF m.uc THEN "uc" ELSE "ce") /\ a \in Ledger!AccountsOf(m, type) THEN 1 ELSE 0)
                          + (IF k = "ce" /\ a \in Ledger!LostOn(m, type) THEN m.corr - 1 ELSE 0)
  /\ \A p \in Pages :
       PageCount(q, p) = PageCount(pdb, p) + (IF p \in Ledger!PagesOf(m, type) THEN 1 ELSE 0)

\* A record that belongs to no account leaves them alone.
LEMMA NothingRecorded ==
  ASSUME AInv, NEW m \in Records, NEW type, conf.on,
         ~conf.filter_bogus \/ ~Ledger!IsMemoryError(m, type)
  PROVE  Recorded(m, type, db, pdb)
<1>1. ASSUME ~conf.filter_bogus PROVE KindsKept = {}
  BY <1>1 DEF KindsKept
<1>2. Ledger!AccountsOf(m, type) = {} /\ Ledger!LostOn(m, type) = {} /\ Ledger!PagesOf(m, type) = {}
  BY <1>1 DEF Ledger!AccountsOf, Ledger!LostOn, Ledger!PagesOf
<1>3. \A a \in AllIds, k \in Kinds : Counted(db, a, k) \in Nat
  BY AccountFacts, CountNat DEF AInv, DbRight
<1>4. \A p \in Pages : PageCount(pdb, p) \in Nat
  BY DEF AInv, PagesRight, PageCount, PageEntries, Errors
<1> QED BY <1>2, <1>3, <1>4 DEF Recorded

\* intel_memory_error() puts a record on its accounts, and on no other.
LEMMA IntelCounts ==
  ASSUME AInv, conf.on, conf.filter_bogus, nread < MaxRecords, NEW m \in Records, NEW type, NEW kernel
  PROVE  LET r == intel_memory_error(type, Stamped(m, now), kernel)
         IN  Recorded(m, type, r.db, r.pdb)
<1> DEFINE s == Stamped(m, now)
           loc == Location(type, s)
           corr == IF conf.recordlen = "full" THEN s.corr ELSE 0
           lost == IF corr > 1 THEN corr - 1 ELSE 0
           db1 == memory_error(db, conf, s, loc[1], loc[2], corr, now)
           acc == account_page_error(pdb, db1, conf, s, loc[1], loc[2], kernel, now)
           r == intel_memory_error(type, s, kernel)
           id   == <<m.socketid, loc[1], loc[2]>>
           sid  == <<m.socketid, -1, -1>>
           kind == IF m.uc THEN "uc" ELSE "ce"
           known == loc[1] # -1 \/ loc[2] # -1
           one  == conf.recordlen # "short" /\ conf.memdb_enabled /\ known
           all  == conf.recordlen # "short" /\ conf.sockdb_enabled
           counts == ~(conf.offline = "off" \/ ~s.addrv \/ s.uc)
<1>0. /\ ConfRight /\ now \in Nat /\ nread \in Nat /\ DbRight(db, conf, now) /\ PagesRight(pdb.page, nread)
      /\ TreeRight(pdb.root)
  BY BoundsAssumption DEF AInv
<1>1. r = IF type \in IntelTypes /\ s.mem /\ ~s.filt THEN acc ELSE [pdb |-> pdb, db |-> db]
  BY Zenon DEF intel_memory_error
<1>2. /\ s.time \in {0, now} /\ s.uc = m.uc /\ s.page = m.page /\ s.corr = m.corr
      /\ s.socketid = m.socketid /\ s.misc = m.misc /\ s.channel = m.channel
      /\ s.mem = m.mem /\ s.filt = m.filt /\ s.addrv = m.addrv
  BY StampedFacts
<1> HIDE DEF s, r
<1>3. m.uc \in BOOLEAN /\ m.page \in Pages /\ m.corr \in Nat
  BY RecordsAssumption DEF Record
<1>4. loc = Location(type, m)
  BY <1>2 DEF Location
<1> HIDE DEF loc
<1>6. id \in EntryIds /\ sid \in EntryIds
  BY <1>4, PlaceHasEntry
<1>7. corr \in Nat /\ lost = IF conf.recordlen = "full" /\ m.corr > 1 THEN m.corr - 1 ELSE 0
  BY <1>2, <1>3
<1> HIDE DEF corr
<1>8. TablesRight(conf)
  BY <1>0 DEF ConfRight
<1>9. s.uc \in BOOLEAN /\ s.page \in Pages
  BY <1>2, <1>3
<1>10. <<s.socketid, loc[1], loc[2]>> = id /\ <<s.socketid, -1, -1>> = sid
  BY <1>2
<1>11. DbRight(db1, conf, now)
  BY <1>0, <1>2, <1>6, <1>7, <1>8, <1>9, <1>10, MemoryErrorKeeps
<1>12. \A a \in EntryIds, k \in Kinds :
         Counted(db1, a, k) = Counted(db, a, k) + At(one, id, kind, a, k)
                              + At(all, sid, kind, a, k) + lost * At(all, sid, "ce", a, k)
  BY <1>0, <1>2, <1>6, <1>7, <1>8, <1>9, <1>10, MemoryErrorCounts
<1> HIDE DEF db1
<1>13. /\ SameCounted(db1, acc.db)
       /\ \A p \in Pages : PageCount(acc.pdb, p) = PageCount(pdb, p) + (IF counts /\ p = m.page THEN 1 ELSE 0)
  BY <1>0, <1>2, <1>6, <1>9, <1>10, <1>11, AccountPageCounts
<1> HIDE DEF acc, lost
<1>14. ASSUME type \in IntelTypes /\ m.mem /\ ~m.filt PROVE Recorded(m, type, r.db, r.pdb)
  <2>1. r = acc
    BY <1>1, <1>2, <1>14
  <2>2. /\ one => id # sid
        /\ \A a \in AllIds : a \in Ledger!AccountsOf(m, type) <=> (one /\ a = id) \/ (all /\ a = sid)
        /\ \A a \in AllIds : a \in Ledger!LostOn(m, type)
                               <=> all /\ conf.recordlen = "full" /\ m.corr > 1 /\ a = sid
        /\ \A p \in Pages : p \in Ledger!PagesOf(m, type)
                              <=> conf.offline # "off" /\ m.addrv /\ ~m.uc /\ p = m.page
    BY <1>4, <1>14, PlacesRead
  <2>3. counts <=> conf.offline # "off" /\ m.addrv /\ ~m.uc
    BY <1>2
  <2>4. AllIds \subseteq EntryIds
    BY AccountFacts
  <2>5. kind = (IF m.uc THEN "uc" ELSE "ce")
    OBVIOUS
  <2> HIDE DEF one, id, kind, all, sid, counts
  <2>6. ASSUME NEW a \in AllIds, NEW k \in Kinds
        PROVE  Counted(acc.db, a, k)
                 = Counted(db, a, k) + (IF k = kind /\ a \in Ledger!AccountsOf(m, type) THEN 1 ELSE 0)
                   + (IF k = "ce" /\ a \in Ledger!LostOn(m, type) THEN m.corr - 1 ELSE 0)
    <3>1. Counted(acc.db, a, k) = Counted(db, a, k) + At(one, id, kind, a, k)
                                  + At(all, sid, kind, a, k) + lost * At(all, sid, "ce", a, k)
      BY <1>12, <1>13, <2>4 DEF SameCounted
    <3>2. Counted(db, a, k) \in Nat
      BY <1>0, <2>4, CountNat DEF DbRight
    <3>3. At(one, id, kind, a, k) + At(all, sid, kind, a, k)
            = IF k = kind /\ a \in Ledger!AccountsOf(m, type) THEN 1 ELSE 0
      BY <2>2 DEF At
    <3>4. lost * At(all, sid, "ce", a, k) = IF k = "ce" /\ a \in Ledger!LostOn(m, type) THEN m.corr - 1 ELSE 0
      <4>1. CASE k = "ce" /\ all /\ a = sid
        <5>1. lost * At(all, sid, "ce", a, k) = lost
          BY <1>3, <1>7, <4>1 DEF At
        <5> QED BY <1>7, <2>2, <4>1, <5>1
      <4>2. CASE ~(k = "ce" /\ all /\ a = sid)
        <5>1. lost * At(all, sid, "ce", a, k) = 0
          BY <1>3, <1>7, <4>2 DEF At
        <5> QED BY <2>2, <4>2, <5>1
      <4> QED BY <4>1, <4>2
    <3> QED BY <3>1, <3>2, <3>3, <3>4 DEF At
  <2>7. \A p \in Pages : PageCount(acc.pdb, p) = PageCount(pdb, p) + (IF p \in Ledger!PagesOf(m, type) THEN 1 ELSE 0)
    BY <1>13, <2>2, <2>3
  <2> QED BY <2>1, <2>5, <2>6, <2>7 DEF Recorded
<1>15. ASSUME ~(type \in IntelTypes /\ m.mem /\ ~m.filt) PROVE Recorded(m, type, r.db, r.pdb)
  <2>1. r.db = db /\ r.pdb = pdb
    BY <1>1, <1>2, <1>15
  <2>2. ~Ledger!IsMemoryError(m, type)
    BY <1>15 DEF Ledger!IsMemoryError
  <2> QED BY <2>1, <2>2, NothingRecorded
<1> QED BY <1>14, <1>15, Zenon DEF r, s

\* The pages as they are dumped.
LEMMA PagesShown == ShownPages = [p \in Pages |-> PageCount(pdb, p)]
BY DEF ShownPages, PageCount

\* A record that is processed is the ledger's: its accounts and no others have
\* one error more.
LEMMA ProcessInLedger ==
  ASSUME AInv, NEW m \in Records, NEW kernel, Process(m, kernel)
  PROVE  Ledger!Read(m)
<1> DEFINE c == mce_cpuid(cpu, m)
           r == intel_memory_error(c.type, Stamped(m, now), kernel)
           t == c.type
<1>1. /\ conf.on /\ nread < MaxRecords /\ conf' = conf /\ nread' = nread + 1 /\ latest' = m
      /\ cpu'.type = t
  BY DEF Process
<1>2. IF conf.filter_bogus THEN db' = r.db /\ pdb' = r.pdb ELSE db' = db /\ pdb' = pdb
  BY Zenon DEF Process
<1> HIDE DEF c
<1>3. Recorded(m, t, db', pdb')
  <2>1. CASE conf.filter_bogus
    <3>1. Recorded(m, t, r.db, r.pdb)
      BY <1>1, <2>1, IntelCounts
    <3> HIDE DEF r, t
    <3> QED BY <1>2, <2>1, <3>1
  <2>2. CASE ~conf.filter_bogus
    <3>1. Recorded(m, t, db, pdb)
      BY <1>1, <2>2, NothingRecorded
    <3> HIDE DEF r, t
    <3> QED BY <1>2, <2>2, <3>1
  <2> QED BY <2>1, <2>2
<1> HIDE DEF r, t
<1> DEFINE on == Ledger!AccountsOf(m, t)
           lost == Ledger!LostOn(m, t)
           pages == Ledger!PagesOf(m, t)
<1>4. m.uc \in BOOLEAN /\ m.corr - 1 \in Int
  BY RecordsAssumption DEF Record
<1>5. Shown("ce") \in [AllIds -> Int] /\ Shown("uc") \in [AllIds -> Int]
  <2>1. \A a \in AllIds, k \in Kinds : Counted(db, a, k) \in Int
    BY AccountFacts, CountNat DEF AInv, DbRight
  <2> QED BY <2>1 DEF Shown, Kinds
<1>6. ShownPages \in [Pages -> Int]
  <2>1. \A p \in Pages : PageCount(pdb, p) \in Int
    BY <1>1 DEF AInv, PagesRight, PageCount, PageEntries, Errors
  <2> QED BY <2>1, PagesShown
<1>7. ASSUME NEW k \in Kinds
      PROVE  Shown(k)' = [a \in AllIds |-> Shown(k)[a]
                            + (IF k = (IF m.uc THEN "uc" ELSE "ce") /\ a \in on THEN 1 ELSE 0)
                            + (IF k = "ce" /\ a \in lost THEN m.corr - 1 ELSE 0)]
  BY <1>3 DEF Shown, Recorded
<1>8. ShownPages' = Ledger!Plus(ShownPages, pages, 1)
  <2>1. ShownPages' = [p \in Pages |-> ShownPages[p] + (IF p \in pages THEN 1 ELSE 0)]
    <3>1. ShownPages' = [p \in Pages |-> PageCount(pdb', p)]
      BY DEF ShownPages, PageCount
    <3> QED BY <1>3, <3>1, PagesShown DEF Recorded
  <2> HIDE DEF pages
  <2> QED BY <1>6, <2>1 DEF Ledger!Plus
<1> HIDE DEF on, lost, pages
<1>9. Ledger!Corrected(m) \/ Ledger!Uncorrected(m)
  <2> DEFINE f == Shown("ce")
             g == Shown("uc")
  <2>1. f \in [AllIds -> Int] /\ g \in [AllIds -> Int]
    BY <1>5
  <2>2. f' = [a \in AllIds |-> f[a] + (IF ~m.uc /\ a \in on THEN 1 ELSE 0) + (IF a \in lost THEN m.corr - 1 ELSE 0)]
    BY <1>4, <1>7 DEF Kinds
  <2>3. g' = [a \in AllIds |-> g[a] + (IF m.uc /\ a \in on THEN 1 ELSE 0) + 0]
    BY <1>4, <1>7 DEF Kinds
  <2> HIDE DEF f, g
  <2>4. CASE m.uc
    <3>1. f' = Ledger!Plus(f, lost, m.corr - 1)
      BY <1>4, <2>1, <2>2, <2>4 DEF Ledger!Plus
    <3>2. g' = Ledger!Plus(g, on, 1)
      BY <2>1, <2>3, <2>4 DEF Ledger!Plus
    <3> QED BY <1>1, <2>4, <3>1, <3>2 DEF Ledger!Uncorrected, f, g, on, lost
  <2>5. CASE ~m.uc
    <3>1. f' = Ledger!Plus(Ledger!Plus(f, on, 1), lost, m.corr - 1)
      <4> DEFINE h == Ledger!Plus(f, on, 1)
      <4>1. h = [a \in AllIds |-> f[a] + (IF a \in on THEN 1 ELSE 0)]
        BY <2>1 DEF Ledger!Plus
      <4> HIDE DEF h
      <4>2. h \in [AllIds -> Int]
        BY <2>1, <4>1
      <4>3. Ledger!Plus(h, lost, m.corr - 1) = [a \in AllIds |-> h[a] + (IF a \in lost THEN m.corr - 1 ELSE 0)]
        BY <4>2 DEF Ledger!Plus
      <4>4. f' = Ledger!Plus(h, lost, m.corr - 1)
        BY <1>4, <2>1, <2>2, <2>5, <4>1, <4>3
      <4> QED BY <4>4 DEF h
    <3>2. g' = g
      BY <2>1, <2>3, <2>5
    <3> QED BY <1>1, <2>5, <3>1, <3>2 DEF Ledger!Corrected, f, g, on, lost
  <2> QED BY <1>4, <2>4, <2>5
<1>10. KindsKept' = KindsKept
  BY <1>1 DEF KindsKept
<1> QED BY <1>1, <1>8, <1>9, <1>10 DEF Ledger!Read, pages

\* The configuration says which accounts are kept; the DMI table's are empty.
LEMMA SetupInLedger ==
  ASSUME AInv, Setup
  PROVE  Ledger!Next \/ UNCHANGED Ledger!ledger
<1>1. /\ ~conf.on /\ pdb' = pdb /\ now \in Nat /\ db = EmptyDb
      /\ nread = 0 /\ nread' = nread /\ latest' = latest
  BY DEF AInv, Setup
<1>2. KindsKept = {} /\ KindsKept' \in SUBSET {"dimm", "socket", "page", "lost"}
  BY <1>1 DEF KindsKept
<1> DEFINE Conf(rate) == bucket_conf_init(rate, NoBucketConf)
           Bool(c, n) == IF n = -1 THEN c.support ELSE n = 1
<1>3. PICK f \in Configs :
        LET c == check_cpu(modifier(cpu, f.cpu))
        IN  /\ conf' = [on |-> TRUE, recordlen |-> f.recordlen, filter_bogus |-> f.filter,
                        memdb_enabled |-> Bool(c, f.dimm), sockdb_enabled |-> Bool(c, f.socket),
                        dimms |-> [ce |-> Conf(f.dimm_ce), uc |-> Conf(f.dimm_uc)],
                        sockets |-> [ce |-> Conf(f.sock_ce), uc |-> Conf(f.sock_uc)],
                        page |-> Conf(f.page_ce), offline |-> page_setup(f.action, f.sysfs)]
            /\ db' = IF Bool(c, f.dimm) THEN prefill_memdb(db, f.dmi, now) ELSE db
  BY Zenon DEF Setup
<1> HIDE DEF Conf, Bool
<1>4. TablesRight(conf')
  <2>1. conf'.on = TRUE
    BY <1>3
  <2>2. AInv'
    BY SetupKeeps
  <2> QED BY <2>1, <2>2 DEF AInv, ConfRight
<1>5. SameCounted(db, prefill_memdb(db, f.dmi, now))
  <2>1. f.dmi \in Seq({<<>>} \cup (Nat \X Nat \X Nat))
    BY ConfigsAssumption
  <2>2. Len(f.dmi) \in Nat
    BY <2>1
  <2>3. ASSUME NEW n \in 1 .. Len(f.dmi) PROVE f.dmi[n] \in EntryIds \cup {<<>>}
    BY DEF EntryIds
  <2>4. DbRight(db, conf', now)
    BY <1>1, EmptyDbRight
  <2> QED BY <1>1, <1>4, <2>2, <2>3, <2>4, PrefillAllCounts
<1>6. SameCounted(db, db')
  <2>1. SameCounted(db, db)
    BY DEF SameCounted
  <2> QED BY <1>3, <1>5, <2>1
<1>7. \A k \in Kinds : Shown(k)' = Shown(k)
  <2>1. \A a \in AllIds, k \in Kinds : Counted(db', a, k) = Counted(db, a, k)
    BY <1>6, AccountFacts DEF SameCounted
  <2> QED BY <2>1 DEF Shown
<1>8. Shown("ce")' = Shown("ce") /\ Shown("uc")' = Shown("uc")
  BY <1>7 DEF Kinds
<1>9. ShownPages' = ShownPages
  BY <1>1 DEF ShownPages
<1> QED BY <1>1, <1>2, <1>8, <1>9 DEF Ledger!Next, Ledger!Open

\* The hash table of the DIMMs, the tree of the pages and the buckets keep the
\* ledger: each record that is read is one error more on each of the accounts
\* that it names and on no other, what the hardware lost goes to its socket, and
\* nothing that was counted is ever lost, whatever is inserted beside it
\* (memdb.c:187-252, page.c:169-207).
THEOREM ImplementsLedgerSound == ASpec => ImplementsLedger
<1>1. AInit => Ledger!Init
  <2> SUFFICES ASSUME AInit PROVE Ledger!Init
    OBVIOUS
  <2>1. conf.on = FALSE /\ db = EmptyDb /\ pdb = EmptyPageDb /\ nread = 0
    BY DEF AInit
  <2>2. KindsKept = {}
    BY <2>1 DEF KindsKept
  <2>3. \A a \in AllIds, k \in Kinds : Counted(db, a, k) = 0
    <3>1. EmptyDb \in Databases
      BY EmptyDbRight DEF DbRight
    <3>2. \A a \in EntryIds : EmptyDb.dimms[dimmhash(a)] = <<>>
      BY HashesRight DEF EmptyDb, Hashes
    <3>3. Len(<<>>) = 0
      OBVIOUS
    <3>4. ASSUME NEW a \in EntryIds, NEW k \in Kinds PROVE Counted(EmptyDb, a, k) = 0
      BY <3>1, <3>2, <3>3, CountNone
    <3> QED BY <2>1, <3>4, AccountFacts
  <2>4. Shown("ce") = [a \in AllIds |-> 0] /\ Shown("uc") = [a \in AllIds |-> 0]
    BY <2>3 DEF Shown, Kinds
  <2>5. ShownPages = [p \in Pages |-> 0]
    <3>1. \A p \in Pages : pdb.page[p].ce.count = 0
      BY <2>1 DEF EmptyPageDb, NewPage, NewErrors
    <3>2. \A p \in Pages : PageCount(pdb, p) = 0
      BY <3>1 DEF PageCount
    <3> QED BY <3>2, PagesShown
  <2> QED BY <2>1, <2>2, <2>4, <2>5, AccountFacts DEF Ledger!Init
<1>2. AInv /\ [ANext]_avars => [Ledger!Next]_Ledger!ledger
  <2> SUFFICES ASSUME AInv, [ANext]_avars PROVE Ledger!Next \/ UNCHANGED Ledger!ledger
    OBVIOUS
  <2>1. CASE Setup
    BY <2>1, SetupInLedger
  <2>2. ASSUME NEW m \in Records, NEW kernel \in Kernels, Process(m, kernel)
        PROVE  Ledger!Next \/ UNCHANGED Ledger!ledger
    BY <2>2, ProcessInLedger DEF Ledger!Next
  <2>3. CASE Tick \/ UNCHANGED avars
    <3>1. conf' = conf /\ db' = db /\ pdb' = pdb /\ nread' = nread /\ latest' = latest
      BY <2>3 DEF Tick, avars
    <3> QED BY <3>1 DEF Ledger!ledger, KindsKept, Shown, ShownPages
  <2> QED BY <2>1, <2>2, <2>3 DEF ANext
<1>3. ASpec => []AInv
  BY AccountsRight
<1> QED BY <1>1, <1>2, <1>3, PTL DEF ASpec, ImplementsLedger, Ledger!Spec

-----------------------------------------------------------------------------
(* Records from the log of a dying kernel *)

\* A bounded set of numbers has a greatest one.
LEMMA GreatestNat ==
  ASSUME NEW B \in Nat, NEW T, T \subseteq 0 .. B, T # {}
  PROVE  Max(T) \in T /\ \A y \in T : y <= Max(T)
<1> DEFINE U == {B - y : y \in T}
<1>1. U \subseteq Nat /\ U # {}
  <2>1. \A y \in T : B - y \in Nat
    OBVIOUS
  <2> QED BY <2>1
<1>2. PICK x \in U : \A y \in U : x <= y
  <2> HIDE DEF U
  <2> QED BY <1>1, LeastNat
<1>3. PICK z \in T : x = B - z
  BY <1>2
<1>4. \A y \in T : z >= y
  <2> TAKE y \in T
  <2>1. B - y \in U
    OBVIOUS
  <2>2. B - z <= B - y
    BY <1>2, <1>3, <2>1
  <2> QED BY <1>3, <2>2
<1>5. \A y \in T : Max(T) >= y
  BY <1>4 DEF Max
<1>6. Max(T) \in T
  BY <1>4 DEF Max
<1> QED BY <1>5, <1>6

FieldNames == ToSet(StructMce)
LineItems == [key : DOMAIN Conversions \cup {"HARDWARE ERROR", "text"}, n : Nat]
ItemRight(it) == it \in LineItems /\ (IsKey(it) => it.n <= Len(Conversions[it.key]))

\* The places of the fields in struct mce.
LEMMA FieldPlaces ==
  /\ FieldNames = {"status", "misc", "addr", "mcgstatus", "ip", "tsc", "time", "cpuvendor", "cpuid",
                   "cs", "bank", "cpu", "socketid", "apicid", "mcgcap"}
  /\ \A f \in FieldNames : endof_field(f) \in 1 .. 15
  /\ endof_field("status") = 1 /\ endof_field("mcgstatus") = 4 /\ endof_field("bank") = 11
<1>1. DOMAIN StructMce = 1 .. 15
  BY DEF StructMce
<1>2. FieldNames = {StructMce[j] : j \in 1 .. 15}
  BY <1>1 DEF FieldNames, ToSet
<1>3. FieldNames = {"status", "misc", "addr", "mcgstatus", "ip", "tsc", "time", "cpuvendor", "cpuid",
                   "cs", "bank", "cpu", "socketid", "apicid", "mcgcap"}
  <2>1. \A j \in 1 .. 15 : j \in {1, 2, 3, 4, 5, 6, 7, 8, 9, 10, 11, 12, 13, 14, 15}
    OBVIOUS
  <2> QED BY <1>2, <2>1 DEF StructMce
<1>4. ASSUME NEW f \in FieldNames PROVE endof_field(f) \in 1 .. 15
  <2>1. \E j \in 1 .. 15 : StructMce[j] = f
    BY <1>2
  <2> QED BY <1>1, <2>1 DEF endof_field
<1>5. ASSUME NEW f, NEW a \in 1 .. 15, \A j \in 1 .. 15 : StructMce[j] = f <=> j = a
      PROVE  endof_field(f) = a
  BY <1>1, <1>5 DEF endof_field
<1>6. \A j \in 1 .. 15 : StructMce[j] = "status" <=> j = 1
  BY DEF StructMce
<1>7. \A j \in 1 .. 15 : StructMce[j] = "mcgstatus" <=> j = 4
  BY DEF StructMce
<1>8. \A j \in 1 .. 15 : StructMce[j] = "bank" <=> j = 11
  BY DEF StructMce
<1> QED BY <1>3, <1>4, <1>5, <1>6, <1>7, <1>8

\* The beginning of a tuple.
LEMMA FirstOnes ==
  ASSUME NEW S, NEW s \in Seq(S), NEW l \in 0 .. Len(s)
  PROVE  ToSet(SubSeq(s, 1, l)) = {s[j] : j \in 1 .. l}
<1>1. SubSeq(s, 1, l) = [j \in 1 .. l |-> s[j]]
  BY SubSeqProperties
<1> QED BY <1>1 DEF ToSet

\* What a keyword stores, by its format.
Keyed(it, tuple) ==
  /\ Conversions[it.key] = tuple /\ it.n \in 0 .. Len(tuple)
  /\ Stored(it) = {tuple[j] : j \in 1 .. it.n}

LEMMA KeyedRight ==
  ASSUME NEW it, ItemRight(it), IsKey(it), NEW S, NEW tuple \in Seq(S), Conversions[it.key] = tuple
  PROVE  Keyed(it, tuple)
<1>1. it.n \in 0 .. Len(tuple)
  <2>1. Len(tuple) \in Nat
    BY LenProperties
  <2>2. it.n \in Nat
    BY DEF ItemRight, LineItems
  <2>3. it.n <= Len(tuple)
    BY DEF ItemRight
  <2> QED BY <2>1, <2>2, <2>3
<1> QED BY <1>1, FirstOnes DEF Keyed, Stored

LEMMA Keywords ==
  /\ DOMAIN Conversions = {"mce", "cpu", "status", "mcgstatus", "rip", "tsc", "addr", "misc", "time",
                           "processor", "mcgcap", "apicid", "socketid"}
  /\ Conversions["mce"] = <<"cpu", "mcgstatus", "bank", "status">>
  /\ Conversions["cpu"] = <<"cpu", "bank">> /\ Conversions["rip"] = <<"cs", "ip", "symbol">>
  /\ Conversions["processor"] = <<"cpuvendor", "cpuid">>
  /\ \A k \in DOMAIN Conversions \ {"mce", "cpu", "rip", "processor"} : Conversions[k] = <<k>>
BY DEF Conversions

\* A keyword that has all of its conversions is counted up to its last field.
LEMMA ItemFacts ==
  ASSUME NEW it, ItemRight(it), IsKey(it)
  PROVE  /\ it.n = 0 => Assigned(it) = {}
         /\ Assigned(it) \subseteq FieldNames \cup {"symbol"}
         /\ FieldsCounted(it) \subseteq FieldNames
         /\ ~Missing(it) => \A f \in Assigned(it) \ {"cpu", "cs", "symbol"} :
                              \E g \in FieldsCounted(it) : endof_field(f) <= endof_field(g)
<1>1. it.n \in Nat /\ it.key \in DOMAIN Conversions
  BY DEF ItemRight, LineItems, IsKey
<1>2. CASE it.key = "mce"
  <2>1. Keyed(it, <<"cpu", "mcgstatus", "bank", "status">>)
    <3>1. <<"cpu", "mcgstatus", "bank", "status">> \in Seq({"cpu", "mcgstatus", "bank", "status"})
      OBVIOUS
    <3> QED BY <1>2, <3>1, Keywords, KeyedRight
  <2>2. FieldsCounted(it) = {f \in {"mcgstatus"} : it.n > 1} \cup {f \in {"bank"} : it.n > 2}
    BY <1>2 DEF FieldsCounted
  <2>3. Assigned(it) = Stored(it)
    BY <1>2 DEF Assigned
  <2>4. Missing(it) <=> it.n < 4
    BY <1>2, <2>1 DEF Missing, Keyed
  <2>5. \A f \in Assigned(it) : f \in {"cpu", "mcgstatus", "bank", "status"}
    BY <2>1, <2>3 DEF Keyed
  <2>6. it.n = 0 => Assigned(it) = {}
    BY <2>1, <2>3 DEF Keyed
  <2> QED BY <1>1, <2>2, <2>4, <2>5, <2>6, FieldPlaces
<1>3. CASE it.key = "cpu"
  <2>1. Keyed(it, <<"cpu", "bank">>)
    <3>1. <<"cpu", "bank">> \in Seq({"cpu", "bank"})
      OBVIOUS
    <3> QED BY <1>3, <3>1, Keywords, KeyedRight
  <2>2. FieldsCounted(it) = {f \in {"bank"} : it.n = 2}
    BY <1>3 DEF FieldsCounted
  <2>3. Assigned(it) = Stored(it)
    BY <1>3 DEF Assigned
  <2>4. (Missing(it) <=> it.n < 2) /\ it.n <= 2
    BY <1>3, <2>1 DEF Missing, Keyed
  <2>5. \A f \in Assigned(it) : f \in {"cpu", "bank"}
    BY <2>1, <2>3 DEF Keyed
  <2>6. it.n = 0 => Assigned(it) = {}
    BY <2>1, <2>3 DEF Keyed
  <2> QED BY <1>1, <2>2, <2>4, <2>5, <2>6, FieldPlaces
<1>4. CASE it.key = "rip"
  <2>1. Keyed(it, <<"cs", "ip", "symbol">>)
    <3>1. <<"cs", "ip", "symbol">> \in Seq({"cs", "ip", "symbol"})
      OBVIOUS
    <3> QED BY <1>4, <3>1, Keywords, KeyedRight
  <2>2. FieldsCounted(it) = {f \in {"ip"} : it.n >= 2}
    BY <1>4 DEF FieldsCounted
  <2>3. Assigned(it) = Stored(it)
    BY <1>4 DEF Assigned
  <2>4. Missing(it) <=> it.n < 2
    BY <1>4 DEF Missing
  <2>5. \A f \in Assigned(it) : f \in {"cs", "ip", "symbol"}
    BY <2>1, <2>3 DEF Keyed
  <2>6. it.n = 0 => Assigned(it) = {}
    BY <2>1, <2>3 DEF Keyed
  <2> QED BY <1>1, <2>2, <2>4, <2>5, <2>6, FieldPlaces
<1>5. CASE it.key \notin {"mce", "cpu", "rip"}
  <2>1. FieldsCounted(it) = {f \in Stored(it) : ~Missing(it)}
    BY <1>5 DEF FieldsCounted
  <2>2. Stored(it) \subseteq FieldNames /\ (it.n = 0 => Stored(it) = {})
    <3>1. CASE it.key = "processor"
      <4>1. Keyed(it, <<"cpuvendor", "cpuid">>)
        <5>1. <<"cpuvendor", "cpuid">> \in Seq({"cpuvendor", "cpuid"})
          OBVIOUS
        <5> QED BY <3>1, <5>1, Keywords, KeyedRight
      <4> QED BY <1>1, <4>1, FieldPlaces DEF Keyed
    <3>2. CASE it.key # "processor"
      <4>1. Conversions[it.key] = <<it.key>>
        BY <1>1, <1>5, <3>2, Keywords
      <4>2. it.key \in FieldNames
        BY <1>1, <1>5, <3>2, Keywords, FieldPlaces
      <4>3. Keyed(it, <<it.key>>)
        <5>1. <<it.key>> \in Seq({it.key})
          OBVIOUS
        <5> QED BY <4>1, <5>1, KeyedRight
      <4> QED BY <1>1, <4>2, <4>3 DEF Keyed
    <3> QED BY <3>1, <3>2
  <2>3. Assigned(it) \subseteq Stored(it)
    BY DEF Assigned
  <2>4. ASSUME ~Missing(it), NEW f \in Assigned(it) PROVE \E g \in FieldsCounted(it) : endof_field(f) <= endof_field(g)
    <3>1. f \in FieldsCounted(it) /\ f \in FieldNames
      BY <2>1, <2>2, <2>3, <2>4
    <3> QED BY <3>1, FieldPlaces
  <2> QED BY <2>1, <2>2, <2>3, <2>4
<1> QED BY <1>1, <1>2, <1>3, <1>4, <1>5

-----------------------------------------------------------------------------

DumpRecords == [m : [FieldNames -> Nat], missing : BOOLEAN, data : BOOLEAN,
                disclaimer_seen : BOOLEAN, recordlen : Nat, next : BOOLEAN]

\* A record is made of the keywords that were met in lines: the pairs of C.
\* Each field is from the last line that gives it.
MadeOf(r, C) ==
  /\ r \in DumpRecords
  /\ \A f \in FieldNames :
       /\ \A c \in C : f \in Assigned(c[2]) => c[1] <= r.m[f]
       /\ r.m[f] = 0 \/ \E c \in C : f \in Assigned(c[2]) /\ c[1] = r.m[f]
  /\ \A c \in C : Missing(c[2]) => r.missing
  /\ \A c \in C : ~Missing(c[2]) =>
       \A f \in Assigned(c[2]) \ {"cpu", "cs", "symbol"} : endof_field(f) <= r.recordlen
  /\ r.data <=> \E c \in C : c[2].n > 0

\* Lines up to u, keywords that fit their formats.
PairsUpTo(C, u) == \A c \in C : c[1] \in 1 .. u /\ ItemRight(c[2]) /\ IsKey(c[2])

LEMMA RestartMade == MadeOf(Restart, {})
<1>1. Restart \in DumpRecords /\ ~Restart.data /\ \A f \in FieldNames : Restart.m[f] = 0
  BY DEF Restart, DumpRecords, FieldNames
<1> QED BY <1>1 DEF MadeOf

\* A record without data is as good as a new one.
LEMMA EmptyMade ==
  ASSUME NEW C, NEW u \in Nat, PairsUpTo(C, u), NEW r, MadeOf(r, C), ~r.data
  PROVE  MadeOf(r, {})
<1>1. \A c \in C : Assigned(c[2]) = {}
  <2> TAKE c \in C
  <2>1. ItemRight(c[2]) /\ IsKey(c[2]) /\ ~(c[2].n > 0)
    BY DEF PairsUpTo, MadeOf
  <2>2. c[2].n = 0
    <3> DEFINE l == c[2].n
    <3>1. l \in Nat
      BY <2>1 DEF ItemRight, LineItems
    <3>2. ~(l > 0)
      BY <2>1
    <3> HIDE DEF l
    <3>3. l = 0
      BY <3>1, <3>2
    <3> QED BY <3>3 DEF l
  <2> QED BY <2>1, <2>2, ItemFacts
<1> QED BY <1>1 DEF MadeOf

\* The flags of the loop and of the disclaimer are none of the record's data.
Flagged(r, v, w) == [r EXCEPT !.disclaimer_seen = v, !.next = w]

LEMMA FlagsMade ==
  ASSUME NEW r \in DumpRecords, NEW v \in BOOLEAN, NEW w \in BOOLEAN
  PROVE  /\ Flagged(r, v, w) \in DumpRecords /\ Flagged(r, v, w).next = w
         /\ \A C : MadeOf(r, C) => MadeOf(Flagged(r, v, w), C)
         /\ [r EXCEPT !.next = w] = Flagged(r, r.disclaimer_seen, w) /\ r.disclaimer_seen \in BOOLEAN
<1>1. r \in [m : [FieldNames -> Nat], missing : BOOLEAN, data : BOOLEAN,
              disclaimer_seen : BOOLEAN, recordlen : Nat, next : BOOLEAN]
  BY DEF DumpRecords
<1> DEFINE s == Flagged(r, v, w)
<1>2. s \in DumpRecords /\ s.m = r.m /\ s.missing = r.missing /\ s.recordlen = r.recordlen /\ s.data = r.data /\ s.next = w
  BY <1>1 DEF DumpRecords, Flagged
<1>3. [r EXCEPT !.next = w] = Flagged(r, r.disclaimer_seen, w) /\ r.disclaimer_seen \in BOOLEAN
  BY <1>1 DEF Flagged
<1> HIDE DEF s
<1>4. ASSUME NEW C, MadeOf(r, C) PROVE MadeOf(s, C)
  BY <1>2, <1>4 DEF MadeOf
<1> QED BY <1>2, <1>3, <1>4 DEF s

\* What a keyword of line number at makes of a record.
LEMMA KeyTyped ==
  ASSUME NEW r \in DumpRecords, NEW at \in Nat, NEW it, ItemRight(it), IsKey(it)
  PROVE  /\ KeyTurn(r, it, at) \in DumpRecords
         /\ r.recordlen <= KeyTurn(r, it, at).recordlen
         /\ \A f \in FieldsCounted(it) : endof_field(f) \in Nat /\ endof_field(f) <= KeyTurn(r, it, at).recordlen
<1> DEFINE T == {r.recordlen} \cup {endof_field(f) : f \in FieldsCounted(it)}
           s == KeyTurn(r, it, at)
<1>1. r.recordlen \in Nat /\ r.m \in [FieldNames -> Nat] /\ r.missing \in BOOLEAN /\ r.data \in BOOLEAN /\ r.disclaimer_seen \in BOOLEAN
  BY DEF DumpRecords
<1>2. Max(T) \in T /\ (\A y \in T : y <= Max(T)) /\ T \subseteq Nat
  <2>1. \A f \in FieldsCounted(it) : endof_field(f) \in 1 .. 15
    BY ItemFacts, FieldPlaces
  <2>2. T \subseteq 0 .. (r.recordlen + 15) /\ T # {} /\ r.recordlen + 15 \in Nat
    BY <1>1, <2>1
  <2> DEFINE b == r.recordlen + 15
  <2>3. T \subseteq 0 .. b /\ T # {} /\ b \in Nat
    BY <2>2
  <2> HIDE DEF T, b
  <2>4. Max(T) \in T /\ \A y \in T : y <= Max(T)
    BY <2>3, GreatestNat
  <2> QED BY <2>3, <2>4
<1>3. r.recordlen \in T /\ \A f \in FieldsCounted(it) : endof_field(f) \in T
  OBVIOUS
<1>4. /\ s.m = [f \in FieldNames |-> IF f \in Assigned(it) THEN at ELSE r.m[f]]
      /\ s.missing = (r.missing \/ Missing(it)) /\ s.data = (r.data \/ it.n > 0)
      /\ s.disclaimer_seen = r.disclaimer_seen /\ s.recordlen = Max(T) /\ s.next = Continues(it)
  BY DEF KeyTurn, FieldNames
<1>5. s = [m |-> s.m, missing |-> s.missing, data |-> s.data, disclaimer_seen |-> s.disclaimer_seen,
           recordlen |-> s.recordlen, next |-> s.next]
  BY DEF KeyTurn, FieldNames
<1> HIDE DEF T, s
<1>6. s \in DumpRecords
  <2>1. s.m \in [FieldNames -> Nat] /\ s.recordlen \in Nat
    BY <1>1, <1>2, <1>4
  <2>2. s.missing \in BOOLEAN /\ s.data \in BOOLEAN /\ s.next \in BOOLEAN
    BY <1>4 DEF Continues
  <2>3. s.disclaimer_seen \in BOOLEAN
    BY <1>1, <1>4
  <2> QED BY <1>5, <2>1, <2>2, <2>3 DEF DumpRecords
<1> QED BY <1>2, <1>3, <1>4, <1>6 DEF s

LEMMA KeyMade ==
  ASSUME NEW C, NEW r, MadeOf(r, C), NEW u \in Nat, PairsUpTo(C, u), NEW at \in Nat, u <= at,
         NEW it, ItemRight(it), IsKey(it)
  PROVE  MadeOf(KeyTurn(r, it, at), C \cup {<<at, it>>})
<1> DEFINE D == C \cup {<<at, it>>}
           s == KeyTurn(r, it, at)
<1>1. r \in DumpRecords
  BY DEF MadeOf
<1>2. r.recordlen \in Nat /\ s.recordlen \in Nat
  BY <1>1, KeyTyped DEF DumpRecords
<1>3. /\ s.m = [f \in FieldNames |-> IF f \in Assigned(it) THEN at ELSE r.m[f]]
      /\ s.missing = (r.missing \/ Missing(it)) /\ s.data = (r.data \/ it.n > 0)
  BY DEF KeyTurn, FieldNames
<1>4. /\ s \in DumpRecords /\ r.recordlen <= s.recordlen
      /\ \A f \in FieldsCounted(it) : endof_field(f) \in Nat /\ endof_field(f) <= s.recordlen
  BY <1>1, KeyTyped
<1> HIDE DEF s
<1>5. \A c \in D : c \in C \/ c = <<at, it>>
  OBVIOUS
<1>6. \A c \in C : c[1] <= at /\ c[1] \in Nat
  BY DEF PairsUpTo
<1>7. <<at, it>>[1] = at /\ <<at, it>>[2] = it /\ <<at, it>> \in D /\ C \subseteq D
  OBVIOUS
<1> HIDE DEF D
<1>8. ASSUME NEW f \in FieldNames PROVE
         /\ \A c \in D : f \in Assigned(c[2]) => c[1] <= s.m[f]
         /\ s.m[f] = 0 \/ \E c \in D : f \in Assigned(c[2]) /\ c[1] = s.m[f]
  <2>1. /\ \A c \in C : f \in Assigned(c[2]) => c[1] <= r.m[f]
        /\ r.m[f] = 0 \/ \E c \in C : f \in Assigned(c[2]) /\ c[1] = r.m[f]
    BY DEF MadeOf
  <2>2. s.m[f] = IF f \in Assigned(it) THEN at ELSE r.m[f]
    BY <1>3
  <2>3. CASE f \in Assigned(it)
    BY <1>5, <1>6, <1>7, <2>2, <2>3
  <2>4. CASE f \notin Assigned(it)
    BY <1>5, <1>7, <2>1, <2>2, <2>4
  <2> QED BY <2>3, <2>4
<1>9. ASSUME NEW c \in D, Missing(c[2]) PROVE s.missing
  <2>1. CASE c \in C
    BY <1>3, <1>9, <2>1 DEF MadeOf
  <2>2. CASE c = <<at, it>>
    BY <1>3, <1>7, <1>9, <2>2
  <2> QED BY <1>5, <2>1, <2>2
<1>10. ASSUME NEW c \in D, ~Missing(c[2]), NEW f \in Assigned(c[2]) \ {"cpu", "cs", "symbol"}
       PROVE  endof_field(f) <= s.recordlen
  <2>1. CASE c \in C
    <3>1. endof_field(f) <= r.recordlen
      BY <1>10, <2>1 DEF MadeOf
    <3>2. r.recordlen <= s.recordlen
      BY <1>4
    <3>3. endof_field(f) \in Int
      <4>1. ItemRight(c[2]) /\ IsKey(c[2])
        BY <2>1 DEF PairsUpTo
      <4>2. f \in FieldNames
        BY <1>10, <4>1, ItemFacts
      <4> QED BY <4>2, FieldPlaces
    <3> QED BY <1>2, <3>1, <3>2, <3>3
  <2>2. CASE c = <<at, it>>
    <3>1. PICK g \in FieldsCounted(it) : endof_field(f) <= endof_field(g)
      BY <1>7, <1>10, <2>2, ItemFacts
    <3>2. endof_field(g) <= s.recordlen /\ endof_field(g) \in Nat
      BY <1>4
    <3>3. f \in FieldNames
      BY <1>7, <1>10, <2>2, ItemFacts
    <3>4. endof_field(f) \in Int
      BY <3>3, FieldPlaces
    <3> QED BY <1>2, <3>1, <3>2, <3>4
  <2> QED BY <1>5, <2>1, <2>2
<1>11. s.data <=> \E c \in D : c[2].n > 0
  <2>1. r.data <=> \E c \in C : c[2].n > 0
    BY DEF MadeOf
  <2> QED BY <1>3, <1>5, <1>7, <2>1
<1>12. MadeOf(s, D)
  BY <1>4, <1>8, <1>9, <1>10, <1>11 DEF MadeOf
<1> QED BY <1>12 DEF D, s

-----------------------------------------------------------------------------

ParserStates == [rec : DumpRecords, dumps : Seq(DumpRecords)]

\* One turn of the loop, case by case.
LEMMA TurnFacts ==
  ASSUME NEW st \in ParserStates, NEW it, ItemRight(it), NEW at \in Nat
  PROVE  /\ IsKey(it) => Parse(st, it, at) = [rec |-> KeyTurn(st.rec, it, at), dumps |-> st.dumps]
         /\ it.key = "text" /\ st.rec.data =>
              Parse(st, it, at) = [rec |-> Restart, dumps |-> Append(st.dumps, st.rec)]
         /\ ~IsKey(it) /\ ~(it.key = "text" /\ st.rec.data) =>
              \E v, w \in BOOLEAN : Parse(st, it, at) = [rec |-> Flagged(st.rec, v, w), dumps |-> st.dumps] /\ ~w
         /\ ~(IsKey(it) /\ it.key = "text")
<1>1. /\ st.rec \in DumpRecords /\ st.rec.disclaimer_seen \in BOOLEAN
      /\ \A x : [st EXCEPT !.rec = x] = [rec |-> x, dumps |-> st.dumps]
  BY DEF ParserStates, DumpRecords
<1>2. /\ [st EXCEPT !.rec = [@ EXCEPT !.disclaimer_seen = TRUE, !.next = FALSE]] =
           [rec |-> Flagged(st.rec, TRUE, FALSE), dumps |-> st.dumps]
      /\ [st EXCEPT !.rec.next = FALSE] =
           [rec |-> Flagged(st.rec, st.rec.disclaimer_seen, FALSE), dumps |-> st.dumps]
  <2>1. [st EXCEPT !.rec.next = FALSE] = [rec |-> [st.rec EXCEPT !.next = FALSE], dumps |-> st.dumps]
    BY <1>1
  <2>2. [st EXCEPT !.rec = [@ EXCEPT !.disclaimer_seen = TRUE, !.next = FALSE]] =
           [rec |-> Flagged(st.rec, TRUE, FALSE), dumps |-> st.dumps]
    BY <1>1, Zenon DEF Flagged
  <2>3. \A w \in BOOLEAN : [st.rec EXCEPT !.next = w] = Flagged(st.rec, st.rec.disclaimer_seen, w)
    BY <1>1, FlagsMade
  <2>4. [st.rec EXCEPT !.next = FALSE] = Flagged(st.rec, st.rec.disclaimer_seen, FALSE)
    BY <2>3, Zenon
  <2> QED BY <2>1, <2>2, <2>4, Zenon
<1>3. IsKey(it) <=> it.key \notin {"text", "HARDWARE ERROR"}
  BY Keywords DEF ItemRight, LineItems, IsKey
<1> DEFINE K == KeyTurn(st.rec, it, at)
           k == IsKey(it)
           one == [rec |-> K, dumps |-> st.dumps]
           two == [st EXCEPT !.rec = [@ EXCEPT !.disclaimer_seen = TRUE, !.next = FALSE]]
           three == [rec |-> Begun(st.rec), dumps |-> dump_mce_final(st.dumps, st.rec)]
           four == [st EXCEPT !.rec.next = FALSE]
<1>4. Parse(st, it, at) = CASE k -> one
                            [] it.key = "HARDWARE ERROR" -> two
                            [] it.key = "text" /\ st.rec.data -> three
                            [] OTHER -> four
  BY Zenon DEF Parse
<1>5. three = [rec |-> Restart, dumps |-> Append(st.dumps, st.rec)]
  BY DEF Begun, dump_mce_final
<1>6. two = [rec |-> Flagged(st.rec, TRUE, FALSE), dumps |-> st.dumps]
      /\ four = [rec |-> Flagged(st.rec, st.rec.disclaimer_seen, FALSE), dumps |-> st.dumps]
  BY <1>2
<1>7. k <=> it.key \notin {"text", "HARDWARE ERROR"}
  BY <1>3
<1> HIDE DEF K, k, one, two, three, four
<1>8. /\ k => Parse(st, it, at) = one
      /\ it.key = "text" /\ st.rec.data => Parse(st, it, at) = three
      /\ ~k /\ ~(it.key = "text" /\ st.rec.data) => Parse(st, it, at) = two \/ Parse(st, it, at) = four
  BY <1>4, <1>7
<1>9. ~k /\ ~(it.key = "text" /\ st.rec.data) =>
        \E v, w \in BOOLEAN : Parse(st, it, at) = [rec |-> Flagged(st.rec, v, w), dumps |-> st.dumps] /\ ~w
  BY <1>1, <1>6, <1>8, Zenon
<1>10. ~(k /\ it.key = "text")
  BY <1>7
<1>11. it.key = "text" /\ st.rec.data => Parse(st, it, at) = [rec |-> Restart, dumps |-> Append(st.dumps, st.rec)]
  BY <1>5, <1>8
<1>12. k => Parse(st, it, at) = [rec |-> KeyTurn(st.rec, it, at), dumps |-> st.dumps]
  BY <1>8 DEF one, K
<1> QED BY <1>9, <1>10, <1>11, <1>12 DEF k

Open(line, j) == \A i \in 1 .. j : IsKey(line[i]) /\ Continues(line[i])
KeysTo(line, at, j) == {<<at, line[i]>> : i \in {i \in 1 .. j : Open(line, i - 1) /\ IsKey(line[i])}}
TextTo(line, j) == \E i \in 1 .. j : Open(line, i - 1) /\ line[i].key = "text"

\* What has become of a record of C after j turns in line number at.
LineDone(st, line, at, C, j, x) ==
  /\ x.rec.next <=> Open(line, j)
  /\ ~TextTo(line, j) => x.dumps = st.dumps /\ MadeOf(x.rec, C \cup KeysTo(line, at, j))
  /\ TextTo(line, j) =>
       /\ MadeOf(x.rec, {})
       /\ \E r : /\ MadeOf(r, C \cup KeysTo(line, at, j))
                 /\ x.dumps = IF r.data THEN Append(st.dumps, r) ELSE st.dumps

LEMMA MoreOpen ==
  ASSUME NEW line, NEW j \in Nat \ {0}, NEW at
  PROVE  /\ Open(line, j) <=> Open(line, j - 1) /\ IsKey(line[j]) /\ Continues(line[j])
         /\ TextTo(line, j) <=> TextTo(line, j - 1) \/ (Open(line, j - 1) /\ line[j].key = "text")
         /\ ~(Open(line, j - 1) /\ IsKey(line[j])) => KeysTo(line, at, j) = KeysTo(line, at, j - 1)
         /\ Open(line, j - 1) /\ IsKey(line[j]) =>
              KeysTo(line, at, j) = KeysTo(line, at, j - 1) \cup {<<at, line[j]>>}
<1>1. \A i : i \in 1 .. j <=> i \in 1 .. (j - 1) \/ i = j
  OBVIOUS
<1>2. Open(line, j) <=> Open(line, j - 1) /\ IsKey(line[j]) /\ Continues(line[j])
  BY <1>1 DEF Open
<1>3. TextTo(line, j) <=> TextTo(line, j - 1) \/ (Open(line, j - 1) /\ line[j].key = "text")
  BY <1>1 DEF TextTo
<1> DEFINE R(k) == {i \in 1 .. k : Open(line, i - 1) /\ IsKey(line[i])}
<1>4. R(j) = R(j - 1) \cup {i \in {j} : Open(line, i - 1) /\ IsKey(line[i])}
  BY <1>1
<1>5. \A k : KeysTo(line, at, k) = {<<at, line[i]>> : i \in R(k)}
  BY DEF KeysTo
<1>6. ~(Open(line, j - 1) /\ IsKey(line[j])) => R(j) = R(j - 1)
  BY <1>4
<1>7. Open(line, j - 1) /\ IsKey(line[j]) => R(j) = R(j - 1) \cup {j}
  BY <1>4
<1> HIDE DEF R
<1>8. Open(line, j - 1) /\ IsKey(line[j]) =>
              KeysTo(line, at, j) = KeysTo(line, at, j - 1) \cup {<<at, line[j]>>}
  BY <1>5, <1>7
<1>9. ~(Open(line, j - 1) /\ IsKey(line[j])) => KeysTo(line, at, j) = KeysTo(line, at, j - 1)
  BY <1>5, <1>6
<1> QED BY <1>2, <1>3, <1>8, <1>9

\* The loop over the items of a line, by induction.
LEMMA LineParsed ==
  ASSUME NEW line, Len(line) \in Nat, \A j \in 1 .. Len(line) : ItemRight(line[j]),
         NEW C, NEW u \in Nat, PairsUpTo(C, u), NEW at \in Nat \ {0}, u < at,
         NEW st \in ParserStates, MadeOf(st.rec, C)
  PROVE  /\ Parsed(st, line, at) \in ParserStates
         /\ LineDone(st, line, at, C, Len(line), Parsed(st, line, at))
<1> DEFINE L == Len(line)
           S == ParserStates
           base == [st EXCEPT !.rec.next = TRUE]
           turn(x, j) == IF x.rec.next THEN Parse(x, line[j], at) ELSE x
           f == CHOOSE f : f = [j \in 0 .. L |-> IF j = 0 THEN base ELSE turn(f[j - 1], j)]
           step == [j \in 1 .. L |-> [x \in S |-> turn(x, j)]]
<1>1. Parsed(st, line, at) = f[L]
  BY DEF Parsed
<1>2. base \in S /\ base.dumps = st.dumps /\ base.rec.next /\ MadeOf(base.rec, C)
  <2> DEFINE r == Flagged(st.rec, st.rec.disclaimer_seen, TRUE)
  <2>1. /\ \A x : [st EXCEPT !.rec = x] = [rec |-> x, dumps |-> st.dumps]
        /\ st.rec.disclaimer_seen \in BOOLEAN /\ st.rec \in DumpRecords
    BY DEF ParserStates, DumpRecords
  <2>2. base = [rec |-> r, dumps |-> st.dumps]
    <3>1. \A w \in BOOLEAN : [st.rec EXCEPT !.next = w] = Flagged(st.rec, st.rec.disclaimer_seen, w)
      BY <2>1, FlagsMade
    <3>2. [st.rec EXCEPT !.next = TRUE] = r
      BY <3>1, Zenon
    <3>3. base = [rec |-> [st.rec EXCEPT !.next = TRUE], dumps |-> st.dumps]
      BY <2>1
    <3> QED BY <3>2, <3>3, Zenon
  <2>3. r \in DumpRecords /\ r.next = TRUE /\ MadeOf(r, C)
    BY <2>1, FlagsMade, Zenon
  <2> HIDE DEF r, base
  <2> QED BY <2>2, <2>3 DEF ParserStates
<1>3. ASSUME NEW j \in 1 .. L, NEW x \in S PROVE turn(x, j) \in S
  <2>1. ItemRight(line[j]) /\ x.rec \in DumpRecords /\ x.dumps \in Seq(DumpRecords)
    BY DEF ParserStates
  <2> DEFINE it == line[j]
  <2> HIDE DEF it
  <2>2. ItemRight(it)
    BY <2>1 DEF it
  <2>3. Parse(x, it, at) \in S
    <3>1. CASE IsKey(it)
      <4>1. Parse(x, it, at) = [rec |-> KeyTurn(x.rec, it, at), dumps |-> x.dumps]
        BY <2>2, <3>1, TurnFacts
      <4>2. KeyTurn(x.rec, it, at) \in DumpRecords
        BY <2>1, <2>2, <3>1, KeyTyped
      <4> QED BY <2>1, <4>1, <4>2 DEF ParserStates
    <3>2. CASE it.key = "text" /\ x.rec.data
      <4>1. Parse(x, it, at) = [rec |-> Restart, dumps |-> Append(x.dumps, x.rec)]
        BY <2>2, <3>2, TurnFacts
      <4>2. Restart \in DumpRecords /\ Append(x.dumps, x.rec) \in Seq(DumpRecords)
        BY <2>1, RestartMade, AppendProperties DEF MadeOf
      <4> QED BY <4>1, <4>2 DEF ParserStates
    <3>3. CASE ~IsKey(it) /\ ~(it.key = "text" /\ x.rec.data)
      <4>1. PICK v, w \in BOOLEAN : Parse(x, it, at) = [rec |-> Flagged(x.rec, v, w), dumps |-> x.dumps]
        BY <2>2, <3>3, TurnFacts
      <4>2. Flagged(x.rec, v, w) \in DumpRecords
        BY <2>1, FlagsMade
      <4> QED BY <2>1, <4>1, <4>2 DEF ParserStates
    <3> QED BY <3>1, <3>2, <3>3
  <2> QED BY <2>3 DEF it
<1> HIDE DEF base
<1>4. step \in Steps(S, L) /\ \A j \in 1 .. L, x \in S : step[j][x] = turn(x, j)
  <2> HIDE DEF S, L, turn
  <2> QED BY <1>3 DEF Steps
<1> HIDE DEF step, S, turn
<1>5. PICK g : Looped(g, S, L, base, step)
  <2>1. \E g : Looped(g, S, L, base, step)
    BY <1>2, <1>4, Recursion
  <2> QED BY <2>1
<1>6. ASSUME NEW j \in 1 .. L PROVE g[j] = turn(g[j - 1], j)
  <2>1. j - 1 \in 0 .. L /\ g[j - 1] \in S
    BY <1>5 DEF Looped
  <2> QED BY <1>4, <1>5, <2>1 DEF Looped
<1>7. g = [j \in 0 .. L |-> IF j = 0 THEN base ELSE turn(g[j - 1], j)]
  <2>1. ASSUME NEW j \in 0 .. L PROVE g[j] = IF j = 0 THEN base ELSE turn(g[j - 1], j)
    <3>1. j = 0 \/ j \in 1 .. L
      OBVIOUS
    <3> QED BY <1>5, <1>6, <3>1 DEF Looped
  <2> QED BY <1>5, <2>1 DEF Looped
<1>8. f = [j \in 0 .. L |-> IF j = 0 THEN base ELSE turn(f[j - 1], j)]
  BY <1>7
<1> HIDE DEF f, L
<1>9. f[0] = base /\ \A j \in 1 .. L : f[j] = turn(f[j - 1], j)
  BY <1>8 DEF L
<1> DEFINE P == {j \in 0 .. L : f[j] \in S /\ LineDone(st, line, at, C, j, f[j])}
<1>10. 0 \in P
  <2>1. Open(line, 0) /\ ~TextTo(line, 0) /\ C \cup KeysTo(line, at, 0) = C
    BY DEF Open, TextTo, KeysTo
  <2>2. LineDone(st, line, at, C, 0, base)
    BY <1>2, <2>1 DEF LineDone
  <2> QED BY <1>2, <1>9, <2>2 DEF L
<1>11. ASSUME NEW j \in 1 .. L, j - 1 \in P PROVE j \in P
  <2> DEFINE x == f[j - 1]
             y == f[j]
             it == line[j]
             K == C \cup KeysTo(line, at, j - 1)
  <2>1. x \in S /\ LineDone(st, line, at, C, j - 1, x) /\ y = turn(x, j) /\ ItemRight(it) /\ j \in Nat \ {0}
    BY <1>9, <1>11 DEF L
  <2>2. y \in S
    BY <1>3, <2>1
  <2>3. /\ x.rec.next <=> Open(line, j - 1)
        /\ ~TextTo(line, j - 1) => x.dumps = st.dumps /\ MadeOf(x.rec, K)
    BY <2>1 DEF LineDone
  <2>4. CASE ~x.rec.next
    <3>1. y = x
      BY <2>1, <2>4 DEF turn
    <3>2. ~Open(line, j - 1)
      BY <2>3, <2>4
    <3>3. (Open(line, j) <=> Open(line, j - 1)) /\ (TextTo(line, j) <=> TextTo(line, j - 1)) /\ KeysTo(line, at, j) = KeysTo(line, at, j - 1)
      BY <2>1, <3>2, MoreOpen
    <3>4. LineDone(st, line, at, C, j, x)
      BY <2>1, <3>3 DEF LineDone
    <3> QED BY <2>2, <3>1, <3>4
  <2>5. CASE x.rec.next
    <3>1. Open(line, j - 1) /\ y = Parse(x, it, at) /\ x \in ParserStates
      BY <2>1, <2>3, <2>5 DEF turn, S
    <3>2. ~TextTo(line, j - 1)
      <4>1. ASSUME NEW i \in 1 .. (j - 1) PROVE line[i].key # "text"
        <5>1. IsKey(line[i])
          BY <3>1 DEF Open
        <5>2. ItemRight(line[i])
          BY <2>1 DEF L
        <5> QED BY <2>1, <5>1, <5>2, <3>1, TurnFacts
      <4> QED BY <4>1 DEF TextTo
    <3>3. x.dumps = st.dumps /\ MadeOf(x.rec, K)
      BY <2>3, <3>2
    <3>4. PairsUpTo(K, at)
      <4>1. ASSUME NEW c \in KeysTo(line, at, j - 1) PROVE c[1] = at /\ ItemRight(c[2]) /\ IsKey(c[2])
        <5>1. PICK i \in 1 .. (j - 1) : c = <<at, line[i]>> /\ IsKey(line[i])
          BY DEF KeysTo
        <5>2. ItemRight(line[i])
          BY <2>1 DEF L
        <5> QED BY <5>1, <5>2
      <4>2. \A c \in C : c[1] \in 1 .. u /\ ItemRight(c[2]) /\ IsKey(c[2])
        BY DEF PairsUpTo
      <4>3. at \in 1 .. at /\ \A v \in 1 .. u : v \in 1 .. at
        OBVIOUS
      <4> QED BY <4>1, <4>2, <4>3 DEF PairsUpTo
    <3>5. ItemRight(it) /\ at \in Nat /\ at <= at /\ y = Parse(x, it, at) /\ x \in ParserStates /\ x.dumps = st.dumps
      BY <2>1, <3>1, <3>3
    <3>6. LineDone(st, line, at, C, j, y) => j \in P
      BY <2>2
    <3> HIDE DEF it, K, x, y, P
    <3>7. CASE IsKey(it)
      <4>1. Parse(x, it, at) = [rec |-> KeyTurn(x.rec, it, at), dumps |-> x.dumps] /\ it.key # "text"
        BY <2>1, <3>1, <3>7, TurnFacts
      <4>2. MadeOf(KeyTurn(x.rec, it, at), K \cup {<<at, it>>})
        BY <3>3, <3>4, <3>5, <3>7, KeyMade
      <4>3. MadeOf(y.rec, K \cup {<<at, it>>}) /\ y.rec.next = Continues(it) /\ y.dumps = st.dumps
        BY <3>1, <3>3, <4>1, <4>2 DEF KeyTurn
      <4>4. ~TextTo(line, j) /\ (Open(line, j) <=> Continues(it)) /\ C \cup KeysTo(line, at, j) = K \cup {<<at, it>>}
        <5>1. KeysTo(line, at, j) = KeysTo(line, at, j - 1) \cup {<<at, it>>}
          BY <2>1, <3>1, <3>7, MoreOpen DEF it
        <5>2. (Open(line, j) <=> Continues(it)) /\ ~TextTo(line, j)
          BY <2>1, <3>1, <3>2, <3>7, <4>1, MoreOpen DEF it
        <5> QED BY <5>1, <5>2 DEF K
      <4>5. LineDone(st, line, at, C, j, y)
        BY <4>3, <4>4 DEF LineDone
      <4> QED BY <3>6, <4>5
    <3>8. CASE ~IsKey(it)
      <4>1. ~Open(line, j) /\ C \cup KeysTo(line, at, j) = K /\ (TextTo(line, j) <=> it.key = "text")
        <5>1. KeysTo(line, at, j) = KeysTo(line, at, j - 1)
          BY <2>1, <3>8, MoreOpen DEF it
        <5>2. ~Open(line, j) /\ (TextTo(line, j) <=> it.key = "text")
          BY <2>1, <3>1, <3>2, <3>8, MoreOpen DEF it
        <5> QED BY <5>1, <5>2 DEF K
      <4>2. CASE it.key = "text" /\ x.rec.data
        <5>1. Parse(x, it, at) = [rec |-> Restart, dumps |-> Append(x.dumps, x.rec)]
          BY <2>1, <3>1, <4>2, TurnFacts
        <5>2. y.rec = Restart /\ y.dumps = Append(st.dumps, x.rec) /\ ~y.rec.next
          BY <3>1, <3>3, <5>1 DEF Restart
        <5>3. LineDone(st, line, at, C, j, y)
          BY <3>3, <4>1, <4>2, <5>2, RestartMade DEF LineDone
        <5> QED BY <3>6, <5>3
      <4>3. CASE ~(it.key = "text" /\ x.rec.data)
        <5>1. PICK v, w \in BOOLEAN : Parse(x, it, at) = [rec |-> Flagged(x.rec, v, w), dumps |-> x.dumps] /\ ~w
          BY <3>5, <3>8, <4>3, TurnFacts
        <5>2. x.rec \in DumpRecords
          BY <3>3 DEF MadeOf
        <5>3. y.rec.next = w /\ y.dumps = st.dumps /\ \A D : MadeOf(x.rec, D) => MadeOf(y.rec, D)
          <6>1. y.rec = Flagged(x.rec, v, w) /\ y.dumps = x.dumps
            BY <3>5, <5>1
          <6>2. /\ Flagged(x.rec, v, w).next = w
                /\ \A D : MadeOf(x.rec, D) => MadeOf(Flagged(x.rec, v, w), D)
            BY <5>2, FlagsMade
          <6> QED BY <3>5, <6>1, <6>2
        <5>4. CASE it.key = "text"
          <6>1. MadeOf(x.rec, {})
            BY <3>3, <3>4, <4>3, <5>4, EmptyMade
          <6>2. LineDone(st, line, at, C, j, y)
            BY <3>3, <4>1, <4>3, <5>1, <5>3, <5>4, <6>1 DEF LineDone
          <6> QED BY <3>6, <6>2
        <5>5. CASE it.key # "text"
          <6>1. LineDone(st, line, at, C, j, y)
            BY <3>3, <4>1, <5>1, <5>3, <5>5 DEF LineDone
          <6> QED BY <3>6, <6>1
        <5> QED BY <5>4, <5>5
      <4> QED BY <4>2, <4>3
    <3> QED BY <3>7, <3>8
  <2> QED BY <2>4, <2>5
<1>12. L \in P
  <2> HIDE DEF P
  <2>1. \A j \in 0 .. L : j \in P
    BY <1>10, <1>11, UpTo DEF L
  <2> QED BY <2>1 DEF L
<1> QED BY <1>1, <1>12 DEF L, S

-----------------------------------------------------------------------------
(* The lines of the log *)

LineKeys(line) == {line[i] : i \in {i \in Reached(line) : IsKey(line[i])}}
LineText(line) == \E i \in Reached(line) : line[i].key = "text"

\* Line k and the ones before it up to a text; those behind the last text.
Since(l, k) == {j \in 1 .. k : \A e \in 1 .. (k - 1) : LineText(l[e]) => e < j}
Current(l) == {j \in 1 .. Len(l) : \A e \in 1 .. Len(l) : LineText(l[e]) => e < j}

PairsIn(l, s) == UNION {{<<j, it>> : it \in LineKeys(l[j])} : j \in s}
Given(l, s, c) == \E j \in s : \E it \in LineKeys(l[j]) : c = <<j, it>>
OfUse(l, s) == \E j \in s : \E it \in LineKeys(l[j]) : it.n > 0
EndsOf(l, all) == {k \in 1 .. Len(l) : (LineText(l[k]) \/ (all /\ k = Len(l))) /\ OfUse(l, Since(l, k))}

\* The records d are those of the ends E, in the order of the log.
Numbered(d, l, E) ==
  \E ends \in [1 .. Len(d) -> E] :
    /\ \A i, j \in 1 .. Len(d) : i < j => ends[i] < ends[j]
    /\ \A k \in E : \E j \in 1 .. Len(d) : ends[j] = k
    /\ \A j \in 1 .. Len(d) : MadeOf(d[j], PairsIn(l, Since(l, ends[j])))

\* The record that is being put together is that of the lines behind the last
\* text, the records decoded are those of the texts.
FIInv ==
  /\ log \in Seq(LogLines) /\ eof \in BOOLEAN /\ rec \in DumpRecords /\ dumps \in Seq(DumpRecords)
  /\ ~eof => MadeOf(rec, PairsIn(log, Current(log)))
  /\ Numbered(dumps, log, EndsOf(log, eof))

\* A line, seen from the loop.
LEMMA LineView ==
  ASSUME NEW line \in LogLines, NEW at
  PROVE  /\ Len(line) \in Nat /\ \A j \in 1 .. Len(line) : ItemRight(line[j])
         /\ TextTo(line, Len(line)) <=> LineText(line)
         /\ KeysTo(line, at, Len(line)) = {<<at, it>> : it \in LineKeys(line)}
         /\ \A it \in LineKeys(line) : ItemRight(it) /\ IsKey(it)
<1>1. /\ line \in Seq(LineItems)
      /\ \A j \in 1 .. Len(line) : IsKey(line[j]) => line[j].n <= Len(Conversions[line[j].key])
  BY LinesAssumption DEF LineItems
<1>2. Len(line) \in Nat /\ DOMAIN line = 1 .. Len(line) /\ \A j \in 1 .. Len(line) : line[j] \in LineItems
  BY <1>1, LenProperties, ElementOfSeq
<1>3. \A j \in 1 .. Len(line) : ItemRight(line[j])
  BY <1>1, <1>2 DEF ItemRight
<1>4. Reached(line) = {i \in 1 .. Len(line) : Open(line, i - 1)}
  BY <1>2 DEF Reached, Open
<1>5. TextTo(line, Len(line)) <=> LineText(line)
  BY <1>4 DEF TextTo, LineText
<1>6. KeysTo(line, at, Len(line)) = {<<at, it>> : it \in LineKeys(line)}
  <2>1. ASSUME NEW c \in KeysTo(line, at, Len(line)) PROVE c \in {<<at, it>> : it \in LineKeys(line)}
    <3>1. PICK i \in 1 .. Len(line) : c = <<at, line[i]>> /\ Open(line, i - 1) /\ IsKey(line[i])
      BY <2>1 DEF KeysTo
    <3>2. line[i] \in LineKeys(line)
      BY <1>4, <3>1 DEF LineKeys
    <3> QED BY <3>1, <3>2
  <2>2. ASSUME NEW it \in LineKeys(line) PROVE <<at, it>> \in KeysTo(line, at, Len(line))
    <3>1. PICK i \in 1 .. Len(line) : it = line[i] /\ Open(line, i - 1) /\ IsKey(line[i])
      BY <1>4, <2>2 DEF LineKeys
    <3> QED BY <3>1 DEF KeysTo
  <2> QED BY <2>1, <2>2
<1>7. \A it \in LineKeys(line) : ItemRight(it) /\ IsKey(it)
  BY <1>3, <1>4 DEF LineKeys
<1> QED BY <1>2, <1>3, <1>5, <1>6, <1>7

LEMMA PairsFacts ==
  ASSUME NEW l \in Seq(LogLines), NEW s, NEW u \in 0 .. Len(l), s \subseteq 1 .. u
  PROVE  /\ \A c : c \in PairsIn(l, s) <=> Given(l, s, c)
         /\ PairsUpTo(PairsIn(l, s), u)
         /\ OfUse(l, s) <=> \E c \in PairsIn(l, s) : c[2].n > 0
<1>1. \A c : c \in PairsIn(l, s) <=> Given(l, s, c)
  BY DEF PairsIn, Given
<1>2. Len(l) \in Nat /\ \A j \in 1 .. Len(l) : l[j] \in LogLines
  BY LenProperties, ElementOfSeq
<1>3. ASSUME NEW c \in PairsIn(l, s) PROVE c[1] \in 1 .. u /\ ItemRight(c[2]) /\ IsKey(c[2])
  <2>1. PICK j \in s : \E it \in LineKeys(l[j]) : c = <<j, it>>
    BY <1>1 DEF Given
  <2>2. PICK it \in LineKeys(l[j]) : c = <<j, it>>
    BY <2>1
  <2>3. j \in 1 .. Len(l) /\ j \in 1 .. u
    BY <1>2
  <2>4. ItemRight(it) /\ IsKey(it)
    BY <1>2, <2>3, LineView
  <2> QED BY <2>2, <2>3, <2>4
<1>4. OfUse(l, s) <=> \E c \in PairsIn(l, s) : c[2].n > 0
  <2>1. ASSUME OfUse(l, s) PROVE \E c \in PairsIn(l, s) : c[2].n > 0
    <3>1. PICK j \in s : \E it \in LineKeys(l[j]) : it.n > 0
      BY <2>1 DEF OfUse
    <3>2. PICK it \in LineKeys(l[j]) : it.n > 0
      BY <3>1
    <3>3. <<j, it>> \in PairsIn(l, s) /\ <<j, it>>[2].n > 0
      BY <1>1, <3>2 DEF Given
    <3> QED BY <3>3
  <2>2. ASSUME NEW c \in PairsIn(l, s), c[2].n > 0 PROVE OfUse(l, s)
    <3>1. PICK j \in s : \E it \in LineKeys(l[j]) : c = <<j, it>>
      BY <1>1 DEF Given
    <3>2. PICK it \in LineKeys(l[j]) : c = <<j, it>>
      BY <3>1
    <3>3. it.n > 0
      BY <2>2, <3>2
    <3> QED BY <3>3 DEF OfUse
  <2> QED BY <2>1, <2>2
<1> QED BY <1>1, <1>3, <1>4 DEF PairsUpTo

\* What a line more changes.
Lengthened(l, line, m, at) ==
  /\ m \in Seq(LogLines) /\ at \in Nat \ {0} /\ Len(l) \in Nat /\ Len(m) = at /\ m[at] = line
  /\ \A j \in 1 .. Len(l) : m[j] = l[j]
  /\ \A k \in 1 .. Len(l) : Since(m, k) = Since(l, k)
  /\ Since(m, at) = Current(l) \cup {at}
  /\ Current(m) = IF LineText(line) THEN {} ELSE Current(l) \cup {at}
  /\ \A s \in SUBSET (1 .. Len(l)) : PairsIn(m, s) = PairsIn(l, s) /\ (OfUse(m, s) <=> OfUse(l, s))
  /\ PairsIn(m, Current(l) \cup {at}) = PairsIn(l, Current(l)) \cup KeysTo(line, at, Len(line))

LEMMA LineAppended ==
  ASSUME NEW l \in Seq(LogLines), NEW line \in LogLines, NEW m, m = Append(l, line), NEW at, at = Len(l) + 1
  PROVE  Lengthened(l, line, m, at)
<1>1. Len(l) \in Nat /\ at \in Nat \ {0}
  BY LenProperties
<1>2. m \in Seq(LogLines) /\ Len(m) = at /\ m[at] = line /\ \A j \in 1 .. Len(l) : m[j] = l[j]
  BY <1>1, AppendProperties
<1>3. \A j : j \in 1 .. at <=> j \in 1 .. Len(l) \/ j = at
  BY <1>1
<1>4. ASSUME NEW k \in 1 .. Len(l) PROVE Since(m, k) = Since(l, k)
  <2>1. \A e \in 1 .. (k - 1) : e \in 1 .. Len(l)
    BY <1>1
  <2> QED BY <1>2, <2>1 DEF Since
<1>5. Since(m, at) = Current(l) \cup {at}
  <2>1. at - 1 = Len(l) /\ \A e \in 1 .. Len(l) : e < at
    BY <1>1
  <2>2. ASSUME NEW j PROVE j \in Since(m, at) <=> j \in 1 .. at /\ \A e \in 1 .. Len(l) : LineText(l[e]) => e < j
    BY <1>2, <2>1 DEF Since
  <2> QED BY <1>3, <2>1, <2>2 DEF Current
<1>6. Current(m) = IF LineText(line) THEN {} ELSE Current(l) \cup {at}
  <2>1. ASSUME NEW j
        PROVE  j \in Current(m) <=>
                 j \in 1 .. at /\ (\A e \in 1 .. Len(l) : LineText(l[e]) => e < j) /\ (LineText(line) => at < j)
    <3>1. j \in Current(m) <=> j \in 1 .. at /\ \A e \in 1 .. at : LineText(m[e]) => e < j
      BY <1>2 DEF Current
    <3>2. (\A e \in 1 .. at : LineText(m[e]) => e < j) <=>
            (\A e \in 1 .. Len(l) : LineText(l[e]) => e < j) /\ (LineText(line) => at < j)
      <4>1. at \in 1 .. at
        BY <1>1
      <4> QED BY <1>2, <1>3, <4>1
    <3> QED BY <3>1, <3>2
  <2>2. \A e \in 1 .. at : e <= at /\ ~(at < e)
    BY <1>1
  <2>3. \A e \in 1 .. Len(l) : e < at
    BY <1>1
  <2>4. CASE LineText(line)
    <3>1. ASSUME NEW j \in Current(m) PROVE FALSE
      <4>1. j \in 1 .. at /\ at < j
        BY <2>1, <2>4
      <4> QED BY <2>2, <4>1
    <3> QED BY <2>4, <3>1
  <2>5. CASE ~LineText(line)
    BY <1>3, <2>1, <2>3, <2>5 DEF Current
  <2> QED BY <2>4, <2>5
<1>7. ASSUME NEW s \in SUBSET (1 .. Len(l)) PROVE PairsIn(m, s) = PairsIn(l, s) /\ (OfUse(m, s) <=> OfUse(l, s))
  <2>1. \A j \in s : m[j] = l[j]
    BY <1>2
  <2> QED BY <2>1 DEF PairsIn, OfUse
<1>8. PairsIn(m, Current(l) \cup {at}) = PairsIn(l, Current(l)) \cup KeysTo(line, at, Len(line))
  <2>1. Current(l) \subseteq 1 .. Len(l)
    BY DEF Current
  <2>2. PairsIn(m, Current(l)) = PairsIn(l, Current(l))
    BY <1>7, <2>1
  <2>3. ASSUME NEW s, s \subseteq 1 .. at PROVE \A c : c \in PairsIn(m, s) <=> Given(m, s, c)
    <3>1. at \in 0 .. Len(m) /\ m \in Seq(LogLines)
      BY <1>1, <1>2
    <3> QED BY <2>3, <3>1, PairsFacts
  <2>4. ASSUME NEW c PROVE c \in KeysTo(line, at, Len(line)) <=> \E it \in LineKeys(line) : c = <<at, it>>
    <3>1. KeysTo(line, at, Len(line)) = {<<at, it>> : it \in LineKeys(line)}
      BY LineView
    <3> QED BY <3>1
  <2>5. ASSUME NEW c
        PROVE  c \in PairsIn(m, Current(l) \cup {at}) <=>
                 c \in PairsIn(m, Current(l)) \/ c \in KeysTo(line, at, Len(line))
    <3>1. Current(l) \subseteq 1 .. at /\ Current(l) \cup {at} \subseteq 1 .. at
      BY <1>3, <2>1
    <3>2. Given(m, Current(l) \cup {at}, c) <=> Given(m, Current(l), c) \/ \E it \in LineKeys(m[at]) : c = <<at, it>>
      BY DEF Given
    <3>3. c \in PairsIn(m, Current(l)) <=> Given(m, Current(l), c)
      BY <2>3, <3>1
    <3>4. c \in PairsIn(m, Current(l) \cup {at}) <=> Given(m, Current(l) \cup {at}, c)
      BY <2>3, <3>1
    <3> QED BY <1>2, <2>4, <3>2, <3>3, <3>4
  <2> QED BY <2>2, <2>5
<1> QED BY <1>1, <1>2, <1>4, <1>5, <1>6, <1>7, <1>8 DEF Lengthened

\* One record more, at the end.
LEMMA NumberedMore ==
  ASSUME NEW d \in Seq(DumpRecords), NEW l, NEW E, Numbered(d, l, E), NEW k \in Nat, E \subseteq Nat,
         \A e \in E : e < k, NEW r \in DumpRecords, MadeOf(r, PairsIn(l, Since(l, k)))
  PROVE  Numbered(Append(d, r), l, E \cup {k})
<1> DEFINE n == Len(d)
           c == Append(d, r)
<1>1. n \in Nat /\ Len(c) = n + 1 /\ c[n + 1] = r /\ \A j \in 1 .. n : c[j] = d[j]
  BY LenProperties, AppendProperties
<1>2. PICK ends \in [1 .. n -> E] :
        /\ \A i, j \in 1 .. n : i < j => ends[i] < ends[j]
        /\ \A e \in E : \E j \in 1 .. n : ends[j] = e
        /\ \A j \in 1 .. n : MadeOf(d[j], PairsIn(l, Since(l, ends[j])))
  BY DEF Numbered
<1> DEFINE new == [j \in 1 .. (n + 1) |-> IF j = n + 1 THEN k ELSE ends[j]]
<1> HIDE DEF n, c
<1>3. \A j : j \in 1 .. (n + 1) <=> j \in 1 .. n \/ j = n + 1
  BY <1>1
<1>4. (\A j \in 1 .. n : j # n + 1 /\ j < n + 1) /\ n + 1 \in 1 .. (n + 1)
  BY <1>1
<1>5. (\A j \in 1 .. n : new[j] = ends[j]) /\ new[n + 1] = k /\ new \in [1 .. (n + 1) -> E \cup {k}]
  BY <1>3, <1>4
<1> HIDE DEF new
<1>6. ASSUME NEW i \in 1 .. (n + 1), NEW j \in 1 .. (n + 1), i < j PROVE new[i] < new[j]
  <2>1. i \in 1 .. n
    BY <1>1, <1>6
  <2>2. CASE j = n + 1
    BY <1>2, <1>5, <2>1, <2>2
  <2>3. CASE j \in 1 .. n
    BY <1>2, <1>5, <1>6, <2>1, <2>3
  <2> QED BY <1>3, <2>2, <2>3
<1>7. ASSUME NEW e \in E \cup {k} PROVE \E j \in 1 .. (n + 1) : new[j] = e
  <2>1. CASE e = k
    BY <1>4, <1>5, <2>1
  <2>2. CASE e \in E
    <3>1. PICK j \in 1 .. n : ends[j] = e
      BY <1>2, <2>2
    <3> QED BY <1>3, <1>5, <3>1
  <2> QED BY <2>1, <2>2
<1>8. ASSUME NEW j \in 1 .. (n + 1) PROVE MadeOf(c[j], PairsIn(l, Since(l, new[j])))
  <2>1. CASE j = n + 1
    BY <1>1, <1>5, <2>1
  <2>2. CASE j \in 1 .. n
    BY <1>1, <1>2, <1>5, <2>2
  <2> QED BY <1>3, <2>1, <2>2
<1> QED BY <1>1, <1>5, <1>6, <1>7, <1>8 DEF Numbered, c

\* The same ends of a longer log.
LEMMA NumberedLonger ==
  ASSUME NEW d, NEW l, NEW m, NEW E, Numbered(d, l, E),
         \A k \in E : PairsIn(m, Since(m, k)) = PairsIn(l, Since(l, k))
  PROVE  Numbered(d, m, E)
<1>1. PICK ends \in [1 .. Len(d) -> E] :
        /\ \A i, j \in 1 .. Len(d) : i < j => ends[i] < ends[j]
        /\ \A e \in E : \E j \in 1 .. Len(d) : ends[j] = e
        /\ \A j \in 1 .. Len(d) : MadeOf(d[j], PairsIn(l, Since(l, ends[j])))
  BY DEF Numbered
<1>2. \A j \in 1 .. Len(d) : MadeOf(d[j], PairsIn(m, Since(m, ends[j])))
  BY <1>1
<1> QED BY <1>1, <1>2 DEF Numbered

\* A text more is an end more, when the lines since the one before are of use.
EndsKept(l, line, m, at) ==
  /\ EndsOf(m, FALSE) = EndsOf(l, FALSE) \cup {k \in {at} : LineText(line) /\ OfUse(m, Since(m, at))}
  /\ \A k \in EndsOf(l, FALSE) : PairsIn(m, Since(m, k)) = PairsIn(l, Since(l, k))

LEMMA EndsAppended ==
  ASSUME NEW l \in Seq(LogLines), NEW line \in LogLines, NEW m, m = Append(l, line), NEW at, at = Len(l) + 1
  PROVE  EndsKept(l, line, m, at)
<1>1. /\ at \in Nat \ {0} /\ Len(l) \in Nat /\ Len(m) = at /\ m[at] = line
      /\ \A k \in 1 .. Len(l) : m[k] = l[k] /\ Since(m, k) = Since(l, k)
      /\ \A s \in SUBSET (1 .. Len(l)) : PairsIn(m, s) = PairsIn(l, s) /\ (OfUse(m, s) <=> OfUse(l, s))
  <2>1. Lengthened(l, line, m, at)
    BY LineAppended
  <2> QED BY <2>1 DEF Lengthened
<1>2. \A k : k \in 1 .. at <=> k \in 1 .. Len(l) \/ k = at
  BY <1>1
<1>3. ASSUME NEW k \in 1 .. Len(l)
      PROVE  PairsIn(m, Since(m, k)) = PairsIn(l, Since(l, k)) /\ (OfUse(m, Since(m, k)) <=> OfUse(l, Since(l, k)))
  <2>1. Since(l, k) \in SUBSET (1 .. Len(l))
    <3>1. \A j \in 1 .. k : j \in 1 .. Len(l)
      BY <1>1
    <3> QED BY <3>1 DEF Since
  <2> QED BY <1>1, <2>1
<1>4. ASSUME NEW k PROVE k \in EndsOf(l, FALSE) <=> k \in 1 .. Len(l) /\ LineText(l[k]) /\ OfUse(l, Since(l, k))
  BY DEF EndsOf
<1>5. ASSUME NEW k PROVE k \in EndsOf(m, FALSE) <=> k \in 1 .. at /\ LineText(m[k]) /\ OfUse(m, Since(m, k))
  BY <1>1 DEF EndsOf
<1>6. ASSUME NEW k
      PROVE  k \in EndsOf(m, FALSE) <=> k \in EndsOf(l, FALSE) \/ (k = at /\ LineText(line) /\ OfUse(m, Since(m, at)))
  <2>1. CASE k \in 1 .. Len(l)
    <3>1. k # at
      BY <1>1, <2>1
    <3>2. m[k] = l[k]
      BY <1>1, <2>1
    <3> QED BY <1>2, <1>3, <1>4, <1>5, <2>1, <3>1, <3>2
  <2>2. CASE k = at
    <3>1. at \notin 1 .. Len(l)
      BY <1>1
    <3> QED BY <1>1, <1>2, <1>4, <1>5, <2>2, <3>1
  <2>3. CASE k \notin 1 .. at
    <3>1. k # at /\ k \notin 1 .. Len(l)
      BY <1>1, <1>2, <2>3
    <3> QED BY <1>4, <1>5, <2>3, <3>1
  <2> QED BY <1>2, <2>1, <2>2, <2>3
<1>7. EndsOf(m, FALSE) = EndsOf(l, FALSE) \cup {k \in {at} : LineText(line) /\ OfUse(m, Since(m, at))}
  BY <1>6
<1>8. \A k \in EndsOf(l, FALSE) : PairsIn(m, Since(m, k)) = PairsIn(l, Since(l, k))
  BY <1>3, <1>4
<1> QED BY <1>7, <1>8 DEF EndsKept

LEMMA InitFIInv == FatalInit => FIInv
<1> SUFFICES ASSUME FatalInit PROVE FIInv
  OBVIOUS
<1>1. log = <<>> /\ rec = Restart /\ dumps = <<>> /\ eof = FALSE
  BY DEF FatalInit
<1>2. Current(log) = {} /\ EndsOf(log, eof) = {}
  BY <1>1 DEF Current, EndsOf
<1>3. PairsIn(log, {}) = {}
  BY DEF PairsIn
<1>4. MadeOf(rec, PairsIn(log, Current(log))) /\ rec \in DumpRecords
  BY <1>1, <1>2, <1>3, RestartMade DEF MadeOf
<1>5. Numbered(dumps, log, EndsOf(log, eof))
  <2>1. Len(dumps) = 0 /\ 1 .. Len(dumps) = {}
    BY <1>1
  <2>2. [j \in {} |-> 0] \in [{} -> {}]
    OBVIOUS
  <2> QED BY <1>2, <2>1, <2>2 DEF Numbered
<1> QED BY <1>1, <1>4, <1>5, EmptySeq DEF FIInv

LEMMA ReadKeepsFIInv ==
  ASSUME FIInv, NEW line \in LogLines, ReadLine(line)
  PROVE  FIInv'
<1> DEFINE m == log'
           at == Len(log) + 1
           st == [rec |-> rec, dumps |-> dumps]
           x == Parsed(st, line, at)
           C == PairsIn(log, Current(log))
           K == KeysTo(line, at, Len(line))
           given == C \cup K
<1>1. /\ log \in Seq(LogLines) /\ eof = FALSE /\ rec \in DumpRecords /\ dumps \in Seq(DumpRecords)
      /\ MadeOf(rec, C) /\ Numbered(dumps, log, EndsOf(log, FALSE))
  BY DEF FIInv, ReadLine
<1>2. /\ m = Append(log, line) /\ eof' = FALSE
      /\ Len(m) = at => rec' = [x.rec EXCEPT !.next = FALSE] /\ dumps' = x.dumps
  BY DEF FIInv, ReadLine
<1>3. /\ m \in Seq(LogLines) /\ at \in Nat \ {0} /\ Len(log) \in Nat /\ Len(m) = at
      /\ Since(m, at) = Current(log) \cup {at}
      /\ Current(m) = IF LineText(line) THEN {} ELSE Current(log) \cup {at}
      /\ PairsIn(m, Current(log) \cup {at}) = given
  <2> HIDE DEF m, at
  <2>1. m = Append(log, line) /\ at = Len(log) + 1
    BY <1>2 DEF at
  <2>2. Lengthened(log, line, m, at)
    BY <1>1, <2>1, LineAppended
  <2> QED BY <2>2 DEF Lengthened, C, K
<1>4. /\ EndsOf(m, FALSE) = EndsOf(log, FALSE) \cup {k \in {at} : LineText(line) /\ OfUse(m, Since(m, at))}
      /\ \A k \in EndsOf(log, FALSE) : PairsIn(m, Since(m, k)) = PairsIn(log, Since(log, k))
  <2> HIDE DEF m, at
  <2>1. m = Append(log, line) /\ at = Len(log) + 1
    BY <1>2 DEF at
  <2>2. EndsKept(log, line, m, at)
    BY <1>1, <2>1, EndsAppended
  <2> QED BY <2>2 DEF EndsKept
<1>5. PairsUpTo(C, Len(log)) /\ Len(log) < at
  <2>1. Current(log) \subseteq 1 .. Len(log) /\ Len(log) \in 0 .. Len(log)
    BY <1>3 DEF Current
  <2> QED BY <1>1, <1>3, <2>1, PairsFacts
<1>6. x \in ParserStates /\ LineDone(st, line, at, C, Len(line), x)
  <2>1. st \in ParserStates /\ st.rec = rec
    BY <1>1 DEF ParserStates
  <2>2. Len(line) \in Nat /\ \A j \in 1 .. Len(line) : ItemRight(line[j])
    BY LineView
  <2> HIDE DEF C, at, st
  <2> QED BY <1>1, <1>3, <1>5, <2>1, <2>2, LineParsed
<1>7. TextTo(line, Len(line)) <=> LineText(line)
  BY LineView
<1> HIDE DEF m, st, x, C, K, at
<1>8. /\ ~LineText(line) => x.dumps = dumps /\ MadeOf(x.rec, given)
      /\ LineText(line) =>
           MadeOf(x.rec, {}) /\ \E r : MadeOf(r, given) /\ x.dumps = IF r.data THEN Append(dumps, r) ELSE dumps
  <2>1. st.dumps = dumps
    BY DEF st
  <2> QED BY <1>6, <1>7, <2>1 DEF LineDone, K
<1>9. rec' \in DumpRecords /\ dumps' = x.dumps /\ dumps' \in Seq(DumpRecords) /\ \A D : MadeOf(x.rec, D) => MadeOf(rec', D)
  <2>1. x.rec \in DumpRecords /\ x.dumps \in Seq(DumpRecords)
    BY <1>6 DEF ParserStates
  <2>2. rec' = [x.rec EXCEPT !.next = FALSE] /\ dumps' = x.dumps
    BY <1>2, <1>3
  <2>3. \A w \in BOOLEAN : [x.rec EXCEPT !.next = w] = Flagged(x.rec, x.rec.disclaimer_seen, w) /\ x.rec.disclaimer_seen \in BOOLEAN
    BY <2>1, FlagsMade
  <2>4. rec' = Flagged(x.rec, x.rec.disclaimer_seen, FALSE) /\ x.rec.disclaimer_seen \in BOOLEAN
    BY <2>2, <2>3, Zenon
  <2>5. FALSE \in BOOLEAN
    OBVIOUS
  <2>6. /\ Flagged(x.rec, x.rec.disclaimer_seen, FALSE) \in DumpRecords
        /\ \A D : MadeOf(x.rec, D) => MadeOf(Flagged(x.rec, x.rec.disclaimer_seen, FALSE), D)
    BY <2>1, <2>4, <2>5, FlagsMade, Zenon
  <2> QED BY <2>1, <2>2, <2>4, <2>6
<1>10. PairsIn(m, {}) = {}
  BY DEF PairsIn
<1>11. OfUse(m, Since(m, at)) <=> \E c \in given : c[2].n > 0
  <2>1. Since(m, at) \subseteq 1 .. at /\ at \in 0 .. Len(m)
    BY <1>3 DEF Since
  <2> QED BY <1>3, <2>1, PairsFacts
<1>12. Numbered(dumps, m, EndsOf(log, FALSE))
  <2> DEFINE E == EndsOf(log, FALSE)
  <2> HIDE DEF E
  <2>1. Numbered(dumps, log, E) /\ \A k \in E : PairsIn(m, Since(m, k)) = PairsIn(log, Since(log, k))
    BY <1>1, <1>4 DEF E
  <2>2. Numbered(dumps, m, E)
    BY <2>1, NumberedLonger
  <2> QED BY <2>2 DEF E
<1>13. MadeOf(rec', PairsIn(m, Current(m))) /\ Numbered(dumps', m, EndsOf(m, FALSE))
  <2>1. CASE ~LineText(line)
    <3>1. EndsOf(m, FALSE) = EndsOf(log, FALSE) /\ dumps' = dumps
      BY <1>4, <1>8, <1>9, <2>1
    <3>2. PairsIn(m, Current(m)) = given
      BY <1>3, <2>1
    <3> QED BY <1>8, <1>9, <1>12, <2>1, <3>1, <3>2
  <2>2. CASE LineText(line)
    <3>1. MadeOf(rec', PairsIn(m, Current(m)))
      BY <1>3, <1>8, <1>9, <1>10, <2>2
    <3>2. PICK r : MadeOf(r, given) /\ x.dumps = IF r.data THEN Append(dumps, r) ELSE dumps
      BY <1>8, <2>2
    <3>3. (r.data <=> \E c \in given : c[2].n > 0) /\ r \in DumpRecords
      BY <3>2 DEF MadeOf
    <3>4. CASE ~OfUse(m, Since(m, at))
      <4>1. dumps' = dumps /\ EndsOf(m, FALSE) = EndsOf(log, FALSE)
        BY <1>4, <1>9, <1>11, <3>2, <3>3, <3>4
      <4> QED BY <1>12, <3>1, <4>1
    <3>5. CASE OfUse(m, Since(m, at))
      <4>1. dumps' = Append(dumps, r)
        BY <1>9, <1>11, <3>2, <3>3, <3>5
      <4>2. EndsOf(m, FALSE) = EndsOf(log, FALSE) \cup {at}
        BY <1>4, <2>2, <3>5
      <4>3. EndsOf(log, FALSE) \subseteq Nat /\ \A e \in EndsOf(log, FALSE) : e < at
        BY <1>3 DEF EndsOf, at
      <4>4. MadeOf(r, PairsIn(m, Since(m, at)))
        BY <1>3, <3>2
      <4>5. Numbered(Append(dumps, r), m, EndsOf(log, FALSE) \cup {at})
        <5> DEFINE E == EndsOf(log, FALSE)
        <5> HIDE DEF E
        <5>1. Numbered(dumps, m, E) /\ E \subseteq Nat /\ \A e \in E : e < at
          BY <1>12, <4>3 DEF E
        <5>2. Numbered(Append(dumps, r), m, E \cup {at})
          BY <1>1, <1>3, <3>3, <4>4, <5>1, NumberedMore
        <5> QED BY <5>2 DEF E
      <4> QED BY <3>1, <4>1, <4>2, <4>5
    <3> QED BY <3>4, <3>5
  <2> QED BY <2>1, <2>2
<1>14. m \in Seq(LogLines) /\ eof' = FALSE
  BY <1>2, <1>3
<1> QED BY <1>9, <1>13, <1>14 DEF FIInv, m

LEMMA EndKeepsFIInv ==
  ASSUME FIInv, EndOfLog
  PROVE  FIInv'
<1> DEFINE L == Len(log)
<1>1. /\ log \in Seq(LogLines) /\ eof = FALSE /\ rec \in DumpRecords /\ dumps \in Seq(DumpRecords) /\ L \in Nat
      /\ MadeOf(rec, PairsIn(log, Current(log))) /\ Numbered(dumps, log, EndsOf(log, FALSE))
  BY LenProperties DEF FIInv, EndOfLog
<1>2. log' = log /\ rec' = rec /\ eof' = TRUE /\ dumps' = IF rec.data THEN Append(dumps, rec) ELSE dumps
  BY DEF EndOfLog, dump_mce_final
<1> HIDE DEF L
<1>3. ASSUME NEW k, NEW all \in BOOLEAN
      PROVE  k \in EndsOf(log, all) <=> k \in 1 .. L /\ (LineText(log[k]) \/ (all /\ k = L)) /\ OfUse(log, Since(log, k))
  BY DEF EndsOf, L
<1>4. Numbered(dumps', log, EndsOf(log, TRUE))
  <2>1. CASE L = 0 \/ LineText(log[L])
    <3>1. EndsOf(log, TRUE) = EndsOf(log, FALSE)
      <4>1. ASSUME NEW k PROVE k \in EndsOf(log, TRUE) <=> k \in EndsOf(log, FALSE)
        <5>1. k \in 1 .. L /\ k = L => LineText(log[k])
          BY <1>1, <2>1
        <5> QED BY <1>3, <5>1
      <4> QED BY <4>1
    <3>2. Current(log) = {}
      <4>1. ASSUME NEW j \in Current(log) PROVE FALSE
        <5>1. j \in 1 .. L /\ \A e \in 1 .. L : LineText(log[e]) => e < j
          BY DEF Current, L
        <5>2. L \in 1 .. L /\ LineText(log[L])
          BY <1>1, <2>1, <5>1
        <5>3. L < j
          BY <5>1, <5>2
        <5> QED BY <1>1, <5>1, <5>3
      <4> QED BY <4>1
    <3>3. PairsIn(log, {}) = {}
      BY DEF PairsIn
    <3>4. ~rec.data
      BY <1>1, <3>2, <3>3 DEF MadeOf
    <3> QED BY <1>1, <1>2, <3>1, <3>4
  <2>2. CASE ~(L = 0 \/ LineText(log[L]))
    <3>1. L \in 1 .. L /\ \A e : e \in 1 .. L <=> e \in 1 .. (L - 1) \/ e = L
      BY <1>1, <2>2
    <3>2. Current(log) = Since(log, L)
      <4>1. ASSUME NEW j PROVE j \in Current(log) <=> j \in Since(log, L)
        <5>1. (\A e \in 1 .. L : LineText(log[e]) => e < j) <=> \A e \in 1 .. (L - 1) : LineText(log[e]) => e < j
          BY <2>2, <3>1
        <5> QED BY <5>1 DEF Current, Since, L
      <4> QED BY <4>1
    <3>3. rec.data <=> OfUse(log, Since(log, L))
      <4>1. Since(log, L) \subseteq 1 .. L /\ L \in 0 .. Len(log)
        BY <1>1 DEF Since, L
      <4>2. OfUse(log, Since(log, L)) <=> \E c \in PairsIn(log, Since(log, L)) : c[2].n > 0
        BY <1>1, <4>1, PairsFacts
      <4> QED BY <1>1, <3>2, <4>2 DEF MadeOf
    <3>4. CASE ~rec.data
      <4>1. \A k : k \in EndsOf(log, TRUE) <=> k \in EndsOf(log, FALSE)
        BY <1>3, <3>3, <3>4
      <4>2. EndsOf(log, TRUE) = EndsOf(log, FALSE)
        BY <4>1
      <4> QED BY <1>1, <1>2, <3>4, <4>2
    <3>5. CASE rec.data
      <4>1. \A k : k \in EndsOf(log, TRUE) <=> k \in EndsOf(log, FALSE) \/ k = L
        BY <1>3, <3>1, <3>3, <3>5
      <4>2. EndsOf(log, TRUE) = EndsOf(log, FALSE) \cup {L}
        BY <4>1
      <4>3. \A e \in EndsOf(log, FALSE) : e \in Nat /\ e < L
        <5> TAKE e \in EndsOf(log, FALSE)
        <5>1. e \in 1 .. L /\ LineText(log[e])
          BY <1>3
        <5>2. e # L
          BY <2>2, <5>1
        <5> QED BY <1>1, <5>1, <5>2
      <4>4. Numbered(Append(dumps, rec), log, EndsOf(log, FALSE) \cup {L})
        <5> DEFINE E == EndsOf(log, FALSE)
        <5> HIDE DEF E
        <5>1. Numbered(dumps, log, E) /\ E \subseteq Nat /\ \A e \in E : e < L
          BY <1>1, <4>3 DEF E
        <5>2. MadeOf(rec, PairsIn(log, Since(log, L)))
          BY <1>1, <3>2
        <5>3. Numbered(Append(dumps, rec), log, E \cup {L})
          BY <1>1, <5>1, <5>2, NumberedMore
        <5> QED BY <5>3 DEF E
      <4> QED BY <1>2, <3>5, <4>2, <4>4
    <3> QED BY <3>4, <3>5
  <2> QED BY <2>1, <2>2
<1>5. dumps' \in Seq(DumpRecords)
  BY <1>1, <1>2
<1> QED BY <1>1, <1>2, <1>4, <1>5 DEF FIInv

LEMMA StepFIInv == FIInv /\ [FatalNext]_fatalVars => FIInv'
<1> SUFFICES ASSUME FIInv, [FatalNext]_fatalVars PROVE FIInv'
  OBVIOUS
<1>1. CASE EndOfLog
  BY <1>1, EndKeepsFIInv
<1>2. ASSUME NEW line \in LogLines, ReadLine(line) PROVE FIInv'
  BY <1>2, ReadKeepsFIInv
<1>3. CASE UNCHANGED fatalVars
  BY <1>3 DEF FIInv, fatalVars
<1> QED BY <1>1, <1>2, <1>3 DEF FatalNext

LEMMA CountedBy ==
  ASSUME NEW n \in Nat, NEW T, NEW g \in [1 .. n -> T],
         \A i, j \in 1 .. n : g[i] = g[j] => i = j, \A t \in T : \E i \in 1 .. n : g[i] = t
  PROVE  Cardinality(T) = n
<1>1. g \in Bijection(1 .. n, T)
  BY Fun_IsBij
<1>2. ExistsBijection(1 .. n, T)
  BY <1>1 DEF ExistsBijection
<1> QED BY <1>2, FS_CountingElements

\* What a log consists of, in the words of the parser.
LEMMA LogView ==
  ASSUME log \in Seq(LogLines)
  PROVE  /\ \A k : KeyItems(k) = LineKeys(log[k])
         /\ \A k \in 1 .. Len(log) : Stretch(k) = Since(log, k) /\ Max(Since(log, k)) = k /\ k \in Since(log, k)
         /\ RecordsOfLog = {Since(log, k) : k \in EndsOf(log, TRUE)}
<1> DEFINE L == Len(log)
<1>1. L \in Nat /\ DOMAIN log = 1 .. L
  BY LenProperties
<1>2. ASSUME NEW k PROVE KeyItems(k) = LineKeys(log[k])
  <2>1. ASSUME NEW it PROVE it \in KeyItems(k) <=> it \in LineKeys(log[k])
    BY DEF KeyItems, Items, LineKeys
  <2> QED BY <2>1
<1>3. ASSUME NEW k PROVE HasText(k) <=> LineText(log[k])
  BY DEF HasText, Items, LineText
<1> HIDE DEF L
<1>4. \A e : e \in RecordEnds <=> e \in 1 .. L /\ (LineText(log[e]) \/ e = L)
  BY <1>1, <1>3 DEF RecordEnds, L
<1>5. ASSUME NEW k \in 1 .. L PROVE Stretch(k) = Since(log, k)
  <2>1. ASSUME NEW e PROVE e \in RecordEnds /\ e < k <=> e \in 1 .. (k - 1) /\ LineText(log[e])
    <3>1. CASE e \in 1 .. L
      <4>1. e < k => e # L
        BY <1>1, <3>1
      <4>2. e < k <=> e \in 1 .. (k - 1)
        BY <1>1, <3>1
      <4> QED BY <1>4, <3>1, <4>1, <4>2
    <3>2. CASE e \notin 1 .. L
      <4>1. e \notin 1 .. (k - 1)
        BY <1>1, <3>2
      <4> QED BY <1>4, <3>2, <4>1
    <3> QED BY <3>1, <3>2
  <2>2. ASSUME NEW l PROVE l \in Stretch(k) <=> l \in Since(log, k)
    BY <2>1 DEF Stretch, Since
  <2> QED BY <2>2
<1>6. ASSUME NEW k \in 1 .. L PROVE Max(Since(log, k)) = k /\ k \in Since(log, k)
  <2>1. k \in Since(log, k) /\ Since(log, k) \subseteq 1 .. k
    <3>1. k \in 1 .. k /\ \A e \in 1 .. (k - 1) : e < k
      BY <1>1
    <3> QED BY <3>1 DEF Since
  <2>2. k \in Nat /\ Since(log, k) \subseteq 0 .. k /\ Since(log, k) # {}
    BY <1>1, <2>1
  <2>3. Max(Since(log, k)) \in Since(log, k) /\ \A y \in Since(log, k) : y <= Max(Since(log, k))
    BY <2>2, GreatestNat
  <2>4. Max(Since(log, k)) \in 1 .. k /\ k <= Max(Since(log, k))
    BY <2>1, <2>3
  <2> QED BY <2>1, <2>2, <2>4
<1>7. ASSUME NEW k \in 1 .. L PROVE (\E l \in Stretch(k) : Useful(l)) <=> OfUse(log, Since(log, k))
  <2>1. \A l : Useful(l) <=> \E it \in LineKeys(log[l]) : it.n > 0
    BY <1>2 DEF Useful
  <2> QED BY <1>5, <2>1 DEF OfUse
<1>8. \A k : k \in EndsOf(log, TRUE) <=> k \in RecordEnds /\ \E l \in Stretch(k) : Useful(l)
  <2> TAKE k
  <2>1. k \in EndsOf(log, TRUE) <=> k \in 1 .. L /\ (LineText(log[k]) \/ k = L) /\ OfUse(log, Since(log, k))
    BY DEF EndsOf, L
  <2> QED BY <1>4, <1>7, <2>1
<1>9. RecordsOfLog = {Since(log, k) : k \in EndsOf(log, TRUE)}
  <2>1. ASSUME NEW t PROVE t \in RecordsOfLog <=> \E k \in EndsOf(log, TRUE) : t = Stretch(k)
    BY <1>8 DEF RecordsOfLog
  <2>2. \A k \in EndsOf(log, TRUE) : Stretch(k) = Since(log, k)
    BY <1>4, <1>5, <1>8
  <2>3. ASSUME NEW t PROVE t \in RecordsOfLog <=> \E k \in EndsOf(log, TRUE) : t = Since(log, k)
    BY <2>1, <2>2
  <2> QED BY <2>3
<1> QED BY <1>2, <1>5, <1>6, <1>9 DEF L

\* The lines of s that give field f.
Giving(s, f) == {l \in s : \E it \in KeyItems(l) : f \in Assigned(it)}

\* The decoded records are those of the log, in its order, and each has the
\* fields of its lines.
LEMMA FIInvWhole == FIInv => RecordsWhole
<1> SUFFICES ASSUME FIInv, eof PROVE RecordsWhole
  BY DEF RecordsWhole
<1> DEFINE J == Len(dumps)
           E == EndsOf(log, TRUE)
<1>1. log \in Seq(LogLines) /\ eof = TRUE /\ J \in Nat /\ DOMAIN dumps = 1 .. J /\ Numbered(dumps, log, E)
  BY LenProperties DEF FIInv
<1>2. PICK ends \in [1 .. J -> E] :
        /\ \A i, j \in 1 .. J : i < j => ends[i] < ends[j]
        /\ \A k \in E : \E j \in 1 .. J : ends[j] = k
        /\ \A j \in 1 .. J : MadeOf(dumps[j], PairsIn(log, Since(log, ends[j])))
  BY <1>1 DEF Numbered
<1>3. /\ \A k : KeyItems(k) = LineKeys(log[k])
      /\ \A k \in 1 .. Len(log) : Max(Since(log, k)) = k
      /\ RecordsOfLog = {Since(log, k) : k \in E}
  BY <1>1, LogView
<1>4. Len(log) \in Nat /\ E \subseteq 1 .. Len(log)
  BY <1>1, LenProperties DEF EndsOf
<1> DEFINE g == [j \in 1 .. J |-> Since(log, ends[j])]
           Before(s) == {t \in RecordsOfLog : Max(t) <= Max(s)}
<1> HIDE DEF J, E
<1>5. g \in [1 .. J -> RecordsOfLog] /\ \A t \in RecordsOfLog : \E j \in 1 .. J : g[j] = t
  BY <1>2, <1>3
<1>6. \A j \in 1 .. J : g[j] = Since(log, ends[j]) /\ Max(g[j]) = ends[j] /\ ends[j] \in Nat
  <2> TAKE j \in 1 .. J
  <2>1. g[j] = Since(log, ends[j]) /\ ends[j] \in 1 .. Len(log)
    BY <1>2, <1>4
  <2>2. Max(Since(log, ends[j])) = ends[j]
    BY <1>3, <2>1
  <2> QED BY <1>4, <2>1, <2>2
<1> HIDE DEF g
<1>7. \A i, j \in 1 .. J : Max(g[i]) <= Max(g[j]) <=> i <= j
  <2> TAKE i, j \in 1 .. J
  <2>1. i \in Nat /\ j \in Nat
    BY <1>1
  <2>2. i < j => ends[i] < ends[j]
    BY <1>2
  <2>3. j < i => ends[j] < ends[i]
    BY <1>2
  <2>4. Max(g[i]) = ends[i] /\ Max(g[j]) = ends[j] /\ ends[i] \in Nat /\ ends[j] \in Nat
    BY <1>6
  <2>5. i = j => ends[i] = ends[j]
    OBVIOUS
  <2> QED BY <2>1, <2>2, <2>3, <2>4, <2>5
<1>8. \A i, j \in 1 .. J : g[i] = g[j] => i = j
  <2> TAKE i, j \in 1 .. J
  <2> HAVE g[i] = g[j]
  <2>1. Max(g[i]) <= Max(g[j]) /\ Max(g[j]) <= Max(g[i])
    BY <1>6
  <2>2. i <= j /\ j <= i
    BY <1>7, <2>1
  <2> QED BY <1>1, <2>2
<1>9. Cardinality(RecordsOfLog) = J
  BY <1>1, <1>5, <1>8, CountedBy
<1>10. ASSUME NEW n \in 1 .. J PROVE Cardinality(Before(g[n])) = n
  <2> DEFINE h == [i \in 1 .. n |-> g[i]]
  <2>1. n \in Nat /\ \A i \in 1 .. n : i \in 1 .. J /\ i <= n
    BY <1>1
  <2>2. \A i \in 1 .. n : g[i] \in Before(g[n])
    BY <1>5, <1>7, <2>1
  <2>3. ASSUME NEW t \in Before(g[n]) PROVE \E i \in 1 .. n : h[i] = t
    <3>1. PICK i \in 1 .. J : g[i] = t
      BY <1>5
    <3>2. Max(g[i]) <= Max(g[n])
      BY <3>1
    <3>3. i <= n
      BY <1>7, <3>2
    <3>4. i \in 1 .. n
      BY <1>1, <3>3
    <3> QED BY <3>1, <3>4
  <2>4. h \in [1 .. n -> Before(g[n])] /\ \A i, j \in 1 .. n : h[i] = h[j] => i = j
    BY <1>8, <2>1, <2>2
  <2> HIDE DEF h, Before
  <2> QED BY <2>1, <2>3, <2>4, CountedBy
<1>11. ASSUME NEW n \in 1 .. J PROVE (CHOOSE s \in RecordsOfLog : Cardinality(Before(s)) = n) = g[n]
  <2>1. g[n] \in RecordsOfLog /\ Cardinality(Before(g[n])) = n
    BY <1>5, <1>10
  <2>2. ASSUME NEW s \in RecordsOfLog, Cardinality(Before(s)) = n PROVE s = g[n]
    <3>1. PICK j \in 1 .. J : g[j] = s
      BY <1>5
    <3>2. Cardinality(Before(g[j])) = j
      BY <1>10
    <3> QED BY <2>2, <3>1, <3>2
  <2> HIDE DEF Before
  <2> QED BY <2>1, <2>2
<1>12. ASSUME NEW n \in 1 .. J, NEW f \in FieldNames
       PROVE  dumps[n].m[f] = IF Giving(g[n], f) = {} THEN 0 ELSE Max(Giving(g[n], f))
  <2> DEFINE v == dumps[n].m[f]
             s == g[n]
             From == Giving(s, f)
             C == PairsIn(log, s)
  <2>1. From = {l \in s : \E it \in KeyItems(l) : f \in Assigned(it)}
    BY DEF Giving
  <2> HIDE DEF From
  <2>2. MadeOf(dumps[n], C) /\ s \subseteq 1 .. Len(log) /\ Len(log) \in 0 .. Len(log)
    <3>1. s = Since(log, ends[n]) /\ ends[n] \in 1 .. Len(log)
      BY <1>2, <1>4, <1>6
    <3>2. \A l \in 1 .. ends[n] : l \in 1 .. Len(log)
      BY <1>4, <3>1
    <3> QED BY <1>2, <1>4, <3>1, <3>2 DEF Since
  <2>3. \A c : c \in C <=> Given(log, s, c)
    BY <1>1, <2>2, PairsFacts
  <2> HIDE DEF C
  <2>4. v \in Nat /\ (\A c \in C : f \in Assigned(c[2]) => c[1] <= v) /\ (v = 0 \/ \E c \in C : f \in Assigned(c[2]) /\ c[1] = v)
    BY <2>2 DEF MadeOf, DumpRecords
  <2> HIDE DEF v
  <2>5. ASSUME NEW l \in From PROVE l \in 1 .. Len(log) /\ l <= v
    <3>1. l \in s /\ \E it \in LineKeys(log[l]) : f \in Assigned(it)
      BY <1>3, <2>1
    <3>2. PICK it \in LineKeys(log[l]) : f \in Assigned(it)
      BY <3>1
    <3>3. <<l, it>> \in C
      BY <2>3, <3>1 DEF Given
    <3> QED BY <2>2, <2>4, <3>1, <3>2, <3>3
  <2>6. ASSUME NEW c \in C, f \in Assigned(c[2]) PROVE c[1] \in From
    <3>1. PICK l \in s : \E it \in LineKeys(log[l]) : c = <<l, it>>
      BY <2>3 DEF Given
    <3>2. PICK it \in LineKeys(log[l]) : c = <<l, it>>
      BY <3>1
    <3> QED BY <1>3, <2>1, <2>6, <3>2
  <2>7. CASE From = {}
    BY <2>4, <2>6, <2>7 DEF v, From
  <2>8. CASE From # {}
    <3>1. From \subseteq 0 .. Len(log)
      BY <1>4, <2>5
    <3>2. Max(From) \in From /\ \A y \in From : y <= Max(From)
      BY <1>4, <2>8, <3>1, GreatestNat
    <3>3. v # 0
      BY <2>4, <2>5, <2>8
    <3>4. v \in From
      BY <2>4, <2>6, <3>3
    <3>5. Max(From) <= v /\ v <= Max(From) /\ Max(From) \in Nat
      BY <2>5, <3>2, <3>4
    <3>6. v = Max(From)
      BY <2>4, <3>5
    <3> QED BY <2>8, <3>6 DEF v, From
  <2> QED BY <2>7, <2>8
<1>13. ASSUME NEW n \in 1 .. J, NEW s, s = g[n], NEW l \in s, NEW it \in KeyItems(l)
       PROVE  /\ Missing(it) => dumps[n].missing
              /\ ~Missing(it) => \A f \in Assigned(it) \ {"cpu", "cs", "symbol"} : endof_field(f) <= dumps[n].recordlen
  <2> DEFINE C == PairsIn(log, s)
  <2>1. MadeOf(dumps[n], C) /\ s \subseteq 1 .. Len(log) /\ Len(log) \in 0 .. Len(log)
    <3>1. s = Since(log, ends[n]) /\ ends[n] \in 1 .. Len(log)
      BY <1>2, <1>4, <1>6, <1>13
    <3>2. \A k \in 1 .. ends[n] : k \in 1 .. Len(log)
      BY <1>4, <3>1
    <3> QED BY <1>2, <1>4, <3>1, <3>2 DEF Since
  <2>2. \A c : c \in C <=> Given(log, s, c)
    BY <1>1, <2>1, PairsFacts
  <2>3. <<l, it>> \in C
    BY <1>3, <2>2 DEF Given
  <2> HIDE DEF C
  <2>4. \A c \in C : /\ Missing(c[2]) => dumps[n].missing
                     /\ ~Missing(c[2]) => \A f \in Assigned(c[2]) \ {"cpu", "cs", "symbol"} : endof_field(f) <= dumps[n].recordlen
    BY <2>1 DEF MadeOf
  <2>5. <<l, it>>[2] = it
    OBVIOUS
  <2> QED BY <2>3, <2>4, <2>5
<1>14. FieldNames = ToSet(StructMce)
  BY DEF FieldNames
<1>15. ASSUME NEW n \in 1 .. J
       PROVE  LET stretch == CHOOSE s \in RecordsOfLog :
                               Cardinality({t \in RecordsOfLog : Max(t) <= Max(s)}) = n
                  From(f) == {l \in stretch : \E it \in KeyItems(l) : f \in Assigned(it)}
              IN  /\ \A f \in ToSet(StructMce) :
                       dumps[n].m[f] = IF From(f) = {} THEN 0 ELSE Max(From(f))
                  /\ (\E l \in stretch : \E it \in KeyItems(l) : Missing(it)) => dumps[n].missing
                  /\ \A l \in stretch : \A it \in KeyItems(l) :
                       ~Missing(it) => \A f \in Assigned(it) \ {"cpu", "cs", "symbol"} :
                                         endof_field(f) <= dumps[n].recordlen
  <2> DEFINE stretch == CHOOSE s \in RecordsOfLog :
                          Cardinality({t \in RecordsOfLog : Max(t) <= Max(s)}) = n
  <2>1. stretch = g[n]
    BY <1>11
  <2> HIDE DEF stretch
  <2>2. ASSUME NEW f \in ToSet(StructMce)
        PROVE  dumps[n].m[f] = IF Giving(stretch, f) = {} THEN 0 ELSE Max(Giving(stretch, f))
    BY <1>12, <1>14, <2>1
  <2>3. \A l \in stretch : \A it \in KeyItems(l) :
          /\ Missing(it) => dumps[n].missing
          /\ ~Missing(it) => \A f \in Assigned(it) \ {"cpu", "cs", "symbol"} : endof_field(f) <= dumps[n].recordlen
    BY <1>13, <2>1
  <2>4. \A f : Giving(stretch, f) = {l \in stretch : \E it \in KeyItems(l) : f \in Assigned(it)}
    BY DEF Giving
  <2> QED BY <2>2, <2>3, <2>4 DEF stretch
<1> QED BY <1>1, <1>9, <1>15, Zenon DEF RecordsWhole, J

\* RecordsWhole, for every log.
THEOREM RecordsWholeSound == FatalSpec => []RecordsWhole
<1>1. FatalInit => FIInv
  BY InitFIInv
<1>2. FIInv /\ [FatalNext]_fatalVars => FIInv'
  BY StepFIInv
<1>3. FIInv => RecordsWhole
  BY FIInvWhole
<1> QED BY <1>1, <1>2, <1>3, PTL DEF FatalSpec
=============================================================================
