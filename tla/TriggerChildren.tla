--------------------------- MODULE TriggerChildren ---------------------------
(***************************************************************************)
(* mcelog/trigger.c: the processes that run triggers.  SIGCHLD is never    *)
(* blocked (event_signal() has its sigaddset() commented out), so          *)
(* child_handler() may run between any two steps of mcelog_fork().  Those  *)
(* are the loads and stores the handler can meet, for the program is built *)
(* without optimisation: num_children++ and, in list_add_tail(), the tail. *)
(* A second SIGCHLD is lost while one is pending.                          *)
(*                                                                         *)
(* list.h: childlist is what the next pointers reach from the head, and    *)
(* head_prev the entry before the head.  They part when the handler takes  *)
(* out the tail that list_add_tail() has loaded: the new child is linked   *)
(* to freed memory and no walk from the head finds it.                     *)
(***************************************************************************)
EXTENDS Integers, FiniteSets, SequencesExt

CONSTANTS
  Pids,          \* processes, positive numbers
  children_max   \* 4 unless it is configured; 0 is no limit
ASSUME ChildrenAssumption == Pids \subseteq Nat \ {0} /\ children_max \in Nat

VARIABLES
  proc,          \* pid -> "unborn", "runs", "zombie", "reaped"
  childlist, num_children,
  head_prev,     \* childlist.prev: a child, 0 is the head itself
  fork,          \* mcelog_fork(): [at, child, loaded], the count or the tail
  sigchld,       \* pid of the pending SIGCHLD, 0 when none is
  aborted,
  torn           \* history: the handler took out a tail list_add_tail() had loaded

cvars == <<proc, childlist, num_children, head_prev, fork, sigchld, aborted, torn>>

NoFork == [at |-> "none", child |-> 0, loaded |-> 0]

ChildInit ==
  /\ proc = [p \in Pids |-> "unborn"]
  /\ childlist = <<>> /\ num_children = 0 /\ head_prev = 0
  /\ fork = NoFork /\ sigchld = 0 /\ aborted = FALSE /\ torn = FALSE

\* A mutant: the limit is one more.
TooManyLate == children_max > 0 /\ num_children > children_max

TooMany == children_max > 0 /\ num_children >= children_max

\* run_trigger() and the fork of mcelog_fork(), which may fail; the child
\* goes its own way at once.
run_trigger ==
  /\ fork.at = "none" /\ ~aborted
  /\ \/ TooMany /\ UNCHANGED cvars
     \/ ~TooMany /\ UNCHANGED cvars
     \/ /\ ~TooMany
        /\ \E p \in Pids : /\ proc[p] = "unborn" /\ \A q \in Pids : q < p => proc[q] # "unborn"
                           /\ proc' = [proc EXCEPT ![p] = "runs"]
                           /\ fork' = [at |-> "forked", child |-> p, loaded |-> 0]
        /\ UNCHANGED <<childlist, num_children, head_prev, sigchld, aborted, torn>>

\* num_children++
LoadCount ==
  /\ fork.at = "forked" /\ ~aborted
  /\ fork' = [fork EXCEPT !.at = "loaded", !.loaded = num_children]
  /\ UNCHANGED <<proc, childlist, num_children, head_prev, sigchld, aborted, torn>>

StoreCount ==
  /\ fork.at = "loaded" /\ ~aborted
  /\ num_children' = fork.loaded + 1
  /\ fork' = [fork EXCEPT !.at = "counted", !.loaded = 0]
  /\ UNCHANGED <<proc, childlist, head_prev, sigchld, aborted, torn>>

\* xalloc(), and the load of head->prev for __list_add().
LoadTail ==
  /\ fork.at = "counted" /\ ~aborted
  /\ fork' = [fork EXCEPT !.at = "linking", !.loaded = head_prev]
  /\ UNCHANGED <<proc, childlist, num_children, head_prev, sigchld, aborted, torn>>

\* next->prev = new
StoreHeadPrev ==
  /\ fork.at = "linking" /\ ~aborted
  /\ head_prev' = fork.child
  /\ fork' = [fork EXCEPT !.at = "linked"]
  /\ UNCHANGED <<proc, childlist, num_children, sigchld, aborted, torn>>

\* prev->next = new, after the stores into the new entry: it is in the list if
\* the tail that was loaded still is.
AddChild ==
  /\ fork.at = "linked" /\ ~aborted
  /\ \/ /\ fork.loaded \in ToSet(childlist) \cup {0}
        /\ childlist' = Append(childlist, fork.child)
     \/ /\ fork.loaded \notin ToSet(childlist) \cup {0}
        /\ UNCHANGED childlist
  /\ fork' = NoFork
  /\ UNCHANGED <<proc, num_children, head_prev, sigchld, aborted, torn>>

\* The store went to the first word of a freed entry, where the allocator keeps
\* its list: it may find that out at any later call, and abort.
MallocAborts ==
  /\ torn /\ fork.at = "none" /\ ~aborted
  /\ aborted' = TRUE
  /\ UNCHANGED <<proc, childlist, num_children, head_prev, fork, sigchld, torn>>

\* The trigger, or _exit(127) when it cannot be executed.
ChildEnds(p) ==
  /\ proc[p] = "runs"
  /\ proc' = [proc EXCEPT ![p] = "zombie"]
  /\ sigchld' = IF sigchld = 0 THEN p ELSE sigchld
  /\ UNCHANGED <<childlist, num_children, head_prev, fork, aborted, torn>>

\* finish_child(): the first entry of the child goes, with list_del(); a child
\* that is not in the list ends the program.
finish_child(p) ==
  \/ /\ \E i \in DOMAIN childlist :
          /\ childlist[i] = p /\ \A j \in 1 .. (i - 1) : childlist[j] # p
          /\ childlist' = RemoveAt(childlist, i)
          /\ head_prev' = IF i < Len(childlist) THEN head_prev
                          ELSE IF i = 1 THEN 0 ELSE childlist[i - 1]
     /\ num_children' = num_children - 1
     /\ torn' = (torn \/ (fork.at \in {"linking", "linked"} /\ fork.loaded = p))
     /\ UNCHANGED aborted
  \/ /\ p \notin ToSet(childlist)
     /\ aborted' = TRUE /\ UNCHANGED <<childlist, num_children, head_prev, torn>>

child_handler ==
  /\ sigchld # 0 /\ ~aborted
  /\ proc' = [proc EXCEPT ![sigchld] = "reaped"]
  /\ finish_child(sigchld)
  /\ sigchld' = 0
  /\ UNCHANGED fork

ForkStep == LoadCount \/ StoreCount \/ LoadTail \/ StoreHeadPrev \/ AddChild
-----------------------------------------------------------------------------
Unreaped == {p \in Pids : proc[p] \in {"runs", "zombie"}}

\* The last child of the list, 0 when it has none.
Tailmost == IF childlist = <<>> THEN 0 ELSE childlist[Len(childlist)]

(* Wherever SIGCHLD meets mcelog_fork(), never more than children_max      *)
(* children exist, though a decrement of the count may be lost, and the    *)
(* list holds a child once and none that is gone.  It holds all of them,   *)
(* from either end, and abort() is reached only by a child that ends       *)
(* before mcelog_fork() has linked it - until the child that was the tail  *)
(* ends while list_add_tail() links the next one to it: after that a child *)
(* may be missing, and its end aborts the program.                         *)
ChildrenRight ==
  /\ children_max > 0 => Cardinality(Unreaped) <= children_max
  /\ IsInjective(childlist) /\ ToSet(childlist) \subseteq Unreaped
  /\ num_children >= Len(childlist)
  /\ ~torn =>
       /\ Unreaped \subseteq ToSet(childlist) \cup {fork.child}
       /\ head_prev = IF fork.at = "linked" THEN fork.child ELSE Tailmost
       /\ aborted => fork.at # "none" /\ proc[fork.child] = "reaped"
-----------------------------------------------------------------------------
(* The inductive invariant behind ChildrenRight.                           *)

Forks == [at: {"none", "forked", "loaded", "counted", "linking", "linked"},
          child: Pids \cup {0}, loaded: Nat]

ChildTypeOK ==
  /\ proc \in [Pids -> {"unborn", "runs", "zombie", "reaped"}]
  /\ childlist \in Seq(Pids) /\ num_children \in Nat /\ head_prev \in Pids \cup {0}
  /\ fork \in Forks
  /\ sigchld \in Pids \cup {0} /\ aborted \in BOOLEAN /\ torn \in BOOLEAN

\* A child is in the list once, and the one just forked is not.
Listed ==
  /\ IsInjective(childlist) /\ ToSet(childlist) \subseteq Unreaped
  /\ fork.at = "none" => fork.child = 0
  /\ fork.at # "none" => fork.child \in Pids \ ToSet(childlist)
  /\ fork.at # "none" /\ ~aborted => fork.child \in Unreaped

\* The others are all in the list, and both ends of it are where they should be.
Linked ==
  /\ Unreaped \subseteq ToSet(childlist) \cup (IF fork.at = "none" THEN {} ELSE {fork.child})
  /\ head_prev = IF fork.at = "linked" THEN fork.child ELSE Tailmost
  /\ fork.at \in {"linking", "linked"} => fork.loaded = Tailmost
  /\ aborted => fork.at # "none" /\ proc[fork.child] = "reaped"

\* The count is at least the number of children, and so is a count that was
\* loaded; the one just forked is not counted yet.
CountEnough ==
  /\ fork.at \notin {"forked", "loaded"} \/ aborted => num_children >= Cardinality(Unreaped)
  /\ fork.at \in {"forked", "loaded"} => num_children + 1 >= Cardinality(Unreaped)
  /\ fork.at = "loaded" => fork.loaded + 1 >= Cardinality(Unreaped)

ChildIInv ==
  /\ ChildTypeOK /\ Listed /\ CountEnough
  /\ ~torn => Linked
  /\ sigchld # 0 => proc[sigchld] = "zombie"
  /\ IsFiniteSet(Unreaped)
  /\ children_max > 0 => Cardinality(Unreaped) <= children_max
=============================================================================
