---------------------------- MODULE MCCharDevice ----------------------------
(***************************************************************************)
(* The two drivers with a file, explored one at a time: they share nothing. *)
(* Of memtest, four frames and three MTRRs, each off or on any aligned     *)
(* range of 1, 2 or 4 frames, so that they may leave gaps, touch and       *)
(* overlap.  Of addrmap, two processes and two addresses.                  *)
(***************************************************************************)
EXTENDS CharDevice, AddrMap

MCMTRRs ==
  {[valid |-> FALSE, base |-> 0, mask |-> {2}]}
    \cup {[valid |-> TRUE, base |-> b, mask |-> j..2] :
            <<b, j>> \in {x \in Frames \X (0..2) : x[1] % 2^x[2] = 0}}

\* Pages of 4 bytes; an entry has flags in the two low bits and in bit 6.
There(entry) == [found |-> Levels, pte |-> entry]
Swapped == [found |-> Levels \ {"present"}, pte |-> 2]
Absent == [found |-> {"vma", "pgd"}, pte |-> 0]

\* The first process, the others; two addresses in each.
MCTables ==
  {[p \in Procs |-> [a \in Addrs |-> IF p = CHOOSE q \in Procs : TRUE
                                     THEN IF a = 5 THEN There(64 + 8 + 3) ELSE two
                                     ELSE IF a = 5 THEN one ELSE There(16 + 1)]] :
     one \in {There(12 + 1), Absent}, two \in {There(64 + 20 + 3), Swapped}}

Untouched == /\ mod = "class" /\ held = {} /\ asked = [start_pfn |-> 0, pages |-> 1]
             /\ \A n \in 1..MTRR_MAX_VAR_RANGES : ~mtrr[n].valid

MCInit == Init /\ AddrInit /\ (Untouched \/ table = CHOOSE t \in Tables : TRUE)

\* The other driver is looked at from one of the first one's initial states.
MCNext ==
  \/ Next /\ ~g_proc /\ UNCHANGED addrVars
  \/ Untouched /\ AddrNext /\ UNCHANGED vars
MCSpec == MCInit /\ [][MCNext]_<<vars, addrVars>>
=============================================================================
