------------------------------ MODULE AddrMap -------------------------------
(* The driver addrmap: a file under /proc to which a process writes a virtual *)
(* address and from which it reads the physical one (addrmap_procfs.c), found *)
(* by walking the page table of the process that reads (convt.c).  The        *)
(* address is one variable of the module for all who use the file; the        *)
(* semaphore guards one call, not a write and the read that follows it.       *)
(* A message is its four lines, each of fixed width.                          *)
EXTENDS Naturals, Sequences, FiniteSets

CONSTANTS Procs,     \* the processes
          Addrs,     \* the virtual addresses they write, 0 left out
          PageBytes, \* PAGE_SIZE
          HighBit,   \* bit 63, the no-execute bit of an entry
          Tables,    \* the page tables the processes may have
          Lens       \* what a read may ask for, in lines

Levels == {"vma", "pgd", "pud", "pmd", "pte", "present"}

ASSUME AddrMapAssumption ==
  /\ Addrs \subseteq Nat \ {0} /\ PageBytes \in Nat \ {0}
  /\ HighBit \in Nat \ {0} /\ HighBit % PageBytes = 0
  /\ IsFiniteSet(Procs) /\ "free" \notin Procs
  /\ Tables \subseteq [Procs -> [Addrs -> [found: SUBSET Levels, pte: Nat]]]
  /\ Lens \subseteq 1..4

VARIABLES g_proc,  \* the file is there
          refs,    \* the references the open files hold on the module
          g_sem,   \* who is inside the semaphore
          g_va,    \* the address written last
          at,      \* where a process is in a call
          pa,      \* its local pa
          offset,  \* the position of its file, or Closed
          table,   \* its page table
          got,     \* ghost: the lines it has read since it opened the file
          whole,   \* ghost: they came in one call
          mine     \* ghost: what it wrote, until another process writes

fileVars == <<g_proc, refs>>
readVars == <<pa, offset, got, whole>>
addrVars == <<fileVars, readVars, g_sem, g_va, at, table, mine>>

Free == "free"
Closed == 5
None == 0
Version == 1  \* the line with the driver's version

AddrInit ==
  /\ g_proc = FALSE /\ refs = 0 /\ g_sem = Free /\ g_va = 0
  /\ at = [p \in Procs |-> "out"] /\ pa = [p \in Procs |-> 0]
  /\ offset = [p \in Procs |-> Closed]
  /\ table \in Tables
  /\ got = [p \in Procs |-> <<>>] /\ whole = [p \in Procs |-> FALSE]
  /\ mine = [p \in Procs |-> None]

-----------------------------------------------------------------------------
(* The module and its file                                                    *)

\* A creation that fails fails the load; a second one would find it done.
addrmap_procfs_init ==
  /\ ~g_proc /\ g_proc' = TRUE
  /\ UNCHANGED <<refs, readVars, g_sem, g_va, at, table, mine>>

\* g_va is part of the module's data, which the next load sets anew.
addrmap_procfs_clean ==
  /\ g_proc /\ refs = 0
  /\ g_proc' = FALSE /\ g_va' = 0 /\ mine' = [p \in Procs |-> None]
  /\ UNCHANGED <<refs, readVars, g_sem, at, table>>

f_on_open(p) ==
  /\ g_proc /\ offset[p] = Closed
  /\ refs' = refs + 1
  /\ offset' = [offset EXCEPT ![p] = 0]
  /\ got' = [got EXCEPT ![p] = <<>>] /\ whole' = [whole EXCEPT ![p] = FALSE]
  /\ UNCHANGED <<g_proc, pa, g_sem, g_va, at, table, mine>>

f_on_release(p) ==
  /\ offset[p] # Closed /\ at[p] = "out"
  /\ refs' = refs - 1
  /\ offset' = [offset EXCEPT ![p] = Closed]
  /\ UNCHANGED <<g_proc, pa, got, whole, g_sem, g_va, at, table, mine>>

-----------------------------------------------------------------------------
(* addrmap_convt()                                                            *)

PteFrame(entry) == (entry \div PageBytes) * PageBytes

\* Every level must be there and the page present; the entry's flags in the low
\* bits make room for the offset in the page, and its highest bit is cleared.
addrmap_convt(p, in) ==
  IF in \in Addrs /\ table[p][in].found = Levels
    THEN (PteFrame(table[p][in].pte) + (in % PageBytes)) % HighBit
    ELSE 0

-----------------------------------------------------------------------------
(* f_on_read(), f_on_write()                                                  *)

\* A mutant: the semaphore is not waited for.
DownOpen(p, next) ==
  /\ offset[p] # Closed /\ at[p] = "out"
  /\ g_sem' = p /\ at' = [at EXCEPT ![p] = next]
  /\ UNCHANGED <<fileVars, readVars, g_va, table, mine>>

\* down_interruptible(); a call interrupted here has done nothing.
Down(p, next) ==
  /\ offset[p] # Closed /\ at[p] = "out" /\ g_sem = Free
  /\ g_sem' = p /\ at' = [at EXCEPT ![p] = next]
  /\ UNCHANGED <<fileVars, readVars, g_va, table, mine>>

Up(p) == g_sem' = Free /\ at' = [at EXCEPT ![p] = "out"]

ReadDown(p) == Down(p, "convt")

Convert(p) ==
  /\ at[p] = "convt"
  /\ pa' = [pa EXCEPT ![p] = addrmap_convt(p, g_va)]
  /\ at' = [at EXCEPT ![p] = "print"]
  /\ UNCHANGED <<fileVars, offset, got, whole, g_sem, g_va, table, mine>>

\* The message is made anew in each call, whatever the file's position.
Message(p) == <<Version, g_va, pa[p], 0>>

ReadEof(p) ==
  /\ at[p] = "print" /\ offset[p] >= Len(Message(p))
  /\ Up(p)
  /\ UNCHANGED <<fileVars, readVars, g_va, table, mine>>

PrintAndCopy(p, len) ==
  /\ at[p] = "print" /\ offset[p] < Len(Message(p))
  /\ LET left == Len(Message(p)) - offset[p]
         sz == IF left > len THEN len ELSE left
     IN /\ got' = [got EXCEPT ![p] =
                     @ \o SubSeq(Message(p), offset[p] + 1, offset[p] + sz)]
        /\ offset' = [offset EXCEPT ![p] = @ + sz]
        /\ whole' = [whole EXCEPT ![p] = sz = Len(Message(p))]
  /\ Up(p)
  /\ UNCHANGED <<fileVars, pa, g_va, table, mine>>

\* copy_to_user() fails: the file's position stays.
CopyOutFails(p) ==
  /\ at[p] = "print" /\ offset[p] < Len(Message(p))
  /\ Up(p)
  /\ UNCHANGED <<fileVars, readVars, g_va, table, mine>>

WriteDown(p) == Down(p, "copy")

\* Text that is no number is 0.
SetAddress(p, a) ==
  /\ at[p] = "copy"
  /\ g_va' = a
  /\ mine' = [q \in Procs |-> IF q = p /\ got[p] = <<>> THEN a ELSE None]
  /\ Up(p)
  /\ UNCHANGED <<fileVars, readVars, table>>

\* copy_from_user() fails: the old address stays.
CopyInFails(p) ==
  /\ at[p] = "copy"
  /\ Up(p)
  /\ UNCHANGED <<fileVars, readVars, g_va, table, mine>>

AddrStep(p) ==
  \/ f_on_open(p) \/ f_on_release(p)
  \/ ReadDown(p) \/ Convert(p) \/ ReadEof(p) \/ CopyOutFails(p)
  \/ \E len \in Lens : PrintAndCopy(p, len)
  \/ WriteDown(p) \/ CopyInFails(p)
  \/ \E a \in Addrs \cup {0} : SetAddress(p, a)

AddrNext ==
  addrmap_procfs_init \/ addrmap_procfs_clean \/ \E p \in Procs : AddrStep(p)

AddrSpec == AddrInit /\ [][AddrNext]_addrVars

-----------------------------------------------------------------------------
(* Properties                                                                 *)

\* The physical address of a virtual one in a page table that has it.
Physical(p, a) ==
  IF a # 0 /\ table[p][a].found = Levels
    THEN ((table[p][a].pte % HighBit) \div PageBytes) * PageBytes + (a % PageBytes)
    ELSE 0

\* What a process has read is one address and its place in the process's own
\* page table, if it came in one call, or in several with no write in between
\* (addrmap_procfs.c:35-45: the address is used twice under the semaphore); in
\* the second case it is the address that the process wrote.  The file does not
\* go away under an open one.
AddressIsOwn ==
  \A p \in Procs :
    /\ Len(got[p]) = 4 /\ (whole[p] \/ mine[p] # None) =>
         got[p] = <<Version, got[p][2], Physical(p, got[p][2]), 0>>
    /\ Len(got[p]) = 4 /\ mine[p] # None => got[p][2] = mine[p]
    /\ offset[p] # Closed => g_proc

-----------------------------------------------------------------------------
(* The inductive invariant behind AddressIsOwn.                               *)

AddrTypeOK ==
  /\ g_proc \in BOOLEAN /\ table \in Tables
  /\ g_va \in Addrs \cup {0} /\ mine \in [Procs -> Addrs \cup {None}]
  /\ at \in [Procs -> {"out", "convt", "print", "copy"}]
  /\ pa \in [Procs -> Nat] /\ offset \in [Procs -> 0..Closed]
  /\ got \in [Procs -> Seq(Nat)] /\ whole \in [Procs -> BOOLEAN]

\* One process at a time is in a call, with its file open; an open file holds the
\* module.
OneInside ==
  /\ \A p \in Procs : at[p] # "out" <=> g_sem = p
  /\ g_sem \in Procs \cup {Free}
  /\ \A p \in Procs : at[p] # "out" => offset[p] # Closed
  /\ refs = Cardinality({p \in Procs : offset[p] # Closed})
  /\ refs > 0 => g_proc

\* The lines that tell address a to process p.
Lines(p, a) == <<Version, a, addrmap_convt(p, a), 0>>

\* A process that prints has converted the address that is still there; what it has
\* read is a part of one message if it came at once, or if the address is its own.
Told ==
  \A p \in Procs :
    /\ at[p] = "print" => pa[p] = addrmap_convt(p, g_va)
    /\ offset[p] # Closed => offset[p] = Len(got[p])
    /\ Len(got[p]) <= 4
    /\ whole[p] => \E a \in Addrs \cup {0} : got[p] = Lines(p, a)
    /\ mine[p] # None => /\ mine[p] = g_va
                         /\ \A n \in 1..Len(got[p]) : got[p][n] = Lines(p, g_va)[n]

AddrIInv == AddrTypeOK /\ OneInside /\ Told
=============================================================================
