----------------------------- MODULE ErrorLedger ----------------------------
(***************************************************************************)
(* What the accounting of memory errors promises of each record that is    *)
(* read: it is one error more on every account it belongs to - that of its *)
(* page, of its DIMM and of its socket, as far as they are kept - and on   *)
(* no other, and what is on an account stays there.  The errors that the   *)
(* hardware counted and did not log are corrected errors of the socket.    *)
(*                                                                         *)
(* A record is one of MceAccounting.  The accounts it belongs to are read  *)
(* off it here; how they are stored is none of the ledger's business.      *)
(***************************************************************************)
EXTENDS Integers

CONSTANTS
  Pages, Sockets,
  DimmIds,        \* <<socket, channel, dimm>>, without those of whole sockets
  Records,
  MemoryTypes     \* types of CPU whose memory errors are counted

VARIABLES
  kept,           \* of "dimm", "socket" and "page", and "lost"
  nread, latest,  \* how many records were read, and the last of them
  type,           \* what the CPU is taken for
  page,           \* errors per page
  ce, uc          \* corrected and uncorrected errors per DIMM and socket

ledger == <<kept, nread, latest, page, ce, uc>>

Whole(s) == <<s, -1, -1>>
Accounts == DimmIds \cup {Whole(s) : s \in Sockets}

Init ==
  /\ kept = {} /\ nread = 0
  /\ page = [p \in Pages |-> 0]
  /\ ce = [a \in Accounts |-> 0] /\ uc = [a \in Accounts |-> 0]

Open ==
  /\ kept = {} /\ nread = 0
  /\ kept' \in SUBSET {"dimm", "socket", "page", "lost"}
  /\ UNCHANGED <<nread, latest, page, ce, uc>>

\* Corrected error filtering leaves no error of a memory controller to count.
IsMemoryError(m, t) == m.mem /\ ~m.filt /\ t \in MemoryTypes

\* The DIMM is named by MISC where the CPU has it there, else by the channel
\* of the error code, which may be unspecified.
DimmOf(m, t) ==
  IF t = "nehalem" /\ m.misc # <<>> THEN {<<m.socketid, m.misc[1], m.misc[2]>>}
  ELSE {<<m.socketid, c, -1>> : c \in {m.channel} \ {-1}}

AccountsOf(m, t) ==
  {a \in Accounts :
     /\ IsMemoryError(m, t)
     /\ \/ "dimm" \in kept /\ a \in DimmOf(m, t)
        \/ "socket" \in kept /\ a = Whole(m.socketid)}

\* An uncorrected error is none of a page's.
PagesOf(m, t) ==
  {p \in Pages : "page" \in kept /\ IsMemoryError(m, t) /\ m.addrv /\ ~m.uc /\ p = m.page}

\* The socket that errors were lost on.
LostOn(m, t) ==
  {a \in AccountsOf(m, t) : "lost" \in kept /\ m.corr > 1 /\ a = Whole(m.socketid)}

\* f with n more wherever S says.
Plus(f, S, n) == [x \in DOMAIN f |-> f[x] + IF x \in S THEN n ELSE 0]

Corrected(m) ==
  /\ ~m.uc
  /\ ce' = Plus(Plus(ce, AccountsOf(m, type'), 1), LostOn(m, type'), m.corr - 1)
  /\ UNCHANGED uc

Uncorrected(m) ==
  /\ m.uc
  /\ uc' = Plus(uc, AccountsOf(m, type'), 1)
  /\ ce' = Plus(ce, LostOn(m, type'), m.corr - 1)

Read(m) ==
  /\ nread' = nread + 1 /\ latest' = m
  /\ Corrected(m) \/ Uncorrected(m)
  /\ page' = Plus(page, PagesOf(m, type'), 1)
  /\ UNCHANGED kept

Next == Open \/ \E m \in Records : Read(m)

Spec == Init /\ [][Next]_ledger
=============================================================================
