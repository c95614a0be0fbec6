-------------------------- MODULE MCMceAccounting ---------------------------
(***************************************************************************)
(* Three parts of mcelog that share no state, explored one at a time: the  *)
(* accounting of machine checks, a client of the tree that keeps to the    *)
(* protocol of rbtree.h, and the reader of a dying kernel's log.           *)
(***************************************************************************)
EXTENDS MceAccounting, RbTreeUse, DecodeFatal

Nehalem == <<"intel", 6, 26>>

\* A corrected error of a memory controller, with everything known.
Plain == [cpu |-> Nehalem, mem |-> TRUE, filt |-> FALSE, channel |-> 0, misc |-> <<>>,
          uc |-> FALSE, addrv |-> TRUE, page |-> 2, corr |-> 1, timed |-> TRUE, socketid |-> 0]

MCRecords ==
  {Plain,
   [Plain EXCEPT !.page = 1, !.misc = <<0, 1>>, !.corr = 2],
   [Plain EXCEPT !.cpu = <<>>, !.timed = FALSE],
   [Plain EXCEPT !.uc = TRUE, !.corr = 2, !.channel = -1],
   [Plain EXCEPT !.cpu = <<"amd", 16, 2>>],
   [Plain EXCEPT !.filt = TRUE, !.page = 3],
   [Plain EXCEPT !.cpu = <<"intel", 6, 29>>, !.addrv = FALSE, !.socketid = 1, !.misc = <<1, 1>>]}

\* A rate "cap / t".
Rate(cap, t) == [cap |-> cap, cunit |-> "", t |-> t, tunit |-> ""]
Refused == [cap |-> 2, cunit |-> "", t |-> 1, tunit |-> "s"]

Usual == [cpu |-> <<>>, recordlen |-> "full", filter |-> TRUE, dimm |-> -1, socket |-> -1,
          dimm_ce |-> Rate(2, 2), dimm_uc |-> Rate(1, 1), sock_ce |-> Rate(2, 1), sock_uc |-> Refused,
          page_ce |-> Rate(2, 2), action |-> "soft-then-hard", sysfs |-> TRUE,
          dmi |-> <<<<0, 0, 1>>, <<>>, <<0, 0, 1>>, <<0, 1, 0>>>>]

MCConfigs ==
  {Usual,
   [Usual EXCEPT !.cpu = <<"--cpu", "nehalem">>, !.recordlen = "mid", !.action = "soft", !.socket = 1, !.page_ce = Rate(1, 2)],
   [Usual EXCEPT !.cpu = <<"--intel-cpu", 6, 26>>, !.recordlen = "short", !.action = "hard", !.page_ce = [Rate(1, 1) EXCEPT !.tunit = "m"]],
   [Usual EXCEPT !.dimm = 1, !.socket = 0, !.sysfs = FALSE, !.dmi = <<>>],
   [Usual EXCEPT !.cpu = <<"--k8", "k8">>, !.filter = FALSE, !.action = "off"]}

\* Every hash collides with some other.
MCdimmhash(id) == (id[1] + id[2] + id[3] + 2) % 2

MCKernels == {[soft |-> TRUE, hard |-> TRUE], [soft |-> FALSE, hard |-> TRUE], [soft |-> FALSE, hard |-> FALSE]}
MCHostCpu == Nehalem
MCPages == 1 .. 3

It(key, n) == [key |-> key, n |-> n]
Text == It("text", 0)

\* Whole records in one line and in several, fields cut off, a message of
\* something else between them and behind them.
MCLogLines ==
  {<<It("HARDWARE ERROR", 0)>>,
   <<It("mce", 4)>>, <<It("mce", 2), It("status", 1)>>,
   <<It("cpu", 2), It("tsc", 1), It("addr", 1), Text>>,
   <<It("rip", 3), It("misc", 1)>>,
   <<It("processor", 2), It("time", 1), It("socketid", 1), It("apicid", 1), It("mcgcap", 1)>>,
   <<It("status", 0)>>, <<It("processor", 1), It("mcgstatus", 1)>>,
   <<Text>>}

MCInit == AInit /\ UseInit /\ FatalInit
MCNext ==
  \/ UseNext /\ ~conf.on /\ log = <<>> /\ ~eof /\ UNCHANGED <<avars, fatalVars>>
  \/ ANext /\ tree.root = NULL /\ log = <<>> /\ ~eof /\ UNCHANGED <<tree, fatalVars>>
  \/ FatalNext /\ ~conf.on /\ tree.root = NULL /\ UNCHANGED <<avars, tree>>
MCSpec == MCInit /\ [][MCNext]_<<avars, tree, fatalVars>>
=============================================================================
