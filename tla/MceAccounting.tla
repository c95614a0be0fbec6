---------------------------- MODULE MceAccounting ---------------------------
(***************************************************************************)
(* The way of a machine check record through mcelog: mce_prepare() finds   *)
(* out the type of the CPU and the time, mce_filter_intel() puts memory    *)
(* errors on the accounts of their DIMM, socket and page, full buckets run *)
(* triggers and take pages offline.                                        *)
(*                                                                         *)
(* A record is                                                             *)
(*   cpu        <<vendor, family, model>>, or <<>> when cpuid is zero      *)
(*   mem, filt  the error code is that of a memory controller; its bit 12, *)
(*              corrected error filtering, is set                          *)
(*   channel    of the error code, -1 unspecified                          *)
(*   misc       <<channel, dimm>> of the MISC register, <<>> if not valid  *)
(*   uc, addrv  uncorrected; has an address, in page                       *)
(*   corr       corrected error count, timed: has a time; socketid         *)
(***************************************************************************)
EXTENDS PageErrors

CONSTANTS
  Records,       \* the records that can be read
  Configs,       \* configuration files, see Setup
  Kernels,       \* answers of the kernel: which way of offlining works
  HostCpu,       \* the CPU of /proc/cpuinfo, <<>> if it cannot be parsed
  MaxRecords,    \* bound: records read
  MaxTime        \* bound: the clock

\* The CPUs and places a record can name, the DIMMs that the accounts are for.
CpuIds == {<<>>} \cup (STRING \X Nat \X Nat)
Locations == {<<>>} \cup (Nat \X Nat)
Record ==
  [cpu : CpuIds, mem : BOOLEAN, filt : BOOLEAN, channel : Nat \cup {-1}, misc : Locations,
   uc : BOOLEAN, addrv : BOOLEAN, page : Pages, corr : Nat, timed : BOOLEAN, socketid : Nat]
ASSUME RecordsAssumption == Records \subseteq Record

Sockets == {m.socketid : m \in Records}
DimmIds == {<<m.socketid, m.channel, -1>> : m \in {m \in Records : m.channel # -1}}
           \cup {<<m.socketid, m.misc[1], m.misc[2]>> : m \in {m \in Records : m.misc # <<>>}}
AllIds == DimmIds \cup {<<s, -1, -1>> : s \in Sockets}

\* A rate as it is read from the file; an option that is not given is -1.
Rates == [cap : Nat, cunit : STRING, t : Nat, tunit : STRING]
ASSUME ConfigsAssumption ==
  \A f \in Configs :
    /\ {f.dimm_ce, f.dimm_uc, f.sock_ce, f.sock_uc, f.page_ce} \subseteq Rates
    /\ f.action \in {"off", "account", "soft", "hard", "soft-then-hard"}
    /\ f.dmi \in Seq({<<>>} \cup (Nat \X Nat \X Nat))

\* The entries there can be: of DIMMs that a record or the DMI table names.
EntryIds ==
  AllIds \cup UNION {{f.dmi[n] : n \in {n \in 1 .. Len(f.dmi) : f.dmi[n] # <<>>}} : f \in Configs}
ASSUME HashAssumption == \A id \in EntryIds : dimmhash(id) \in 0 .. SHASH - 1

ASSUME BoundsAssumption == MaxRecords \in Nat /\ MaxTime \in Nat

VARIABLES
  conf,      \* the configuration, [on |-> FALSE] before it is read
  cpu,       \* type, forced, memory_error_support, checked
  db,        \* DIMMs and sockets
  pdb,       \* pages
  now,       \* time(NULL)
  nread,     \* records read so far
  latest     \* history: the last of them

avars == <<conf, cpu, db, pdb, now, nread, latest>>

\* parse_cpuid() yields family and model; select_intel_cputype():
select_intel_cputype(family, model) ==
  CASE family = 15 /\ model = 6 -> "tulsa"
    [] family = 15 /\ model # 6 -> "p4"
    [] family = 6 /\ model < 15 -> "p6old"
    [] family = 6 /\ model \in {15, 23} -> "core2"
    [] family = 6 /\ model = 29 -> "dunnington"
    [] family = 6 /\ model \in {26, 44, 30} -> "nehalem"
    [] family = 6 /\ model \in {46, 47} -> "xeon75xx"
    [] family = 6 /\ model = 42 -> "sandy_bridge"
    [] family = 6 /\ model = 45 -> "sandy_bridge_ep"
    [] family = 6 /\ model > 26 /\ model \notin {29, 30, 42, 44, 45, 46, 47} -> "intel"
    [] family > 6 /\ family # 15 -> "intel"
    [] family = 6 -> "p6old"
    [] OTHER -> "generic"

\* Its side effect: memory controllers that report errors.
SupportsMemoryErrors(family, model) == family = 6 /\ model >= 26 /\ model # 28

IntelTypes == {"p6old", "core2", "nehalem", "dunnington", "tulsa", "p4", "intel", "xeon75xx",
               "sandy_bridge_ep", "sandy_bridge"}

Seen(c, id) ==
  [c EXCEPT !.support = @ \/ (id[1] = "intel" /\ SupportsMemoryErrors(id[2], id[3]))]

setup_cpuid(id) ==
  CASE id[1] = "intel" -> select_intel_cputype(id[2], id[3])
    [] id[1] = "amd" /\ id[2] \in 15 .. 17 -> "k8"
    [] OTHER -> "generic"

\* check_cpu() reads /proc/cpuinfo once, for the vendors it knows.
check_cpu(c) ==
  IF c.checked THEN c
  ELSE IF c.forced \/ HostCpu = <<>> \/ setup_cpuid(HostCpu) = "generic" THEN [c EXCEPT !.checked = TRUE]
  ELSE Seen([c EXCEPT !.checked = TRUE, !.type = setup_cpuid(HostCpu)], HostCpu)

\* mce_cpuid(): the CPU of the record, else the one of this machine.
mce_cpuid(c, m) ==
  IF m.cpu # <<>>
  THEN IF c.forced THEN Seen(c, m.cpu) ELSE Seen([c EXCEPT !.type = setup_cpuid(m.cpu)], m.cpu)
  ELSE IF c.type = "generic" /\ ~c.forced THEN check_cpu(c) ELSE c

\* mce_prepare(): a record that has a time gets the time of its reading; one
\* that has none keeps 0.
Stamped(m, t) ==
  LET time == IF m.timed THEN t ELSE 0
  IN  [f \in DOMAIN m \cup {"time"} |-> IF f = "time" THEN time ELSE m[f]]

\* A mutant: the error is put on the DIMM the error code names.
LocationOfCode(type, m) == <<m.channel, -1>>

\* nehalem_memerr_misc() replaces what the error code says.
Location(type, m) ==
  IF type = "nehalem" /\ m.misc # <<>> THEN m.misc ELSE <<m.channel, -1>>

\* intel_memory_error(): both databases.  Bit 12 of the error code is not
\* masked.  corr is 0 unless the record is long enough to hold mcgcap and
\* that says the count is kept; no CPU type sets channel[1] at this commit.
intel_memory_error(type, m, kernel) ==
  LET loc  == Location(type, m)
      corr == IF conf.recordlen = "full" THEN m.corr ELSE 0
      db1  == memory_error(db, conf, m, loc[1], loc[2], corr, now)
  IN  IF type \in IntelTypes /\ m.mem /\ ~m.filt
      THEN account_page_error(pdb, db1, conf, m, loc[1], loc[2], kernel, now)
      ELSE [pdb |-> pdb, db |-> db]

\* The options that force a CPU: --cpu with a name, which intel_cpu_init()
\* looks at; --k8, --p4, --generic, --core2, which it does not; --intel-cpu with
\* family and model.  A CPU that is not known ends the program.
modifier(c, opt) ==
  CASE opt = <<>> -> c
    [] opt # <<>> /\ opt[1] = "--cpu" ->
         [c EXCEPT !.type = opt[2], !.forced = TRUE,
                   !.support = @ \/ opt[2] \in {"nehalem", "xeon75xx", "intel", "sandy_bridge",
                                                "sandy_bridge_ep"}]
    [] opt # <<>> /\ opt[1] = "--intel-cpu" ->
         Seen([c EXCEPT !.type = select_intel_cputype(opt[2], opt[3]), !.forced = TRUE],
              <<"intel", opt[2], opt[3]>>)
    [] OTHER -> [c EXCEPT !.type = opt[2], !.forced = TRUE]

AInit ==
  /\ conf = [on |-> FALSE]
  /\ cpu = [type |-> "generic", forced |-> FALSE, support |-> FALSE, checked |-> FALSE]
  /\ db = EmptyDb /\ pdb = EmptyPageDb
  /\ now = 1 /\ nread = 0 /\ latest = <<>>

\* The daemon's start: check_cpu(), prefill_memdb() with memdb_config(), and
\* page_setup().  A tracking option that is not given (-1) means: if the CPU
\* reports memory errors.
Setup ==
  /\ ~conf.on
  /\ \E f \in Configs :
       LET c  == check_cpu(modifier(cpu, f.cpu))
           Bool(n) == IF n = -1 THEN c.support ELSE n = 1
           Conf(rate) == bucket_conf_init(rate, NoBucketConf)
       IN  /\ cpu' = c
           /\ conf' = [on |-> TRUE, recordlen |-> f.recordlen, filter_bogus |-> f.filter,
                       memdb_enabled |-> Bool(f.dimm), sockdb_enabled |-> Bool(f.socket),
                       dimms |-> [ce |-> Conf(f.dimm_ce), uc |-> Conf(f.dimm_uc)],
                       sockets |-> [ce |-> Conf(f.sock_ce), uc |-> Conf(f.sock_uc)],
                       page |-> Conf(f.page_ce), offline |-> page_setup(f.action, f.sysfs)]
           /\ db' = IF Bool(f.dimm) THEN prefill_memdb(db, f.dmi, now) ELSE db
  /\ UNCHANGED <<pdb, now, nread, latest>>

\* One record of process(): mce_prepare(), then mce_filter() - nothing is
\* counted when --no-filter is given.  The outcome of offlining is the
\* kernel's.
Process(m, kernel) ==
  /\ conf.on /\ nread < MaxRecords
  /\ LET c == mce_cpuid(cpu, m)
         r == intel_memory_error(c.type, Stamped(m, now), kernel)
     IN  /\ cpu' = c
         /\ IF conf.filter_bogus THEN db' = r.db /\ pdb' = r.pdb ELSE UNCHANGED <<db, pdb>>
  /\ nread' = nread + 1 /\ latest' = m
  /\ UNCHANGED <<conf, now>>

Tick == conf.on /\ now < MaxTime /\ now' = now + 1 /\ UNCHANGED <<conf, cpu, db, pdb, nread, latest>>

ANext ==
  \/ Setup
  \/ \E m \in Records, kernel \in Kernels : Process(m, kernel)
  \/ Tick

ASpec == AInit /\ [][ANext]_avars
-----------------------------------------------------------------------------

\* All buckets in use with their configurations: a DIMM's, a whole socket's.
TableOf(id) == IF id[2] = -1 /\ id[3] = -1 THEN conf.sockets ELSE conf.dimms
Entries == UNION {{db.dimms[h][i] : i \in 1 .. Len(db.dimms[h])} : h \in 0 .. SHASH - 1}
Buckets ==
  {<<pdb.page[p].ce, conf.page>> : p \in Pages}
  \cup UNION {{<<md.ce, TableOf(md.id).ce>>, <<md.uc, TableOf(md.id).uc>>} : md \in Entries}

\* The chains: dump_memory_errors() allocates md_numdimms pointers and stores
\* one for each entry, so the two must agree, and no DIMM may be there twice.
DimmsCounted ==
  LET all == AllDimms(db)
  IN  /\ Len(all) = db.numdimms
      /\ IsInjective([i \in DOMAIN all |-> all[i].id])
      /\ \A i \in DOMAIN all : all[i].ce.count \in Nat /\ all[i].uc.count \in Nat

\* No bucket holds more than was put into it since it last was full.
BucketsFed == conf.on => \A b \in Buckets : b[1].bucket.count <= Len(b[1].since)

\* The pages are printed in ascending order, each once, though their tree is
\* never rebalanced.
PagesAscend ==
  LET walk == DumpedPages(pdb) IN \A i \in 2 .. Len(walk) : walk[i - 1] < walk[i]

(* The databases hold together: the DIMMs that memdb.c:322-336 dumps are   *)
(* those it counted, the pages come out of the tree in order, and the      *)
(* buckets agree with what was put into them.                              *)
DatabasesHold == DimmsCounted /\ BucketsFed /\ PagesAscend

(* A burst is not missed: the periods of a bucket start anywhere, so up to *)
(* 2 * capacity - 2 errors may come within one agetime and be split by its *)
(* end; but of 2 * capacity - 1 errors within less than agetime one makes  *)
(* the bucket full, whatever came before and although records without a    *)
(* time do not age it.                                                     *)
BurstTriggers ==
  conf.on => \A b \in Buckets :
    LET cap == b[2].capacity
    IN  cap > 0 => \A i \in DOMAIN b[1].since :
          i + 2 * cap - 2 \in DOMAIN b[1].since =>
            b[1].since[i + 2 * cap - 2] - b[1].since[i] >= b[2].agetime

\* What may have been done about a page, in order.
Histories ==
  CASE ~conf.on -> {<<>>}
    [] conf.on /\ conf.offline = "soft" -> {<<>>, <<"trigger", "soft">>, <<"trigger", "soft-failed">>}
    [] conf.on /\ conf.offline = "hard" -> {<<>>, <<"trigger", "hard">>, <<"trigger", "hard-failed">>}
    [] conf.on /\ conf.offline = "soft-then-hard" ->
         {<<>>, <<"trigger", "soft">>, <<"trigger", "soft-failed", "hard">>,
          <<"trigger", "soft-failed", "hard-failed">>}
    [] OTHER -> UNION {[1 .. n -> {"trigger"}] : n \in 0 .. MaxRecords}

\* What the history of a page means for it: a trigger alone changes nothing.
Outcome(did) ==
  LET last == IF did = <<>> THEN "trigger" ELSE Last(did)
  IN  CASE last = "trigger" -> "online"
        [] last \in {"soft", "hard"} -> "offline"
        [] OTHER -> "offline-failed"

(* A page is taken offline at most once and triggers at most once then:    *)
(* processes are killed (hard) only when that is configured, and with      *)
(* soft-then-hard only after the kernel refused the softer way; and what   *)
(* is printed about the page is how the last attempt ended.                *)
OfflinedOnce ==
  \A p \in Pages :
    pdb.page[p].did \in Histories /\ pdb.page[p].offlined = Outcome(pdb.page[p].did)

\* The accounts as the lookup of a DIMM and the dump of the pages show them.
Counted(d, a, kind) ==
  LET found == {md \in ToSet(d.dimms[dimmhash(a)]) : md.id = a}
  IN  IF found = {} THEN 0 ELSE (CHOOSE md \in found : TRUE)[kind].count
Shown(kind) == [a \in AllIds |-> Counted(db, a, kind)]
ShownPages ==
  LET walk == ToSet(DumpedPages(pdb)) IN [p \in Pages |-> IF p \in walk THEN pdb.page[p].ce.count ELSE 0]

\* What the configuration and the length of the records allow to be kept.
KindsKept ==
  IF ~conf.on \/ ~conf.filter_bogus THEN {}
  ELSE {k \in {"dimm", "socket", "page", "lost"} :
          CASE k = "dimm"   -> conf.memdb_enabled /\ conf.recordlen # "short"
            [] k = "socket" -> conf.sockdb_enabled /\ conf.recordlen # "short"
            [] k = "page"   -> conf.offline # "off"
            [] k = "lost"   -> conf.recordlen = "full"}

Ledger == INSTANCE ErrorLedger
            WITH kept <- KindsKept, type <- cpu.type, MemoryTypes <- IntelTypes,
                 page <- ShownPages, ce <- Shown("ce"), uc <- Shown("uc")

(* The hash table, the tree and the buckets implement the ledger: every    *)
(* record that is read is one error more on each account it belongs to and *)
(* on no other, and no error that was counted is lost by what comes later. *)
ImplementsLedger == Ledger!Spec
=============================================================================
