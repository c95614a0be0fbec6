-------------------------------- MODULE MemDb -------------------------------
(***************************************************************************)
(* mcelog/leaky-bucket.c: how many errors in how much time are too many.   *)
(* A configuration is a record [capacity, agetime], a bucket a record      *)
(* [count, excess, tstamp].  The aging of the code computes in double      *)
(* precision and truncates; for the numbers of a configuration that is     *)
(* the integer quotient below.                                             *)
(*                                                                         *)
(* mcelog/memdb.c: errors per DIMM and per socket in a hash table.  A DIMM *)
(* is identified by <<socket, channel, dimm>>, -1 standing for unknown;    *)
(* the entry <<socket, -1, -1>> is that of the whole socket.  Every        *)
(* operator takes the database and returns it changed.                     *)
(*                                                                         *)
(* "since" is a history of the model, not of the code: the times of the    *)
(* errors that were put into a bucket since it last was full.              *)
(***************************************************************************)
EXTENDS Integers, Sequences, SequencesExt

CONSTANTS
  SHASH,         \* number of chains, 17 in the code
  dimmhash(_)    \* FNV-1a of the three numbers, modulo SHASH

ASSUME SHASHAssumption == SHASH \in Nat \ {0}

-----------------------------------------------------------------------------
(* leaky-bucket.c                                                          *)

\* A bucket_conf nobody configured: capacity 0 switches the bucket off.
NoBucketConf == [capacity |-> 0, agetime |-> 0]

\* Seconds per unit; the switch has no breaks, so the factors of the units
\* multiply up.  Any other unit, 's' too, is refused (0 here).
timeconv(unit) ==
  CASE unit = "d" -> 24 * 3600 * 60
    [] unit = "h" -> 3600 * 60
    [] unit = "m" -> 60
    [] unit = ""  -> 1
    [] OTHER      -> 0

\* Factor of the unit of a capacity, 0 when it is refused.
CapacityUnit(unit) ==
  CASE unit = "g" -> 1000 * 1000 * 1000
    [] unit = "m" -> 1000 * 1000
    [] unit = "k" -> 1000
    [] unit = ""  -> 1
    [] OTHER      -> 0

\* A rate is "cap cunit / t tunit".  sscanf() finds three of the four fields
\* when only the unit of the time is missing, and that is refused.
parse_rate_ok(rate) ==
  /\ rate.cunit = "" \/ rate.tunit # ""
  /\ rate.t # 0 /\ rate.cap # 0
  /\ CapacityUnit(rate.cunit) # 0
  /\ timeconv(rate.tunit) # 0

\* bucket_conf_init() with parse_rate(): a refused rate leaves the old values.
bucket_conf_init(rate, old) ==
  IF parse_rate_ok(rate)
  THEN [capacity |-> rate.cap * CapacityUnit(rate.cunit),
        agetime  |-> rate.t * timeconv(rate.tunit)]
  ELSE old

bucket_init(now) == [count |-> 0, excess |-> 0, tstamp |-> now]

\* A mutant: aging forgets to start the next period.
BucketAgeKeepsStamp(c, b, now) ==
  IF now - b.tstamp >= c.agetime THEN [b EXCEPT !.count = 0, !.excess = 0] ELSE b

\* After agetime seconds the errors of that time are taken out again.
bucket_age(c, b, now) ==
  LET diff == now - b.tstamp
      age  == (diff * c.capacity) \div c.agetime
  IN  IF diff >= c.agetime
      THEN [count  |-> IF age > b.count THEN 0 ELSE b.count - age,
            excess |-> 0, tstamp |-> now]
      ELSE b

\* __bucket_account(): is the bucket full, and what it holds then.
bucket_account(c, b, inc, t) ==
  LET aged  == bucket_age(c, b, t)
      count == aged.count + inc
  IN  IF c.capacity = 0 THEN [full |-> FALSE, bucket |-> b]
      ELSE IF count >= c.capacity
      THEN [full |-> TRUE,
            bucket |-> [count |-> 0, excess |-> aged.excess + count, tstamp |-> aged.tstamp]]
      ELSE [full |-> FALSE, bucket |-> [aged EXCEPT !.count = count]]

-----------------------------------------------------------------------------
(* memdb.c                                                                 *)

\* struct err_type of an entry that was just made.
NewErrors(now) == [count |-> 0, bucket |-> bucket_init(now), since |-> <<>>]

\* inc errors at time t, the clock being now; whether the bucket got full.
Account(et, c, inc, t, now) ==
  LET r == bucket_account(c, et.bucket, inc, t)
  IN  [full |-> r.full,
       et   |-> [count  |-> et.count + inc, bucket |-> r.bucket,
                 since  |-> IF r.full \/ c.capacity = 0 THEN <<>>
                            ELSE et.since \o [i \in 1 .. inc |-> now]]]

NewDimm(id, now) ==
  [id |-> id, ce |-> NewErrors(now), uc |-> NewErrors(now), memdev |-> FALSE]

EmptyDb == [dimms |-> [h \in 0 .. SHASH - 1 |-> <<>>], numdimms |-> 0, runs |-> 0]

\* Place of the entry in its chain, 0 when there is none.
Find(db, id) == SelectInSeq(db.dimms[dimmhash(id)], LAMBDA md : md.id = id)

\* A mutant: a new entry is not counted.
get_memdimm_uncounted(db, id, now) ==
  IF Find(db, id) # 0 THEN db
  ELSE [db EXCEPT !.dimms[dimmhash(id)] = <<NewDimm(id, now)>> \o @]

\* get_memdimm(): the database with an entry for id, a new one in front.
get_memdimm(db, id, now) ==
  IF Find(db, id) # 0 THEN db
  ELSE [db EXCEPT !.dimms[dimmhash(id)] = <<NewDimm(id, now)>> \o @,
                  !.numdimms = @ + 1]

Entry(db, id) == db.dimms[dimmhash(id)][Find(db, id)]
SetEntry(db, id, md) == [db EXCEPT !.dimms[dimmhash(id)][Find(db, id)] = md]

\* memdb_trigger(): the only effect a bucket that got full has here.
memdb_trigger(db, full) == IF full THEN [db EXCEPT !.runs = @ + 1] ELSE db

\* account_over(): the errors that were lost are taken for corrected ones.
account_over(db, t, id, m, corr_err_cnt, now) ==
  LET md == Entry(db, id)
      r  == Account(md.ce, t.ce, corr_err_cnt - 1, m.time, now)
  IN  IF corr_err_cnt > 1
      THEN memdb_trigger(SetEntry(db, id, [md EXCEPT !.ce = r.et]), r.full)
      ELSE db

account_memdb(db, t, id, m, now) ==
  LET md == Entry(db, id)
      u  == Account(md.uc, t.uc, 1, m.time, now)
      c  == Account(md.ce, t.ce, 1, m.time, now)
  IN  IF m.uc
      THEN memdb_trigger(SetEntry(db, id, [md EXCEPT !.uc = u.et]), u.full)
      ELSE memdb_trigger(SetEntry(db, id, [md EXCEPT !.ce = c.et]), c.full)

\* memory_error(): the DIMM when one is known, and the socket.
memory_error(db, conf, m, ch, dimm, corr_err_cnt, now) ==
  LET id   == <<m.socketid, ch, dimm>>
      sid  == <<m.socketid, -1, -1>>
      db1  == IF conf.memdb_enabled /\ (ch # -1 \/ dimm # -1)
              THEN account_memdb(get_memdimm(db, id, now), conf.dimms, id, m, now)
              ELSE db
      over == account_over(get_memdimm(db1, sid, now), conf.sockets, sid, m, corr_err_cnt, now)
  IN  IF conf.recordlen = "short" THEN db
      ELSE IF conf.sockdb_enabled THEN account_memdb(over, conf.sockets, sid, m, now)
      ELSE db1

\* One DMI record of prefill_memdb(): the first one for a DIMM names it; one
\* whose locator does not parse (<<>>) or that comes twice is left out.
Prefill(db, id, now) ==
  IF id = <<>> THEN db
  ELSE LET db1 == get_memdimm(db, id, now)
       IN  SetEntry(db1, id, [Entry(db1, id) EXCEPT !.memdev = TRUE])

\* The loop of prefill_memdb() over dmi_dimms[].
prefill_memdb(db, dmi_dimms, now) ==
  LET filled[n \in 0 .. Len(dmi_dimms)] ==
        IF n = 0 THEN db ELSE Prefill(filled[n - 1], dmi_dimms[n], now)
  IN  filled[Len(dmi_dimms)]

\* The entries in the order dump_memory_errors() collects them.
AllDimms(db) ==
  LET da[h \in 0 .. SHASH] == IF h = 0 THEN <<>> ELSE da[h - 1] \o db.dimms[h - 1]
  IN  da[SHASH]
=============================================================================
