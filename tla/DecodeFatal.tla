---------------------------- MODULE DecodeFatal -----------------------------
(***************************************************************************)
(* mcelog --ascii: decodefatal() puts the lines that a dying kernel printed *)
(* together to machine check records and decodes each one.  There is no    *)
(* mark between two records: any other text ends one.                      *)
(*                                                                         *)
(* A line is a sequence of items as the loop meets them after skipgunk(): a *)
(* keyword with the number n of conversions that sscanf() makes, "HARDWARE *)
(* ERROR", or other text; a blank rest is no item.  The value of a field is *)
(* the number of the line it came from.                                    *)
(***************************************************************************)
EXTENDS Naturals, Sequences, SequencesExt, FiniteSetsExt

CONSTANTS LogLines,  \* the lines there may be
          MaxLines   \* bound: lines of a log

\* The fields in the order of struct mce.
StructMce == <<"status", "misc", "addr", "mcgstatus", "ip", "tsc", "time", "cpuvendor", "cpuid",
               "cs", "bank", "cpu", "socketid", "apicid", "mcgcap">>

\* What the conversions of a keyword's format store; "mce" is the one-line
\* form "CPU c: Machine Check Exception: ...".
Conversions ==
  [mce |-> <<"cpu", "mcgstatus", "bank", "status">>, cpu |-> <<"cpu", "bank">>,
   status |-> <<"status">>, mcgstatus |-> <<"mcgstatus">>, rip |-> <<"cs", "ip", "symbol">>,
   tsc |-> <<"tsc">>, addr |-> <<"addr">>, misc |-> <<"misc">>, time |-> <<"time">>,
   processor |-> <<"cpuvendor", "cpuid">>, mcgcap |-> <<"mcgcap">>, apicid |-> <<"apicid">>,
   socketid |-> <<"socketid">>]

IsKey(it) == it.key \in DOMAIN Conversions

\* What a line can hold: at most the conversions its keyword's format has.
ASSUME LinesAssumption ==
  /\ MaxLines \in Nat
  /\ \A line \in LogLines :
       /\ line \in Seq([key : DOMAIN Conversions \cup {"HARDWARE ERROR", "text"}, n : Nat])
       /\ \A j \in 1 .. Len(line) : IsKey(line[j]) => line[j].n <= Len(Conversions[line[j].key])

VARIABLES log,    \* the lines read so far
          rec,    \* the record that is being put together
          dumps,  \* the records decoded
          eof

fatalVars == <<log, rec, dumps, eof>>

Stored(it) == ToSet(SubSeq(Conversions[it.key], 1, it.n))

\* The vendor goes through a local variable.
Assigned(it) == IF it.key = "processor" /\ it.n < 2 THEN {} ELSE Stored(it)

\* RIP does without the symbol.
Missing(it) == it.n < (IF it.key = "rip" THEN 2 ELSE Len(Conversions[it.key]))

\* FIELD(): what makes recordlen grow.  The branch for the status in the one-line
\* form is never taken, n > 2 hides n > 3.
FieldsCounted(it) ==
  CASE it.key = "mce" -> {f \in {"mcgstatus"} : it.n > 1} \cup {f \in {"bank"} : it.n > 2}
    [] it.key = "cpu" -> {f \in {"bank"} : it.n = 2}
    [] it.key = "rip" -> {f \in {"ip"} : it.n >= 2}
    [] OTHER -> {f \in Stored(it) : ~Missing(it)}

endof_field(f) == CHOOSE i \in DOMAIN StructMce : StructMce[i] = f

\* The format of RIP ends in a '}' that %100s has eaten: %n is never reached.
\* After a format that failed, too, the rest of the line is dropped.
Continues(it) == ~Missing(it) /\ it.key # "rip"

Restart == [m |-> [f \in ToSet(StructMce) |-> 0], missing |-> FALSE, data |-> FALSE,
            disclaimer_seen |-> FALSE, recordlen |-> 0, next |-> FALSE]

\* A mutant: the record is not begun anew after other text.
RestartKeeps(r) == [r EXCEPT !.data = FALSE, !.missing = FALSE, !.next = FALSE]

Begun(r) == Restart

dump_mce_final(done, r) == Append(done, r)

\* A keyword in line number at.
KeyTurn(r, it, at) ==
  [m |-> [f \in ToSet(StructMce) |-> IF f \in Assigned(it) THEN at ELSE r.m[f]],
   missing |-> r.missing \/ Missing(it),
   data |-> r.data \/ it.n > 0,
   disclaimer_seen |-> r.disclaimer_seen,
   recordlen |-> Max({r.recordlen} \cup {endof_field(f) : f \in FieldsCounted(it)}),
   next |-> Continues(it)]

\* One turn of the loop, for an item in line number at.
Parse(st, it, at) ==
  CASE IsKey(it) -> [rec |-> KeyTurn(st.rec, it, at), dumps |-> st.dumps]
    [] it.key = "HARDWARE ERROR" -> [st EXCEPT !.rec = [@ EXCEPT !.disclaimer_seen = TRUE, !.next = FALSE]]
    [] it.key = "text" /\ st.rec.data -> [rec |-> Begun(st.rec), dumps |-> dump_mce_final(st.dumps, st.rec)]
    [] OTHER -> [st EXCEPT !.rec.next = FALSE]

\* The turns for line number at, as long as next > 0.
Parsed(st, line, at) ==
  LET turn[j \in 0 .. Len(line)] ==
        IF j = 0 THEN [st EXCEPT !.rec.next = TRUE]
        ELSE IF turn[j - 1].rec.next THEN Parse(turn[j - 1], line[j], at) ELSE turn[j - 1]
  IN  turn[Len(line)]

\* getdelim() and the turns for one line.
ReadLine(line) ==
  /\ ~eof /\ Len(log) < MaxLines
  /\ log' = Append(log, line)
  /\ LET st == Parsed([rec |-> rec, dumps |-> dumps], line, Len(log'))
     IN rec' = [st.rec EXCEPT !.next = FALSE] /\ dumps' = st.dumps
  /\ UNCHANGED eof

\* The last record.
EndOfLog ==
  /\ ~eof /\ eof' = TRUE
  /\ dumps' = IF rec.data THEN dump_mce_final(dumps, rec) ELSE dumps
  /\ UNCHANGED <<log, rec>>

FatalInit == log = <<>> /\ rec = Restart /\ dumps = <<>> /\ eof = FALSE

FatalNext == EndOfLog \/ \E line \in LogLines : ReadLine(line)

FatalSpec == FatalInit /\ [][FatalNext]_fatalVars

-----------------------------------------------------------------------------
(* The records of a log, from its lines alone.                             *)

\* How far a line is understood.
Reached(line) ==
  {i \in DOMAIN line : \A j \in 1 .. i - 1 : IsKey(line[j]) /\ Continues(line[j])}

Items(k) == {log[k][i] : i \in Reached(log[k])}
KeyItems(k) == {it \in Items(k) : IsKey(it)}
HasText(k) == \E it \in Items(k) : it.key = "text"
Useful(k) == \E it \in KeyItems(k) : it.n > 0

\* The stretches of lines that a text ends, if they are of use.
RecordEnds == {k \in DOMAIN log : HasText(k) \/ k = Len(log)}
Stretch(k) == {l \in 1 .. k : \A e \in RecordEnds : e < k => e < l}
RecordsOfLog == {Stretch(k) : k \in {e \in RecordEnds : \E l \in Stretch(e) : Useful(l)}}

(* Every field that the log gives is decoded in the record it belongs to,  *)
(* and no record has a field of another (mcelog.c:575-717: the fields are  *)
(* kept in one record from line to line and cleared at each restart); a    *)
(* record whose fields were incomplete says so; and its length covers each *)
(* field that was read whole, so that dump_mce() prints it.                *)
RecordsWhole ==
  eof =>
    /\ Len(dumps) = Cardinality(RecordsOfLog)
    /\ \A n \in DOMAIN dumps :
         LET stretch == CHOOSE s \in RecordsOfLog :
                          Cardinality({t \in RecordsOfLog : Max(t) <= Max(s)}) = n
             From(f) == {l \in stretch : \E it \in KeyItems(l) : f \in Assigned(it)}
         IN  /\ \A f \in ToSet(StructMce) :
                  dumps[n].m[f] = IF From(f) = {} THEN 0 ELSE Max(From(f))
             /\ (\E l \in stretch : \E it \in KeyItems(l) : Missing(it)) => dumps[n].missing
             /\ \A l \in stretch : \A it \in KeyItems(l) :
                  ~Missing(it) => \A f \in Assigned(it) \ {"cpu", "cs", "symbol"} :
                                    endof_field(f) <= dumps[n].recordlen
=============================================================================
