---------------------------- MODULE McelogDaemon ----------------------------
(***************************************************************************)
(* mcelog as a daemon: the event loop with the socket for clients          *)
(* (server.c), the clients (client.c), the machine checks, and the         *)
(* triggers they run (trigger.c).  A callback is one step, but for the     *)
(* fork of a trigger; clients and children go on between the steps.        *)
(*                                                                         *)
(* A connection is named by its client: fd and struct clientcon have its   *)
(* number, and a client that hung up may connect again.  An answer is a    *)
(* sequence of pieces, the least the socket takes at a time.               *)
(*                                                                         *)
(* The table of descriptors (eventloop.c): pollfds[] and pollcbs[] are one *)
(* sequence of MAX_POLLFD slots [fd, events, revents, cb, data], of which  *)
(* the first max are in use.  What is behind them is what earlier users    *)
(* left, revents too.                                                      *)
(***************************************************************************)
EXTENDS TriggerChildren, Sequences

CONSTANT MAX_POLLFD     \* 10 in the code
ASSUME MaxPollAssumption == MAX_POLLFD \in Nat \ {0, 1}

NoEvents == {}
EmptySlot == [fd |-> 0, events |-> NoEvents, revents |-> NoEvents, cb |-> "none", data |-> 0]
EmptyTable == [max |-> 0, slot |-> [k \in 1 .. MAX_POLLFD |-> EmptySlot]]

Full(t) == t.max >= MAX_POLLFD

\* register_pollcb() where there is room: revents stays as it was.
register_pollcb(t, fd, events, cb, data) ==
  [max  |-> t.max + 1,
   slot |-> [t.slot EXCEPT ![t.max + 1] =
               [@ EXCEPT !.fd = fd, !.events = events, !.cb = cb, !.data = data]]]

\* A mutant: pollfds[] moves down, pollcbs[] does not.
UnregisterFdsOnly(t, i) ==
  [max  |-> t.max - 1,
   slot |-> [k \in 1 .. MAX_POLLFD |->
               IF k \in i .. t.max - 1
               THEN [t.slot[k + 1] EXCEPT !.cb = t.slot[k].cb, !.data = t.slot[k].data]
               ELSE t.slot[k]]]

\* unregister_pollcb(): those behind move down, the last slot keeps its copy.
unregister_pollcb(t, i) ==
  [max  |-> t.max - 1,
   slot |-> [k \in 1 .. MAX_POLLFD |-> IF k \in i .. t.max - 1 THEN t.slot[k + 1] ELSE t.slot[k]]]

\* ppoll(): what is ready of each slot in use is in its revents.
Polled(t, ready) ==
  [t EXCEPT !.slot = [k \in 1 .. MAX_POLLFD |->
     IF k \in DOMAIN ready THEN [t.slot[k] EXCEPT !.revents = ready[k]] ELSE t.slot[k]]]

Happened(t) == {k \in 1 .. t.max : t.slot[k].revents # NoEvents}

-----------------------------------------------------------------------------
CONSTANTS
  Clients,       \* positive numbers
  Allowed,       \* those access_check() lets in
  Commands,      \* command -> its answer, in pieces
  Scripts,       \* sequences of commands a client may write at once
  MaxEvents      \* bound: what clients and machine checks do

\* Pieces of text.  The provers do not know that these two words are strings.
Pieces == STRING \cup {"busy", "denied"}

ASSUME ClientsAssumption ==
  /\ Clients \subseteq Nat \ {0} /\ Allowed \subseteq Clients
  /\ \A line \in DOMAIN Commands : Commands[line] \in Seq(Pieces)
  /\ Scripts \subseteq Seq(DOMAIN Commands)

VARIABLES
  status,        \* "start", "up", "exit"
  table,
  pass,          \* poll_callbacks(): [k, n], n = 0 in ppoll()
  backlog,       \* clients that wait for accept()
  conn,          \* client -> its end of the connection
  cc,            \* client -> struct clientcon
  mces,          \* machine checks in /dev/mcelog
  failed,        \* an assertion failed, or a freed clientcon was used
  events         \* what the environment did so far

svars == <<status, table, pass, backlog, conn, cc, mces, failed, events>>
vars == <<svars, cvars>>

NoConn == [at |-> "out", asked |-> <<>>, in |-> <<>>, wire |-> <<>>, got |-> <<>>,
           chunk |-> <<>>, returned |-> FALSE]
NoCC == [state |-> "none", out |-> <<>>, outbuf |-> FALSE]
Idle == [k |-> 1, n |-> 0]
POLLIN == "POLLIN"
POLLOUT == "POLLOUT"
POLLHUP == "POLLHUP"

Init ==
  /\ status = "start"
  /\ table = EmptyTable /\ pass = Idle /\ backlog = <<>>
  /\ conn = [c \in Clients |-> NoConn] /\ cc = [c \in Clients |-> NoCC]
  /\ mces = 0 /\ failed = FALSE /\ events = 0
  /\ ChildInit
-----------------------------------------------------------------------------
\* server_ping() of the server that owns the socket: only "pong" will do, so
\* one whose table is full ("too busy") counts as dead.
server_ping(owner) == owner = "answers"

Listening == register_pollcb(EmptyTable, -1, {POLLIN}, "client_accept", 0)

\* server_setup() and the rest of main() up to eventloop().  The path of the
\* socket may be empty or too long; then there is no server.
Start ==
  /\ status = "start"
  /\ \E path \in {"", "long", "ok"}, owner \in {"none", "dead", "busy", "answers"} :
       LET t == IF path = "ok" THEN Listening ELSE EmptyTable
       IN  IF path = "ok" /\ server_ping(owner)
           THEN status' = "exit" /\ UNCHANGED table
           ELSE status' = "up" /\ table' = register_pollcb(t, -2, {POLLIN}, "process_mcefd", 0)
  /\ UNCHANGED <<pass, backlog, conn, cc, mces, failed, events, cvars>>

Running == status = "up" /\ ~aborted /\ ~failed /\ fork.at = "none"

\* What poll() finds for a slot.  A hangup is reported, asked for or not.
Ready(s) ==
  CASE s.cb = "client_accept" -> IF backlog # <<>> THEN {POLLIN} ELSE NoEvents
    [] s.cb = "process_mcefd" -> IF mces > 0 THEN {POLLIN} ELSE NoEvents
    [] OTHER -> LET hung == conn[s.fd].at = "hung"
                IN  (IF hung THEN {POLLHUP} ELSE {})
                    \cup (s.events \cap ({POLLOUT} \cup (IF hung \/ conn[s.fd].in # <<>> THEN {POLLIN} ELSE {})))

\* One turn of eventloop(): ppoll() returns with something.
Poll ==
  /\ Running /\ pass.n = 0
  /\ LET t == Polled(table, [k \in 1 .. table.max |-> Ready(table.slot[k])])
     IN  /\ Happened(t) # {}
         /\ table' = t /\ pass' = [k |-> 1, n |-> Cardinality(Happened(t))]
  /\ UNCHANGED <<status, backlog, conn, cc, mces, failed, events, cvars>>

\* poll_callbacks() at slot k; the loop ends at max or when n are done.
AtSlot(cb) ==
  /\ Running /\ pass.n > 0 /\ pass.k <= table.max
  /\ table.slot[pass.k].revents # NoEvents /\ table.slot[pass.k].cb = cb

Skip ==
  /\ Running /\ pass.n > 0
  /\ IF pass.k > table.max THEN pass' = Idle
     ELSE table.slot[pass.k].revents = NoEvents /\ pass' = [pass EXCEPT !.k = @ + 1]
  /\ UNCHANGED <<status, table, backlog, conn, cc, mces, failed, events, cvars>>

Called == IF pass.n = 1 THEN Idle ELSE [k |-> pass.k + 1, n |-> pass.n - 1]
-----------------------------------------------------------------------------
\* The server closes a connection; a client that hung up does not see it.
Left(co, note) ==
  IF co.at = "hung" THEN [co EXCEPT !.at = "out", !.wire = <<>>]
  ELSE [co EXCEPT !.at = "closed", !.wire = @ \o note]

\* client_accept().  setsockopt() may fail, or register_pollcb(): there may be no
\* room, or fcntl() may refuse.  Only the latter two send a word.
client_accept ==
  /\ AtSlot("client_accept") /\ pass' = Called
  /\ IF backlog = <<>> THEN UNCHANGED <<backlog, conn, cc, table>>
     ELSE LET c == Head(backlog)
          IN  /\ backlog' = Tail(backlog)
              /\ \/ /\ ~Full(table)
                    /\ table' = register_pollcb(table, c, {POLLIN}, "client_event", c)
                    /\ cc' = [cc EXCEPT ![c] = [NoCC EXCEPT !.state = "live"]]
                    /\ conn' = [conn EXCEPT ![c].at = IF @ = "queued" THEN "open" ELSE @]
                 \/ /\ \E note \in {<<>>, <<"busy">>} :
                         conn' = [conn EXCEPT ![c] = Left(@, note)]
                    /\ UNCHANGED <<cc, table>>
  /\ UNCHANGED <<status, mces, failed, events, cvars>>

\* What dispatch_commands() prints for the lines of one read.
dispatch_commands(lines) ==
  LET printed[n \in 0 .. Len(lines)] ==
        IF n = 0 THEN <<>> ELSE printed[n - 1] \o Commands[lines[n]]
  IN  printed[Len(lines)]

\* A mutant: outcur does not move, the rest is sent from the beginning.
SentAgain(d, n) == IF n < Len(d.out) THEN d ELSE [d EXCEPT !.out = <<>>, !.outbuf = FALSE]

\* A mutant: what one send() did not take is forgotten.
SentAll(d, n) == [d EXCEPT !.out = <<>>, !.outbuf = FALSE]

\* The POLLOUT part of client_event() after n pieces were sent: the buffer is
\* freed when it is empty.
Sent(d, n) ==
  LET rest == SubSeq(d.out, n + 1, Len(d.out))
  IN  [d EXCEPT !.out = rest, !.outbuf = d.outbuf /\ rest # <<>>]

\* client_input() and process_cmd(): no input is no command, and an empty
\* output is a buffer all the same.
Answered(c, d) == [d EXCEPT !.out = dispatch_commands(conn[c].in), !.outbuf = TRUE]

\* The last line of client_event().
Interest(d) == IF d.outbuf THEN {POLLOUT} ELSE {POLLIN}

\* The end of client_event() at "error".
Dropped(c, note) ==
  /\ table' = unregister_pollcb(table, pass.k)
  /\ cc' = [cc EXCEPT ![c] = [NoCC EXCEPT !.state = "freed"]]
  /\ conn' = [conn EXCEPT ![c] = [Left(@, note) EXCEPT !.in = <<>>]]
  /\ UNCHANGED failed

client_event ==
  /\ AtSlot("client_event") /\ pass' = Called
  /\ LET s  == table.slot[pass.k]
         c  == s.fd
         d  == cc[s.data]
         Kept(e, sent) ==
           /\ cc' = [cc EXCEPT ![s.data] = e]
           /\ table' = [table EXCEPT !.slot[pass.k].events = Interest(e)]
           /\ conn' = [conn EXCEPT ![c] =
                         [@ EXCEPT !.wire = conn[c].wire \o sent,
                                   !.in = IF POLLIN \in s.revents THEN <<>> ELSE conn[c].in]]
     IN  \/ /\ d.state # "live" \/ s.data # c
            /\ failed' = TRUE /\ UNCHANGED <<table, cc, conn>>
         \/ /\ d.state = "live" /\ s.data = c
            /\ POLLHUP \in s.revents \/ (POLLOUT \in s.revents /\ d.out # <<>> /\ conn[c].at = "hung")
            /\ Dropped(c, <<>>)
         \/ /\ d.state = "live" /\ s.data = c /\ s.revents = {POLLOUT}
            /\ IF d.out = <<>> THEN Kept(Sent(d, 0), <<>>)
               ELSE conn[c].at # "hung" /\ \E n \in DOMAIN d.out : Kept(Sent(d, n), SubSeq(d.out, 1, n))
            /\ UNCHANGED failed
         \/ /\ d.state = "live" /\ s.data = c /\ s.revents = {POLLIN} /\ d.outbuf
            /\ failed' = TRUE /\ UNCHANGED <<table, cc, conn>>
         \/ /\ d.state = "live" /\ s.data = c /\ s.revents = {POLLIN} /\ ~d.outbuf
            /\ IF conn[c].in # <<>> /\ c \notin Allowed THEN Dropped(c, <<"denied">>)
               ELSE Kept(Answered(c, d), <<>>) /\ UNCHANGED failed
  /\ UNCHANGED <<status, backlog, mces, events, cvars>>

\* process_mcefd(): the records are accounted, which may run a trigger.
process_mcefd ==
  /\ AtSlot("process_mcefd") /\ pass' = Called
  /\ failed' = (POLLIN \notin table.slot[pass.k].revents)
  /\ mces' = 0
  /\ run_trigger
  /\ UNCHANGED <<status, table, backlog, conn, cc, events>>

Loop == Start \/ Poll \/ Skip \/ client_accept \/ client_event \/ process_mcefd
Forking == status = "up" /\ ForkStep /\ UNCHANGED svars
Handler == (child_handler \/ MallocAborts) /\ UNCHANGED svars
Ends == \E p \in Pids : ChildEnds(p) /\ UNCHANGED svars
-----------------------------------------------------------------------------
\* ask_server() connects and writes its command; a client that is told it is
\* done, or was left, may come again.
Connect(c) ==
  /\ status = "up" /\ table.slot[1].cb = "client_accept" /\ events < MaxEvents
  /\ conn[c].at \in {"out", "closed"} /\ \A k \in 1 .. table.max : table.slot[k].fd # c
  /\ conn' = [conn EXCEPT ![c] = [NoConn EXCEPT !.at = "queued"]]
  /\ backlog' = Append(backlog, c)
  /\ events' = events + 1
  /\ UNCHANGED <<status, table, pass, cc, mces, failed, cvars>>

Ask(c) ==
  /\ events < MaxEvents /\ conn[c].at \in {"queued", "open"} /\ conn[c].asked = <<>>
  /\ \E cmds \in Scripts :
       conn' = [conn EXCEPT ![c] = [@ EXCEPT !.asked = cmds, !.in = cmds]]
  /\ events' = events + 1
  /\ UNCHANGED <<status, table, pass, backlog, cc, mces, failed, cvars>>

\* The loop of ask_server(): it ends when a read ends with "done".
Read(c) ==
  /\ conn[c].at \in {"queued", "open", "closed"} /\ conn[c].wire # <<>>
  /\ LET wire == conn[c].wire
     IN  conn' = [conn EXCEPT ![c] =
                    [@ EXCEPT !.wire = <<>>, !.got = conn[c].got \o wire, !.chunk = wire,
                              !.returned = conn[c].returned \/ IsSuffix(<<"do", "ne">>, wire)]]
  /\ UNCHANGED <<status, table, pass, backlog, cc, mces, failed, events, cvars>>

\* The client exits, whatever it waits for.
Hangup(c) ==
  /\ events < MaxEvents /\ conn[c].at \in {"queued", "open"}
  /\ conn' = [conn EXCEPT ![c] = [@ EXCEPT !.at = "hung", !.wire = <<>>]]
  /\ events' = events + 1
  /\ UNCHANGED <<status, table, pass, backlog, cc, mces, failed, cvars>>

MachineCheck ==
  /\ status = "up" /\ events < MaxEvents
  /\ mces' = mces + 1 /\ events' = events + 1
  /\ UNCHANGED <<status, table, pass, backlog, conn, cc, failed, cvars>>

Next ==
  \/ Loop \/ Forking \/ Handler \/ Ends \/ MachineCheck
  \/ \E c \in Clients : Connect(c) \/ Ask(c) \/ Read(c) \/ Hangup(c)

Spec == Init /\ [][Next]_vars
(* The daemon goes on when it can, and clients read what they are sent.    *)
FairSpec == Spec /\ WF_vars(Loop) /\ WF_vars(Forking) /\ \A c \in Clients : WF_vars(Read(c))
-----------------------------------------------------------------------------
InUse == {table.slot[k] : k \in 1 .. table.max}

(* The table is never mixed up, whoever comes and goes in a pass: every    *)
(* callback gets the clientcon of its own descriptor and never a freed     *)
(* one, every clientcon is in one slot, no answer is overwritten while it  *)
(* is sent, and no assertion of the server fails.                          *)
TableRight ==
  /\ ~failed
  /\ table.max <= MAX_POLLFD
  /\ \A k, l \in 1 .. table.max : k # l => table.slot[k].fd # table.slot[l].fd
  /\ \A s \in InUse : s.cb = "client_event" => s.data = s.fd /\ cc[s.fd].state = "live"
  /\ \A c \in Clients : cc[c].state = "live" => \E s \in InUse : s.fd = c
  /\ \A s \in InUse : s.cb = "client_event" /\ cc[s.fd].outbuf => s.events = {POLLOUT}

(* A client gets the answers of its commands, all of them in order, in     *)
(* however many pieces they are sent; what it gets besides is the refusal  *)
(* that ends its connection.                                               *)
AnswerRight(c) ==
  LET all == conn[c].got \o conn[c].wire
  IN  \/ IsPrefix(all, dispatch_commands(conn[c].asked))
      \/ all = <<"busy">> /\ conn[c].at = "closed"
      \/ all = <<"denied">> /\ conn[c].at = "closed" /\ c \notin Allowed

AnswersRight == \A c \in Clients : AnswerRight(c)

(* Every client that asks is answered in full or left: its connection is   *)
(* closed, or it hangs up itself, or the server has aborted.  It need not  *)
(* notice: ask_server() returns only if the last piece it reads ends with  *)
(* the whole of "done".                                                    *)
ClientsServed ==
  \A c \in Clients :
    conn[c].asked # <<>> ~>
      \/ conn[c].at # "open" /\ conn[c].at # "queued"
      \/ aborted
      \/ /\ conn[c].got = dispatch_commands(conn[c].asked)
         /\ IsSuffix(<<"do", "ne">>, conn[c].got) =>
              conn[c].returned \/ conn[c].chunk = <<"ne">>
-----------------------------------------------------------------------------
(* The inductive invariant behind TableRight and AnswersRight.             *)

PollEvents == {POLLIN, POLLOUT, POLLHUP}
Slots == [fd: Int, events: SUBSET PollEvents, revents: SUBSET PollEvents,
          cb: {"none", "client_accept", "process_mcefd", "client_event"}, data: Int]
Conns == [at: {"out", "queued", "open", "hung", "closed"},
          asked: Seq(DOMAIN Commands), in: Seq(DOMAIN Commands),
          wire: Seq(Pieces), got: Seq(Pieces), chunk: Seq(Pieces), returned: BOOLEAN]
Contexts == [state: {"none", "live", "freed"}, out: Seq(Pieces), outbuf: BOOLEAN]

TypeOK ==
  /\ status \in {"start", "up", "exit"} /\ failed \in BOOLEAN
  /\ table \in [max: 0 .. MAX_POLLFD, slot: [1 .. MAX_POLLFD -> Slots]]
  /\ pass \in [k: Nat \ {0}, n: Nat]
  /\ backlog \in Seq(Clients)
  /\ conn \in [Clients -> Conns] /\ cc \in [Clients -> Contexts]

\* A slot belongs to the server, the machine checks, or a client with its clientcon.
SlotRight(s) ==
  \/ s.cb = "client_accept" /\ s.fd = -1
  \/ s.cb = "process_mcefd" /\ s.fd = -2 /\ s.revents \subseteq {POLLIN}
  \/ /\ s.cb = "client_event" /\ s.fd \in Clients /\ s.data = s.fd
     /\ cc[s.fd].state = "live" /\ conn[s.fd].at \in {"open", "hung"}
     /\ s.events = Interest(cc[s.fd])

SlotsRight ==
  /\ ~failed
  /\ status = "start" => table = EmptyTable
  /\ \A k \in 1 .. table.max : SlotRight(table.slot[k])
  /\ \A k, l \in 1 .. table.max : k # l => table.slot[k].fd # table.slot[l].fd

\* A clientcon that lives has a slot; one without a buffer has nothing to send.
ContextsRight ==
  \A c \in Clients :
    /\ cc[c].state = "live" => \E k \in 1 .. table.max : table.slot[k].fd = c
    /\ cc[c].state # "live" => ~cc[c].outbuf
    /\ ~cc[c].outbuf => cc[c].out = <<>>

\* A slot that the pass still has to visit asks for no input while an answer is
\* being sent; what poll() reported before the slot changed hands does no harm.
PassRight ==
  pass.n > 0 =>
    \A k \in 1 .. table.max :
      LET s == table.slot[k]
      IN  k >= pass.k /\ s.cb = "client_event" /\ s.revents = {POLLIN} => ~cc[s.fd].outbuf

\* Those who wait for accept() wait once and have no clientcon.
QueueRight ==
  /\ IsInjective(backlog)
  /\ \A c \in ToSet(backlog) : conn[c].at \in {"queued", "hung"} /\ cc[c].state # "live"

\* What a client has, what is under way and what waits in the buffer are its
\* answer, unless the server has not read its commands yet.
Ongoing(c) ==
  LET all == conn[c].got \o conn[c].wire
  IN  IF conn[c].in = <<>> THEN all \o cc[c].out = dispatch_commands(conn[c].asked)
      ELSE conn[c].in = conn[c].asked /\ all = <<>> /\ cc[c].out = <<>>

AnswersUnderWay ==
  \A c \in Clients :
    /\ conn[c].at \in {"queued", "open"} => Ongoing(c)
    /\ conn[c].at = "hung" => conn[c].wire = <<>>
    /\ conn[c].at = "queued" => conn[c].wire = <<>> /\ conn[c].got = <<>>

IInv ==
  /\ TypeOK /\ SlotsRight /\ ContextsRight /\ PassRight /\ QueueRight
  /\ AnswersUnderWay /\ AnswersRight
=============================================================================
