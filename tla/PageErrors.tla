----------------------------- MODULE PageErrors -----------------------------
(***************************************************************************)
(* mcelog/page.c: corrected errors per page, and taking bad pages offline. *)
(* A page is its number, which is also its node in the tree.  "did" is a   *)
(* history of the model: what was done about the page, in order.           *)
(***************************************************************************)
EXTENDS MemDb, RbTree

CONSTANT Pages     \* page numbers, positive

ASSUME PagesAssumption == IsFiniteSet(Pages) /\ Pages \subseteq Nat \ {0}

NewPage(now) == [ce |-> NewErrors(now), offlined |-> "online", triggered |-> FALSE, did |-> <<>>]

EmptyPageDb == [root |-> EmptyTree(Pages), page |-> [p \in Pages |-> NewPage(0)]]

\* mempage_lookup(): the node of the page, NULL when there is none.
mempage_lookup(t, addr) ==
  LET at[n \in Pages \cup {NULL}] ==
        IF n \in {NULL, addr} THEN n ELSE at[t.ch[IF addr < n THEN "l" ELSE "r"][n]]
  IN  at[t.root]

\* mempage_insert() of a page that is not in the tree: linked as a red leaf.
\* mempage_insert_lookup() returns NULL then, and rb_insert_color() is only
\* called when it does not: the tree is a search tree, but never balanced.
mempage_insert(t, addr) ==
  LET Side(n) == IF addr < n THEN "l" ELSE "r"
      last[n \in Pages] == IF t.ch[Side(n)][n] = NULL THEN n ELSE last[t.ch[Side(n)][n]]
  IN  IF t.root = NULL THEN rb_link_node(t, addr, NULL, "l")
      ELSE rb_link_node(t, addr, last[t.root], Side(last[t.root]))

\* memory_offline(): what the kernel is asked for, and how it answers.
memory_offline(offline, kernel) ==
  CASE offline = "soft" -> IF kernel.soft THEN <<"soft">> ELSE <<"soft-failed">>
    [] offline = "hard" -> IF kernel.hard THEN <<"hard">> ELSE <<"hard-failed">>
    [] offline = "soft-then-hard" ->
         IF kernel.soft THEN <<"soft">>
         ELSE <<"soft-failed", IF kernel.hard THEN "hard" ELSE "hard-failed">>

offline_action(mp, offline, kernel) ==
  LET asked == memory_offline(offline, kernel)
  IN  IF offline \in {"off", "account"} THEN mp
      ELSE [mp EXCEPT !.did = @ \o asked,
                      !.offlined = IF Last(asked) \in {"soft", "hard"} THEN "offline" ELSE "offline-failed"]

\* A mutant: a page that was taken offline triggers again.
PageFullAgain(mp, offline, kernel) ==
  offline_action([mp EXCEPT !.triggered = TRUE, !.did = Append(@, "trigger")], offline, kernel)

\* The bucket of the page got full: trigger and action, for pages online.
PageFull(mp, offline, kernel) ==
  IF mp.offlined # "online" THEN mp
  ELSE offline_action([mp EXCEPT !.triggered = TRUE, !.did = Append(@, "trigger")], offline, kernel)

\* account_page_error(): pdb is the page database, db the one of the DIMMs,
\* where the trigger looks up (and so makes) the entry of the DIMM.
account_page_error(pdb, db, conf, m, ch, dimm, kernel, now) ==
  LET addr == m.page
      old  == IF mempage_lookup(pdb.root, addr) = NULL THEN NewPage(now) ELSE pdb.page[addr]
      root == IF mempage_lookup(pdb.root, addr) = NULL THEN mempage_insert(pdb.root, addr) ELSE pdb.root
      r    == Account(old.ce, conf.page, 1, m.time, now)
      mp   == [old EXCEPT !.ce = r.et]
      runs == r.full /\ old.offlined = "online"
  IN  IF conf.offline = "off" \/ ~m.addrv \/ m.uc THEN [pdb |-> pdb, db |-> db]
      ELSE [pdb |-> [root |-> root,
                     page |-> [pdb.page EXCEPT ![addr] =
                                 IF r.full THEN PageFull(mp, conf.offline, kernel) ELSE mp]],
            db  |-> IF runs THEN memdb_trigger(get_memdimm(db, <<m.socketid, ch, dimm>>, now), TRUE)
                    ELSE db]

\* The pages in the order dump_page_errors() prints them.
DumpedPages(pdb) == Walk(pdb.root, "r")

\* page_setup(): without the interface of the kernel, pages are only counted.
page_setup(action, sysfs_available) ==
  IF action \in {"soft", "hard", "soft-then-hard"} /\ ~sysfs_available THEN "account" ELSE action
=============================================================================
