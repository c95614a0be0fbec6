------------------------------- MODULE RbTree -------------------------------
(***************************************************************************)
(* mcelog/rbtree.c and rbtree.h.  A tree is a record: root, the children   *)
(* ch[side][n], the parent p[n] and the colour red[n] of every node.  The  *)
(* nodes are positive integers, NULL is 0.  The mirrored branches of the   *)
(* code are one definition with the side, "l" or "r", as a parameter.      *)
(* Recolouring, which nothing but a client of rbtree.h reaches, is in      *)
(* RbTreeUse.                                                              *)
(***************************************************************************)
EXTENDS Integers, Sequences

NULL == 0
Other(side) == IF side = "l" THEN "r" ELSE "l"

\* RB_ROOT, and nodes whose fields nobody has written yet.
EmptyTree(nodes) ==
  [root |-> NULL, p |-> [n \in nodes |-> NULL], red |-> [n \in nodes |-> TRUE],
   ch |-> [side \in {"l", "r"} |-> [n \in nodes |-> NULL]]]

\* rb_set_parent(), guarded by the test for NULL of its callers.
rb_set_parent(t, n, parent) == IF n = NULL THEN t ELSE [t EXCEPT !.p[n] = parent]

\* The pointer to old, in its parent or in the root, becomes one to new.
Repoint(t, parent, old, new) ==
  IF parent = NULL THEN [t EXCEPT !.root = new]
  ELSE LET side == IF t.ch["l"][parent] = old THEN "l" ELSE "r"
       IN  [t EXCEPT !.ch[side][parent] = new]

\* A mutant: the inner grandchild keeps its old parent.
RotateForgetsParent(t, n, side) ==
  LET up == t.ch[Other(side)][n]
      t1 == [t EXCEPT !.ch[Other(side)][n] = t.ch[side][up], !.ch[side][up] = n]
      t2 == Repoint(rb_set_parent(t1, up, t.p[n]), t.p[n], n, up)
  IN  rb_set_parent(t2, n, up)

\* __rb_rotate_left() for side "l", __rb_rotate_right() for "r".
rb_rotate(t, n, side) ==
  LET up == t.ch[Other(side)][n]
      t1 == [t EXCEPT !.ch[Other(side)][n] = t.ch[side][up], !.ch[side][up] = n]
      t2 == rb_set_parent(t1, t.ch[side][up], n)
      t3 == Repoint(rb_set_parent(t2, up, t.p[n]), t.p[n], n, up)
  IN  rb_set_parent(t3, n, up)

\* rb_link_node(): a red leaf below parent, or the root.
rb_link_node(t, n, parent, side) ==
  LET ch == [s \in {"l", "r"} |-> [t.ch[s] EXCEPT ![n] = NULL]]
  IN  [root |-> IF parent = NULL THEN n ELSE t.root,
       p |-> [t.p EXCEPT ![n] = parent], red |-> [t.red EXCEPT ![n] = TRUE],
       ch |-> IF parent = NULL THEN ch ELSE [ch EXCEPT ![side][parent] = n]]

\* From n down to the last node on that side.
Descend(t, n, side) ==
  LET down[m \in DOMAIN t.p] == IF t.ch[side][m] = NULL THEN m ELSE down[t.ch[side][m]]
  IN  down[n]

\* rb_first() for side "l", rb_last() for "r".
rb_end(t, side) == IF t.root = NULL THEN NULL ELSE Descend(t, t.root, side)

\* Up from n, as long as it is the child on that side.
Climb(t, n, side) ==
  LET up[m \in DOMAIN t.p] ==
        IF t.p[m] # NULL /\ m = t.ch[side][t.p[m]] THEN up[t.p[m]] ELSE t.p[m]
  IN  up[n]

\* rb_next() for side "r", rb_prev() for "l".
rb_step(t, n, side) ==
  IF t.p[n] = n THEN NULL
  ELSE IF t.ch[side][n] # NULL THEN Descend(t, t.ch[side][n], Other(side))
  ELSE Climb(t, n, side)

rb_replace_node(t, victim, new) ==
  LET t1 == Repoint(t, t.p[victim], victim, new)
      t2 == rb_set_parent(rb_set_parent(t1, t.ch["l"][victim], new), t.ch["r"][victim], new)
  IN  [t2 EXCEPT !.p[new] = t2.p[victim], !.red[new] = t2.red[victim],
                 !.ch["l"][new] = t2.ch["l"][victim], !.ch["r"][new] = t2.ch["r"][victim]]

\* The nodes as a loop over rb_first() and rb_next() visits them (side "r"),
\* or one over rb_last() and rb_prev() (side "l").
Walk(t, side) ==
  LET from[n \in DOMAIN t.p \cup {NULL}] ==
        IF n = NULL THEN <<>> ELSE <<n>> \o from[rb_step(t, n, side)]
  IN  from[rb_end(t, Other(side))]
=============================================================================
