----------------------------- MODULE RbTreeUse ------------------------------
(***************************************************************************)
(* The tree of mcelog/rbtree.c used the way rbtree.h describes it: search, *)
(* link the node as a red leaf, call rb_insert_color(); rb_erase() and     *)
(* rb_replace_node() of nodes that are in the tree.  There are two nodes   *)
(* for each key, so that one can replace the other.                        *)
(***************************************************************************)
EXTENDS RbTree, FiniteSets, SequencesExt

CONSTANT NumKeys
ASSUME NumKeysAssumption == NumKeys \in Nat \ {0}

VARIABLE tree

-----------------------------------------------------------------------------
(* rbtree.c: insertion and removal, with the colours.                      *)

RECURSIVE rb_insert_color(_, _)
\* Two red nodes in a row below g: recolour and go on at g, or rotate.
rb_insert_color(t, n) ==
  LET parent == t.p[n]
      g      == t.p[parent]
      side   == IF parent = t.ch["l"][g] THEN "l" ELSE "r"
      uncle  == t.ch[Other(side)][g]
      inner  == t.ch[Other(side)][parent] = n
      top    == IF inner THEN n ELSE parent
      t1     == IF inner THEN rb_rotate(t, parent, side) ELSE t
  IN  IF parent = NULL \/ ~t.red[parent] THEN [t EXCEPT !.red[t.root] = FALSE]
      ELSE IF uncle # NULL /\ t.red[uncle]
      THEN rb_insert_color([t EXCEPT !.red[uncle] = FALSE, !.red[parent] = FALSE, !.red[g] = TRUE], g)
      ELSE rb_insert_color(rb_rotate([t1 EXCEPT !.red[top] = FALSE, !.red[g] = TRUE], g, Other(side)),
                           IF inner THEN parent ELSE n)

IsBlack(t, n) == n = NULL \/ ~t.red[n]

\* The sibling of the short side once a red one is rotated away.
BlackSibling(t, parent, side) ==
  LET other == t.ch[Other(side)][parent]
  IN  IF t.red[other]
      THEN rb_rotate([t EXCEPT !.red[other] = FALSE, !.red[parent] = TRUE], parent, side)
      ELSE t

\* The last step of the repair: a red nephew, the far one after at most one
\* more rotation, makes up for the black node that is missing.
RotateNephew(t, parent, side) ==
  LET o  == Other(side)
      s  == t.ch[o][parent]
      t1 == IF IsBlack(t, t.ch[o][s])
            THEN rb_rotate([t EXCEPT !.red[t.ch[side][s]] = FALSE, !.red[s] = TRUE], s, o)
            ELSE t
      s1 == t1.ch[o][parent]
  IN  rb_rotate([t1 EXCEPT !.red[s1] = t1.red[parent], !.red[parent] = FALSE,
                           !.red[t1.ch[o][s1]] = FALSE], parent, side)

RECURSIVE rb_erase_color(_, _, _)
\* __rb_erase_color(): one black node is missing above n.
rb_erase_color(t, n, parent) ==
  LET side  == IF t.ch["l"][parent] = n THEN "l" ELSE "r"
      t1    == BlackSibling(t, parent, side)
      other == t1.ch[Other(side)][parent]
      Blacken(u, m) == IF m = NULL THEN u ELSE [u EXCEPT !.red[m] = FALSE]
  IN  IF ~IsBlack(t, n) \/ n = t.root THEN Blacken(t, n)
      ELSE IF IsBlack(t1, t1.ch["l"][other]) /\ IsBlack(t1, t1.ch["r"][other])
      THEN rb_erase_color([t1 EXCEPT !.red[other] = TRUE], parent, t1.p[parent])
      ELSE LET t2 == RotateNephew(t1, parent, side) IN Blacken(t2, t2.root)

\* rb_erase() of a node with two children: its successor takes its place.
EraseInner(t, old) ==
  LET n      == Descend(t, t.ch["r"][old], "l")
      child  == t.ch["r"][n]
      parent == IF t.p[n] = old THEN n ELSE t.p[n]
      t1     == rb_set_parent(t, child, t.p[n])
      t2     == IF t.p[n] = old THEN [t1 EXCEPT !.ch["r"][old] = child]
                ELSE [t1 EXCEPT !.ch["l"][t.p[n]] = child]
      t3     == [t2 EXCEPT !.p[n] = t2.p[old], !.red[n] = t2.red[old],
                           !.ch["r"][n] = t2.ch["r"][old], !.ch["l"][n] = t2.ch["l"][old]]
      t4     == Repoint(t3, t3.p[old], old, n)
      t5     == rb_set_parent(rb_set_parent(t4, t4.ch["l"][old], n), t4.ch["r"][old], n)
  IN  IF t.red[n] THEN t5 ELSE rb_erase_color(t5, child, parent)

\* rb_erase(): a node with at most one child is taken out in place.
rb_erase(t, n) ==
  LET child == IF t.ch["l"][n] = NULL THEN t.ch["r"][n] ELSE t.ch["l"][n]
      t1    == Repoint(rb_set_parent(t, child, t.p[n]), t.p[n], n, child)
  IN  IF t.ch["l"][n] # NULL /\ t.ch["r"][n] # NULL THEN EraseInner(t, n)
      ELSE IF t.red[n] THEN t1 ELSE rb_erase_color(t1, child, t.p[n])

-----------------------------------------------------------------------------
(* The client.                                                             *)

Keys  == 1 .. NumKeys
Nodes == 1 .. 2 * NumKeys
Key(n) == ((n - 1) % NumKeys) + 1

\* A mutant: the search does not look at the keys.
LinkLeftmost(t, n, at) == rb_link_node(t, n, Descend(t, at, "l"), "l")

RECURSIVE LinkBelow(_, _, _)
\* The search of a user of the tree: down to the free place of node n.
LinkBelow(t, n, at) ==
  LET side == IF Key(n) < Key(at) THEN "l" ELSE "r"
  IN  IF t.ch[side][at] = NULL THEN rb_link_node(t, n, at, side)
      ELSE LinkBelow(t, n, t.ch[side][at])

InTree == ToSet(Walk(tree, "r"))

UseInit == tree = EmptyTree(Nodes)

Insert(n) ==
  /\ \A m \in InTree : Key(m) # Key(n)
  /\ LET linked == IF tree.root = NULL THEN rb_link_node(tree, n, NULL, "l")
                   ELSE LinkBelow(tree, n, tree.root)
     IN  tree' = rb_insert_color(linked, n)

\* A node that left the tree is freed: its fields are those of a new one.
Freed(t, n) ==
  [t EXCEPT !.p[n] = NULL, !.red[n] = TRUE, !.ch["l"][n] = NULL, !.ch["r"][n] = NULL]

Erase(n) == n \in InTree /\ tree' = Freed(rb_erase(tree, n), n)

Replace(victim, new) ==
  /\ victim \in InTree /\ new \notin InTree /\ Key(new) = Key(victim)
  /\ tree' = Freed(rb_replace_node(tree, victim, new), victim)

UseNext ==
  \/ \E n \in Nodes : Insert(n) \/ Erase(n)
  \/ \E victim, new \in Nodes : Replace(victim, new)

RECURSIVE BlackHeight(_, _)
\* Black nodes on every way down from n; -1 when the ways differ.
BlackHeight(t, n) ==
  IF n = NULL THEN 1
  ELSE LET l == BlackHeight(t, t.ch["l"][n])
           r == BlackHeight(t, t.ch["r"][n])
       IN  IF l = -1 \/ l # r THEN -1 ELSE l + (IF t.red[n] THEN 0 ELSE 1)

(* The tree stays balanced, whatever is inserted, erased and replaced: the *)
(* root is black, no red node has a red child, every way down has the same *)
(* number of black nodes; and the parent pointers are those of the         *)
(* children, so that walking back gives the walk reversed.                 *)
RedBlack ==
  /\ tree.root # NULL => ~tree.red[tree.root] /\ tree.p[tree.root] = NULL
  /\ \A n \in InTree, side \in {"l", "r"} :
       LET c == tree.ch[side][n]
       IN  c # NULL => tree.p[c] = n /\ ~(tree.red[n] /\ tree.red[c])
  /\ BlackHeight(tree, tree.root) # -1
  /\ Walk(tree, "l") = Reverse(Walk(tree, "r"))

\* The walk over the tree, as keys.
KeyWalk == FoldRight(LAMBDA n, keys : <<Key(n)>> \o keys, Walk(tree, "r"), <<>>)

Abstract == INSTANCE OrderedSet WITH order <- KeyWalk

(* The tree implements an ordered set: every insertion, removal and        *)
(* replacement shows in a walk as that of one key, and the walk stays in   *)
(* ascending order, neither losing nor repeating a key.                    *)
ImplementsOrderedSet == Abstract!Spec
=============================================================================
