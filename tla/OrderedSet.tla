----------------------------- MODULE OrderedSet -----------------------------
(***************************************************************************)
(* What a search tree promises its users: a set of keys that a walk visits *)
(* in ascending order.                                                     *)
(***************************************************************************)
EXTENDS Integers, SequencesExt

CONSTANT Keys
VARIABLE order      \* the keys in the order of a walk

Below(k) == SelectSeq(order, LAMBDA x : x < k)
Above(k) == SelectSeq(order, LAMBDA x : x > k)

Init == order = <<>>

Insert(k) == k \notin ToSet(order) /\ order' = Below(k) \o <<k>> \o Above(k)
Delete(k) == k \in ToSet(order) /\ order' = Below(k) \o Above(k)

Next == \E k \in Keys : Insert(k) \/ Delete(k)

Spec == Init /\ [][Next]_order
=============================================================================
