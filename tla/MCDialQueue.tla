---------------------------- MODULE MCDialQueue ----------------------------
(* Instances of the dial queue for TLC.                                     *)
EXTENDS DialQueueProperties, TLC

CONSTANTS a1, a2, p1, r1, r2, l1, l2, c1, c2

\* One person in two lists.
SamePerson == (r1 :> p1) @@ (r2 :> p1)
TwoLists == (r1 :> l1) @@ (r2 :> l2)

\* The rows are alike if their lists are exchanged with them.
RowSwap == (r1 :> r2) @@ (r2 :> r1) @@ (l1 :> l2) @@ (l2 :> l1)

Alike == Permutations({a1, a2}) \cup Permutations({c1, c2}) \cup {RowSwap}
=============================================================================
