------------------------------ MODULE MCReview ------------------------------
(* Panels for TLC: one requirement, two approvers for one role, and two    *)
(* requirements of different roles; and, as a client may send them, one    *)
(* that is approved already, by one actor named twice, and one that one    *)
(* actor has approved and another has rejected.  The actors are            *)
(* interchangeable.                                                        *)
EXTENDS Review, TLC

CONSTANTS a1, a2, r1, r2

Need(role, min) == [role |-> role, min |-> min, approved |-> {},
                    repeats |-> 0, rejected |-> {}]

MCPanels ==
  {<<Need(r1, 1)>>, <<Need(r1, 2)>>, <<Need(r1, 1), Need(r2, 2)>>}
  \cup {<<[Need(r1, 2) EXCEPT !.approved = {a}, !.repeats = 1]>> : a \in Actors}
  \cup {<<[Need(r1, 2) EXCEPT !.approved = {a}, !.rejected = Actors \ {a}]>> :
           a \in Actors}

Symmetry == Permutations(Actors)
=============================================================================
