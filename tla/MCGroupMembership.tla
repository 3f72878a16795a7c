------------------------- MODULE MCGroupMembership -------------------------
(* Two members of a group with three partitions.                           *)
EXTENDS GroupMembership, TLC

CONSTANTS m1, m2

\* The same topics; something breaks and one member leaves.
Same == [subscription |-> [m \in Members |-> Partitions],
         faults |-> 1, leaves |-> 1, generations |-> 0]

\* Two topics, with the partitions 0, 1 and 2; one member has the first only.
Mixed == [subscription |-> (m1 :> {0, 1} @@ m2 :> {0, 1, 2}),
          faults |-> 0, leaves |-> 1, generations |-> 4]

Both == {Same, Mixed}
=============================================================================
