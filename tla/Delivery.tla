------------------------------ MODULE Delivery ------------------------------
(***************************************************************************)
(* What a consumer group promises about the messages of its partitions,    *)
(* without saying how its members fetch, fail, restart or rebalance:       *)
(* logs grow, messages that exist are processed, and a commit moves only   *)
(* forward and only over processed messages.                               *)
(*                                                                         *)
(* The promise has one hole: a group that does not start from the          *)
(* beginning may make its first commit anywhere, and until the committed   *)
(* offset has left 0 it promises nothing about what that commit skipped.   *)
(***************************************************************************)
EXTENDS Integers

CONSTANTS Partitions, MaxOffset

VARIABLES fromBeginning, logEnd, processed, committed

vars == <<fromBeginning, logEnd, processed, committed>>

Init ==
    /\ fromBeginning \in BOOLEAN
    /\ logEnd \in [Partitions -> 0..MaxOffset]
    /\ processed = [p \in Partitions |-> {}]
    /\ committed = [p \in Partitions |-> -1]

\* A producer appends to a log.
Append ==
    /\ \A p \in Partitions : logEnd'[p] \in logEnd[p] .. MaxOffset
    /\ UNCHANGED <<fromBeginning, processed, committed>>

\* The offsets a commit moved over in p: it vouches for these.
Vouched(p) ==
    IF fromBeginning \/ committed[p] > 0
    THEN {o \in 0..MaxOffset : committed[p] <= o /\ o < committed'[p]}
    ELSE {}

\* Members process messages, commit offsets, or do both.
Deliver ==
    /\ \A p \in Partitions :
          /\ processed[p] \subseteq processed'[p]
          /\ \A o \in processed'[p] \ processed[p] : o < logEnd[p]
          /\ committed[p] <= committed'[p] /\ committed'[p] <= logEnd[p]
          /\ Vouched(p) \subseteq processed'[p]
    /\ UNCHANGED <<fromBeginning, logEnd>>

Next == Append \/ Deliver

Spec == Init /\ [][Next]_vars
=============================================================================
