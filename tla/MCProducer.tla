---------------------------- MODULE MCProducer ----------------------------
(* Three sends to one partition, where each can take, reuse or skip the    *)
(* sequence of another; and a send over two nodes beside one over one of   *)
(* them, where half of a send can fail.                                    *)
EXTENDS Producer, TLC

CONSTANTS s1, s2, s3, p1, p2

Counts(a, b) == (p1 :> a) @@ (p2 :> b)

ToOne == (s1 :> Counts(2, 0)) @@ (s2 :> Counts(1, 0)) @@ (s3 :> Counts(1, 0))
ToTwo == (s1 :> Counts(1, 1)) @@ (s2 :> Counts(2, 0)) @@ (s3 :> Counts(0, 0))

Scenario(payload, first, f, m, o) ==
    [payload |-> payload, firstPid |-> first, faults |-> f, moves |-> m, overruns |-> o]

Disturbed == {Scenario(ToOne, 0, 1, 1, 0), Scenario(ToTwo, 1, 1, 1, 0),
              Scenario(ToTwo, 1, 0, 1, 1), Scenario(ToOne, 1, 0, 0, 0)}

\* The brokers answer, but one response can be lost.
Alike == (s1 :> Counts(2, 0)) @@ (s2 :> Counts(2, 0)) @@ (s3 :> Counts(0, 0))
LostResponse == {Scenario(Alike, 1, 1, 0, 0)}
=============================================================================
