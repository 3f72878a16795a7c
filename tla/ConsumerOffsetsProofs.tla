----------------------- MODULE ConsumerOffsetsProofs -----------------------
(***************************************************************************)
(* Proofs about ConsumerOffsets, for any number of partitions and messages *)
(* and any number of failures and rebalances.                              *)
(*                                                                         *)
(* That committed offsets are processed is not inductive: a commit writes  *)
(* what is pending, a flush turns it into the position, and the position   *)
(* decides what the next response is asked for and filtered by.  Inv says  *)
(* what these agree on at every await: what a response covers              *)
(* (BatchBounds), what lies behind the three offsets (BehindProcessed),    *)
(* and how a member of the current generation stands to the committed      *)
(* offset (MemberAhead).                                                   *)
(***************************************************************************)
EXTENDS ConsumerOffsets, TLAPS

InBatch == pc \in {"processing", "committing", "failing"}

IsMember == (pc = "fetching" \/ InBatch) /\ ~stale

\* A response starts at or before the position, and no other partition is in it.
BatchBounds ==
    InBatch => /\ fetched \subseteq assigned
               /\ \A p \in Partitions :
                     /\ lo[p] <= current[p]
                     /\ current[p] <= hi[p]
                     /\ hi[p] <= logEnd[p]
                     /\ p \notin fetched => lo[p] = hi[p]

CommittedExists == \A p \in Partitions : committed[p] <= logEnd[p]

\* All that is behind a committed, current or pending offset is processed.
BehindProcessed ==
    fromBeginning => \A p \in Partitions : \A o \in Offsets :
        (o < committed[p] \/ IsResolved(p, o)) => o \in processed[p]

\* A member has what the group committed behind it, and went on from there.
MemberAhead ==
    IsMember => \A p \in assigned :
        /\ committed[p] <= current[p]
        /\ pending[p] = None \/ committed[p] <= pending[p]
        /\ committed[p] > 0 =>
              \A o \in Offsets :
                  committed[p] <= o /\ IsResolved(p, o) => o \in processed[p]

Inv ==
    /\ TypeOK
    /\ BatchBounds
    /\ CommittedExists
    /\ BehindProcessed
    /\ MemberAhead
-----------------------------------------------------------------------------

(***************************************************************************)
(* What flush() leaves in the current and the pending offset of a          *)
(* partition.                                                              *)
(***************************************************************************)
LEMMA FlushEffect ==
    ASSUME NEW ps, NEW STATE pend, Flush(ps, pend), NEW p \in Partitions
    PROVE  IF p \in ps /\ pend[p] > 0
           THEN current'[p] = pend[p] /\ pending'[p] = None
           ELSE current'[p] = current[p] /\ pending'[p] = pend[p]
BY DEF Flush

(***************************************************************************)
(* flush() of pending offsets of the right type leaves both offsets of the *)
(* right type, and within the log if the pending ones were.                *)
(***************************************************************************)
LEMMA FlushTypes ==
    ASSUME TypeOK, NEW ps, NEW STATE pend, Flush(ps, pend),
           pend \in [Partitions -> Offsets \cup {None}],
           \A p \in Partitions : pend[p] <= logEnd[p]
    PROVE  /\ current' \in [Partitions -> Offsets]
           /\ pending' \in [Partitions -> Offsets \cup {None}]
           /\ \A p \in Partitions : current'[p] <= logEnd[p] /\ pending'[p] <= logEnd[p]
BY OffsetsAssumption DEF Flush, TypeOK, Offsets, None

(***************************************************************************)
(* listOffsets leaves both offsets of the right type, within the log.      *)
(***************************************************************************)
LEMMA ListOffsetsTypes ==
    ASSUME TypeOK, NEW ps \in SUBSET Partitions, ListOffsets(ps)
    PROVE  /\ current' \in [Partitions -> Offsets]
           /\ pending' \in [Partitions -> Offsets \cup {None}]
           /\ \A p \in Partitions : current'[p] <= logEnd[p] /\ pending'[p] <= logEnd[p]
<1> DEFINE pend == [p \in Partitions |-> IF p \in ps THEN Listed(p) ELSE pending[p]]
<1>1. /\ pend \in [Partitions -> Offsets \cup {None}]
      /\ \A p \in Partitions : pend[p] <= logEnd[p]
  BY OffsetsAssumption DEF TypeOK, Listed, Offsets, None
<1>2. Flush(ps, pend)
  BY DEF ListOffsets
<1> HIDE DEF pend
<1> QED
  BY <1>1, <1>2, FlushTypes

(***************************************************************************)
(* A consumer that starts from the beginning never lists an offset that    *)
(* moves its position: what it lists is 0, and flush() skips a 0.          *)
(***************************************************************************)
LEMMA ListOffsetsFromBeginning ==
    ASSUME TypeOK, fromBeginning, NEW ps \in SUBSET Partitions, ListOffsets(ps),
           NEW p \in Partitions
    PROVE  \/ current'[p] = current[p] /\ pending'[p] \in {0, pending[p]}
           \/ current'[p] = pending[p] /\ pending'[p] = None
<1> DEFINE pend == [q \in Partitions |-> IF q \in ps THEN Listed(q) ELSE pending[q]]
<1>1. pend[p] \in {0, pending[p]}
  BY DEF Listed
<1>2. Flush(ps, pend)
  BY DEF ListOffsets
<1> HIDE DEF pend
<1> QED
  BY <1>1, <1>2, FlushEffect

(***************************************************************************)
(* Type correctness is preserved by every step.                            *)
(***************************************************************************)
LEMMA TypeStep == Inv /\ [Next]_vars => TypeOK'
<1> SUFFICES ASSUME Inv, [Next]_vars PROVE TypeOK'
  OBVIOUS
<1> USE OffsetsAssumption DEF Inv, TypeOK, Offsets, None
<1>1. CASE Start
  <2>1. origin' \in [Partitions -> Offsets \cup {None}]
    BY <1>1 DEF Start, Listed
  <2> QED
    BY <1>1, <2>1, ListOffsetsTypes DEF Start, options, batchVars, clusterVars
<1>2. ASSUME NEW ps \in SUBSET Partitions, Join(ps) PROVE TypeOK'
  <2> DEFINE known == {p \in ps : committed[p] >= 0}
             pend == [p \in Partitions |-> IF p \in known THEN committed[p] ELSE pending[p]]
  <2>1. /\ pend \in [Partitions -> Offsets \cup {None}]
        /\ \A p \in Partitions : pend[p] <= logEnd[p]
    BY DEF CommittedExists
  <2>2. Flush(known, pend)
    BY <1>2 DEF Join
  <2>3. /\ current' \in [Partitions -> Offsets]
        /\ pending' \in [Partitions -> Offsets \cup {None}]
        /\ \A p \in Partitions : current'[p] <= logEnd[p] /\ pending'[p] <= logEnd[p]
    <3> HIDE DEF known, pend
    <3> QED BY <2>1, <2>2, FlushTypes
  <2> QED
    BY <1>2, <2>3 DEF Join, options, batchVars
<1>3. ASSUME NEW e \in {"rebalance", "restart"}, FetchFails(e) PROVE TypeOK'
  BY <1>3 DEF FetchFails, Catch, options, offsetVars, batchVars, clusterVars
<1>4. ASSUME NEW e \in {"rebalance", "restart"}, CommitFails(e) PROVE TypeOK'
  <2>1. committed' \in [Partitions -> Offsets \cup {None}]
    BY <1>4 DEF CommitFails, CommitPending
  <2> QED
    BY <1>4, <2>1 DEF CommitFails, Catch, options, offsetVars, batchVars
<1>5. ASSUME NEW ps \in SUBSET assigned, FetchReturns(ps) PROVE TypeOK'
  <2>1. lo' \in [Partitions -> Offsets] /\ hi' \in [Partitions -> Offsets]
    BY <1>5 DEF FetchReturns
  <2> QED
    BY <1>5, <2>1 DEF FetchReturns, options, offsetVars, clusterVars
<1>6. ASSUME NEW p \in Partitions, NEW o \in Offsets, ResolveOffset(p, o) PROVE TypeOK'
  <2>1. o + 1 \in Offsets /\ o + 1 <= logEnd[p]
    BY <1>6 DEF ResolveOffset, Messages, BatchBounds, InBatch
  <2> QED
    BY <1>6, <2>1 DEF ResolveOffset, options, batchVars, clusterVars
<1>7. CASE BatchSucceeds
  <2>1. pending' \in [Partitions -> Offsets \cup {None}]
    BY <1>7 DEF BatchSucceeds
  <2>2. \A p \in Partitions : pending'[p] <= logEnd[p]
    BY <1>7 DEF BatchSucceeds, BatchBounds, InBatch
  <2>3. processed' \in [Partitions -> SUBSET Offsets]
    <3>1. \A p \in Partitions : Messages(p) \subseteq Offsets
      BY DEF Messages
    <3> QED
      BY <1>7, <3>1 DEF BatchSucceeds
  <2> QED
    BY <1>7, <2>1, <2>2, <2>3 DEF BatchSucceeds, options, batchVars, clusterVars
<1>8. CASE BatchFails
  BY <1>8 DEF BatchFails, options, offsetVars, batchVars, clusterVars
<1>9. CASE CommitSucceeds
  <2>1. Flush(fetched, pending)
    BY <1>9 DEF CommitSucceeds
  <2>2. /\ current' \in [Partitions -> Offsets]
        /\ pending' \in [Partitions -> Offsets \cup {None}]
        /\ \A p \in Partitions : current'[p] <= logEnd[p] /\ pending'[p] <= logEnd[p]
    BY <2>1, FlushTypes
  <2>3. committed' \in [Partitions -> Offsets \cup {None}]
    BY <1>9 DEF CommitSucceeds, CommitPending
  <2> QED
    BY <1>9, <2>2, <2>3 DEF CommitSucceeds, options, batchVars
<1>10. CASE Crash
  BY <1>10 DEF Crash, options, clusterVars
<1>11. CASE Rebalance
  BY <1>11 DEF Rebalance, options, offsetVars, batchVars
<1>12. ASSUME NEW p \in Partitions, Produce(p) PROVE TypeOK'
  BY <1>12 DEF Produce, options, offsetVars, batchVars
<1>13. ASSUME NEW p \in Partitions, NEW o \in Offsets, OtherMemberCommits(p, o) PROVE TypeOK'
  BY <1>13 DEF OtherMemberCommits, options, offsetVars, batchVars
<1>14. ASSUME NEW ps \in SUBSET Partitions, StartFails(ps) PROVE TypeOK'
  BY <1>14, ListOffsetsTypes DEF StartFails, options, batchVars, clusterVars
<1>15. ASSUME NEW ps \in SUBSET Partitions, JoinFails(ps) PROVE TypeOK'
  BY <1>15 DEF JoinFails, options, offsetVars, batchVars, clusterVars
<1>16. CASE UNCHANGED vars
  BY <1>16 DEF vars, options, offsetVars, batchVars, clusterVars
<1> QED
  BY <1>1, <1>2, <1>3, <1>4, <1>5, <1>6, <1>7, <1>8, <1>9, <1>10, <1>11,
     <1>12, <1>13, <1>14, <1>15, <1>16 DEF Next, Assignments
(***************************************************************************)
(* The bounds of a response in process() hold until it is committed: only  *)
(* FetchReturns makes one, and the position stands still meanwhile.        *)
(***************************************************************************)
LEMMA BatchBoundsStep == Inv /\ [Next]_vars => BatchBounds'
<1> SUFFICES ASSUME Inv, [Next]_vars PROVE BatchBounds'
  OBVIOUS
<1> USE OffsetsAssumption DEF Inv, TypeOK, Offsets, None, BatchBounds, InBatch
<1>1. CASE Start
  BY <1>1 DEF Start
<1>2. ASSUME NEW ps \in SUBSET Partitions, Join(ps) PROVE BatchBounds'
  BY <1>2 DEF Join
<1>3. ASSUME NEW e \in {"rebalance", "restart"}, FetchFails(e) PROVE BatchBounds'
  BY <1>3 DEF FetchFails, Catch
<1>4. ASSUME NEW e \in {"rebalance", "restart"}, CommitFails(e) PROVE BatchBounds'
  BY <1>4 DEF CommitFails, Catch
<1>5. ASSUME NEW ps \in SUBSET assigned, FetchReturns(ps) PROVE BatchBounds'
  BY <1>5 DEF FetchReturns, offsetVars, clusterVars
<1>6. ASSUME NEW p \in Partitions, NEW o \in Offsets, ResolveOffset(p, o) PROVE BatchBounds'
  BY <1>6 DEF ResolveOffset, batchVars, clusterVars
<1>7. CASE BatchSucceeds
  BY <1>7 DEF BatchSucceeds, batchVars, clusterVars
<1>8. CASE BatchFails
  BY <1>8 DEF BatchFails, offsetVars, batchVars, clusterVars
<1>9. CASE CommitSucceeds
  BY <1>9 DEF CommitSucceeds
<1>10. CASE Crash
  BY <1>10 DEF Crash
<1>11. CASE Rebalance
  BY <1>11 DEF Rebalance, offsetVars, batchVars
<1>12. ASSUME NEW p \in Partitions, Produce(p) PROVE BatchBounds'
  BY <1>12 DEF Produce, offsetVars, batchVars
<1>13. ASSUME NEW p \in Partitions, NEW o \in Offsets, OtherMemberCommits(p, o) PROVE BatchBounds'
  BY <1>13 DEF OtherMemberCommits, offsetVars, batchVars
<1>14. ASSUME NEW ps \in SUBSET Partitions, StartFails(ps) \/ JoinFails(ps)
       PROVE  BatchBounds'
  BY <1>14 DEF StartFails, JoinFails
<1>15. CASE UNCHANGED vars
  BY <1>15 DEF vars, offsetVars, batchVars, clusterVars
<1> QED
  BY <1>1, <1>2, <1>3, <1>4, <1>5, <1>6, <1>7, <1>8, <1>9, <1>10, <1>11,
     <1>12, <1>13, <1>14, <1>15 DEF Next, Assignments

(***************************************************************************)
(* The group commits no offset beyond the end of a log.                    *)
(***************************************************************************)
LEMMA CommittedExistsStep == Inv /\ [Next]_vars => CommittedExists'
<1> SUFFICES ASSUME Inv, [Next]_vars PROVE CommittedExists'
  OBVIOUS
<1> USE OffsetsAssumption DEF Inv, TypeOK, Offsets, None, CommittedExists
<1>1. ASSUME CommitPending \/ UNCHANGED committed, UNCHANGED logEnd PROVE CommittedExists'
  BY <1>1 DEF CommitPending
<1>2. ASSUME NEW p \in Partitions, Produce(p) PROVE CommittedExists'
  BY <1>2 DEF Produce
<1>3. ASSUME NEW p \in Partitions, NEW o \in Offsets, OtherMemberCommits(p, o) PROVE CommittedExists'
  BY <1>3 DEF OtherMemberCommits
<1> QED
  BY <1>1, <1>2, <1>3
  DEF Next, Assignments, Start, StartFails, Join, JoinFails, FetchFails, FetchReturns, ResolveOffset,
      BatchSucceeds, BatchFails, CommitSucceeds, CommitFails, Crash, Rebalance,
      vars, clusterVars

(***************************************************************************)
(* A message that a step leaves behind one of the offsets of its partition *)
(* was there before, or the step processed it: onBatch handles messages in *)
(* order, and everything before a response is behind the position.         *)
(***************************************************************************)
LEMMA BehindProcessedStep == Inv /\ [Next]_vars => BehindProcessed'
<1> SUFFICES ASSUME Inv, [Next]_vars, fromBeginning',
                    NEW p \in Partitions, NEW o \in Offsets,
                    (o < committed[p] \/ IsResolved(p, o))'
             PROVE  (o \in processed[p])'
  BY DEF BehindProcessed
<1> USE OffsetsAssumption DEF Inv, TypeOK, Offsets, None, BehindProcessed, IsResolved
<1>1. ASSUME NEW ps \in SUBSET Partitions, ListOffsets(ps),
             UNCHANGED <<fromBeginning, processed, committed>>
      PROVE  o \in processed'[p]
  BY <1>1, ListOffsetsFromBeginning
<1>2. ASSUME NEW ps \in SUBSET Partitions, Join(ps) PROVE o \in processed'[p]
  <2> DEFINE known == {q \in ps : committed[q] >= 0}
             pend == [q \in Partitions |-> IF q \in known THEN committed[q] ELSE pending[q]]
  <2>1. Flush(known, pend)
    BY <1>2 DEF Join
  <2>2. pend[p] = committed[p] \/ pend[p] = pending[p]
    OBVIOUS
  <2>3. fromBeginning /\ UNCHANGED <<processed, committed>>
    BY <1>2 DEF Join, options
  <2> HIDE DEF known, pend
  <2>4. \/ current'[p] = pend[p] /\ pending'[p] = None
        \/ current'[p] = current[p] /\ pending'[p] = pend[p]
    BY <2>1, FlushEffect
  <2> QED
    BY <2>2, <2>3, <2>4
<1>3. CASE UNCHANGED <<fromBeginning, current, pending, processed, committed>>
  BY <1>3
<1>4. ASSUME NEW e \in {"rebalance", "restart"}, CommitFails(e) PROVE o \in processed'[p]
  BY <1>4 DEF CommitFails, CommitPending, options, offsetVars
<1>5. ASSUME NEW q \in Partitions, NEW m \in Offsets, ResolveOffset(q, m) PROVE o \in processed'[p]
  <2>1. CASE p = q /\ o <= m
    <3>1. CASE o < lo[p]
      BY <1>5, <2>1, <3>1 DEF ResolveOffset, BatchBounds, InBatch, options, clusterVars
    <3>2. CASE o >= lo[p] /\ o < m
      <4>1. o \notin Messages(p)
        BY <1>5, <2>1, <3>2 DEF ResolveOffset, Messages
      <4>2. o < hi[p]
        BY <1>5, <2>1, <3>2 DEF ResolveOffset, Messages
      <4>3. current[p] > o \/ pending[p] > o
        BY <4>1, <4>2, <3>2 DEF Messages
      <4> QED
        BY <1>5, <4>3 DEF ResolveOffset, options
    <3>3. CASE o = m
      BY <1>5, <2>1, <3>3 DEF ResolveOffset
    <3> QED
      BY <2>1, <3>1, <3>2, <3>3
  <2>2. CASE ~(p = q /\ o <= m)
    BY <1>5, <2>2 DEF ResolveOffset, options, clusterVars
  <2> QED
    BY <2>1, <2>2
<1>6. CASE BatchSucceeds
  <2>1. CASE lo[p] < hi[p] /\ o < hi[p]
    <3>1. CASE o < lo[p]
      BY <1>6, <3>1 DEF BatchSucceeds, BatchBounds, InBatch, options
    <3>2. CASE o >= lo[p]
      <4>1. o \in Messages(p) \/ current[p] > o \/ pending[p] > o
        BY <2>1, <3>2 DEF Messages
      <4> QED
        BY <1>6, <4>1 DEF BatchSucceeds, options
    <3> QED
      BY <3>1, <3>2
  <2>2. CASE ~(lo[p] < hi[p] /\ o < hi[p])
    BY <1>6, <2>2 DEF BatchSucceeds, options, clusterVars
  <2> QED
    BY <2>1, <2>2
<1>7. CASE CommitSucceeds
  <2>1. fromBeginning /\ UNCHANGED processed
    BY <1>7 DEF CommitSucceeds, options
  <2>2. \/ current'[p] = pending[p] /\ pending'[p] = None
        \/ current'[p] = current[p] /\ pending'[p] = pending[p]
    BY <1>7, FlushEffect DEF CommitSucceeds
  <2>3. committed'[p] = pending[p] \/ committed'[p] = committed[p]
    BY <1>7 DEF CommitSucceeds, CommitPending
  <2> QED
    BY <2>1, <2>2, <2>3
<1>8. CASE Crash
  BY <1>8 DEF Crash, options, clusterVars
<1>9. ASSUME NEW q \in Partitions, NEW m \in Offsets, OtherMemberCommits(q, m) PROVE o \in processed'[p]
  BY <1>9 DEF OtherMemberCommits, options, offsetVars
<1> QED
  BY <1>1, <1>2, <1>3, <1>4, <1>5, <1>6, <1>7, <1>8, <1>9
  DEF Next, Assignments, Start, StartFails, JoinFails, FetchFails, FetchReturns,
      BatchFails, Rebalance, Produce, vars, options, offsetVars, clusterVars
(***************************************************************************)
(* join() sets the position to what the group has committed; from there a  *)
(* member moves its offsets only over messages it processed, and nobody    *)
(* else commits for its partitions before it is stale.                     *)
(***************************************************************************)
LEMMA MemberAheadStep == Inv /\ [Next]_vars => MemberAhead'
<1> SUFFICES ASSUME Inv, [Next]_vars, IsMember', NEW p \in assigned'
             PROVE  (/\ committed[p] <= current[p]
                     /\ pending[p] = None \/ committed[p] <= pending[p]
                     /\ committed[p] > 0 =>
                           \A o \in Offsets :
                               committed[p] <= o /\ IsResolved(p, o) => o \in processed[p])'
  BY DEF MemberAhead
<1> DEFINE Goal == (/\ committed[p] <= current[p]
                    /\ pending[p] = None \/ committed[p] <= pending[p]
                    /\ committed[p] > 0 =>
                          \A o \in Offsets :
                              committed[p] <= o /\ IsResolved(p, o) => o \in processed[p])'
<1> USE OffsetsAssumption DEF Inv, TypeOK, Offsets, None, MemberAhead, IsMember,
        InBatch, IsResolved
<1>1. CASE Start
  BY <1>1 DEF Start
<1>2. ASSUME NEW ps \in SUBSET Partitions, Join(ps) PROVE Goal
  <2> DEFINE known == {q \in ps : committed[q] >= 0}
             pend == [q \in Partitions |-> IF q \in known THEN committed[q] ELSE pending[q]]
  <2>1. p \in ps /\ p \in Partitions /\ UNCHANGED committed
    BY <1>2 DEF Join
  <2>2. IF p \in known /\ pend[p] > 0
        THEN current'[p] = pend[p] /\ pending'[p] = None
        ELSE current'[p] = current[p] /\ pending'[p] = pend[p]
    <3>1. Flush(known, pend)
      BY <1>2 DEF Join
    <3> HIDE DEF known, pend
    <3> QED BY <2>1, <3>1, FlushEffect
  <2>3. CASE committed[p] > 0
    BY <2>1, <2>2, <2>3
  <2>4. CASE committed[p] <= 0
    BY <2>1, <2>2, <2>4
  <2> QED
    BY <2>1, <2>3, <2>4
<1>3. ASSUME NEW e \in {"rebalance", "restart"}, FetchFails(e) \/ CommitFails(e) PROVE Goal
  BY <1>3 DEF FetchFails, CommitFails, Catch
<1>4. CASE IsMember /\ UNCHANGED <<assigned, current, pending, processed, committed>>
  BY <1>4
<1>5. ASSUME NEW q \in Partitions, NEW m \in Offsets, ResolveOffset(q, m) PROVE Goal
  <2>1. /\ IsMember /\ p \in assigned /\ p \in Partitions
        /\ UNCHANGED <<committed, current>>
    BY <1>5 DEF ResolveOffset, clusterVars
  <2>2. CASE p = q
    <3>1. pending'[p] = m + 1 /\ processed'[p] = processed[p] \cup {m}
      BY <1>5, <2>2 DEF ResolveOffset
    <3>2. current[p] <= m
      BY <1>5, <2>2 DEF ResolveOffset, Messages
    <3>3. committed[p] <= m + 1
      BY <2>1, <3>2
    <3>4. ASSUME NEW o \in Offsets, o <= m, committed[p] > 0, committed[p] <= o
          PROVE  o \in processed'[p]
      <4>1. CASE o < lo[p]
        BY <1>5, <2>1, <3>1, <3>4, <4>1 DEF ResolveOffset, BatchBounds
      <4>2. CASE o >= lo[p] /\ o < m
        <5>1. o \notin Messages(p) /\ o < hi[p]
          BY <1>5, <2>2, <4>2 DEF ResolveOffset, Messages
        <5>2. current[p] > o \/ pending[p] > o
          BY <2>1, <5>1, <4>2 DEF Messages
        <5> QED
          BY <2>1, <3>1, <3>4, <5>2
      <4>3. CASE o = m
        BY <3>1, <4>3
      <4> QED
        BY <2>1, <3>4, <4>1, <4>2, <4>3
    <3> QED
      BY <2>1, <3>1, <3>3, <3>4
  <2>3. CASE p # q
    BY <1>5, <2>1, <2>3 DEF ResolveOffset
  <2> QED
    BY <2>2, <2>3
<1>6. CASE BatchSucceeds
  <2>1. /\ IsMember /\ p \in assigned /\ p \in Partitions
        /\ UNCHANGED <<committed, current>>
    BY <1>6 DEF BatchSucceeds, clusterVars
  <2>2. processed'[p] = processed[p] \cup Messages(p)
    BY <1>6, <2>1 DEF BatchSucceeds
  <2>3. CASE lo[p] < hi[p]
    <3>1. pending'[p] = hi[p]
      BY <1>6, <2>1, <2>3 DEF BatchSucceeds
    <3>2. lo[p] <= current[p] /\ current[p] <= hi[p]
      BY <1>6, <2>1 DEF BatchSucceeds, BatchBounds
    <3>3. ASSUME NEW o \in Offsets, o < hi[p], committed[p] > 0, committed[p] <= o
          PROVE  o \in processed'[p]
      <4>1. o \in Messages(p) \/ current[p] > o \/ pending[p] > o
        BY <3>2, <3>3, <2>1 DEF Messages
      <4> QED
        BY <2>1, <2>2, <3>3, <4>1
    <3> QED
      BY <2>1, <2>2, <3>1, <3>2, <3>3
  <2>4. CASE ~(lo[p] < hi[p])
    <3>1. pending'[p] = pending[p]
      BY <1>6, <2>1, <2>4 DEF BatchSucceeds
    <3> QED
      BY <2>1, <2>2, <3>1
  <2> QED
    BY <2>3, <2>4
<1>7. CASE CommitSucceeds
  <2>1. /\ IsMember /\ p \in assigned /\ p \in Partitions
        /\ UNCHANGED processed
    BY <1>7 DEF CommitSucceeds, CommitPending
  <2>2. IF p \in fetched /\ pending[p] > 0
        THEN current'[p] = pending[p] /\ pending'[p] = None
        ELSE current'[p] = current[p] /\ pending'[p] = pending[p]
    BY <1>7, <2>1, FlushEffect DEF CommitSucceeds
  <2>3. committed'[p] = IF p \in fetched /\ pending[p] # None THEN pending[p]
                                                            ELSE committed[p]
    BY <1>7, <2>1 DEF CommitSucceeds, CommitPending
  <2>4. CASE p \in fetched /\ pending[p] > 0
    BY <2>1, <2>2, <2>3, <2>4
  <2>5. CASE ~(p \in fetched /\ pending[p] > 0)
    BY <2>1, <2>2, <2>3, <2>5
  <2> QED
    BY <2>4, <2>5
<1>8. CASE Crash
  BY <1>8 DEF Crash
<1>9. CASE Rebalance
  BY <1>9 DEF Rebalance
<1>10. ASSUME NEW q \in Partitions, NEW m \in Offsets, OtherMemberCommits(q, m) PROVE Goal
  <2>1. /\ IsMember /\ p \in assigned /\ p \in Partitions
        /\ UNCHANGED <<current, pending>> /\ p # q
    BY <1>10 DEF OtherMemberCommits, offsetVars
  <2>2. committed'[p] = committed[p] /\ processed'[p] = processed[p]
    BY <1>10, <2>1 DEF OtherMemberCommits
  <2> QED
    BY <2>1, <2>2
<1>11. ASSUME NEW ps \in SUBSET assigned, FetchReturns(ps) PROVE Goal
  BY <1>4, <1>11 DEF FetchReturns, offsetVars, clusterVars
<1>12. CASE BatchFails
  BY <1>4, <1>12 DEF BatchFails, offsetVars, clusterVars
<1>13. ASSUME NEW q \in Partitions, Produce(q) PROVE Goal
  BY <1>4, <1>13 DEF Produce, offsetVars
<1>14. ASSUME NEW ps \in SUBSET Partitions, StartFails(ps) \/ JoinFails(ps) PROVE Goal
  BY <1>14 DEF StartFails, JoinFails
<1>15. CASE UNCHANGED vars
  BY <1>4, <1>15 DEF vars, offsetVars, clusterVars
<1> QED
  BY <1>1, <1>2, <1>3, <1>5, <1>6, <1>7, <1>8, <1>9, <1>10, <1>11, <1>12,
     <1>13, <1>14, <1>15 DEF Next, Assignments
-----------------------------------------------------------------------------

(***************************************************************************)
(* The inductive invariant, and type correctness with it.                  *)
(***************************************************************************)
THEOREM Invariant == Spec => []Inv
<1>1. Init => Inv
  <2> SUFFICES ASSUME Init PROVE Inv
    OBVIOUS
  <2> USE OffsetsAssumption DEF Init, Offsets, None
  <2>1. TypeOK
    <3>1. \A p \in Partitions : current[p] <= logEnd[p] /\ pending[p] <= logEnd[p]
      OBVIOUS
    <3>2. logEnd \in [Partitions -> 0..MaxOffset]
      OBVIOUS
    <3>3. {fromBeginning, otherMembers, stale} \subseteq BOOLEAN
      BY Zenon
    <3>4. /\ current \in [Partitions -> Offsets]
          /\ pending \in [Partitions -> Offsets \cup {None}]
          /\ committed \in [Partitions -> Offsets \cup {None}]
          /\ origin \in [Partitions -> Offsets \cup {None}]
          /\ lo \in [Partitions -> Offsets] /\ hi \in [Partitions -> Offsets]
          /\ processed \in [Partitions -> SUBSET Offsets]
      OBVIOUS
    <3>5. /\ pc = "starting" /\ assigned = {} /\ fetched = {}
          /\ errors \in 0..MaxErrors /\ rebalances \in 0..MaxRebalances
      OBVIOUS
    <3> HIDE DEF Init, Offsets, None
    <3> QED
      BY <3>1, <3>2, <3>3, <3>4, <3>5 DEF TypeOK, Offsets
  <2>2. BatchBounds /\ MemberAhead
    BY DEF BatchBounds, MemberAhead, IsMember, InBatch
  <2>3. CommittedExists
    BY DEF CommittedExists
  <2>4. BehindProcessed
    BY DEF BehindProcessed, IsResolved
  <2> QED
    BY <2>1, <2>2, <2>3, <2>4 DEF Inv
<1>2. Inv /\ [Next]_vars => Inv'
  BY TypeStep, BatchBoundsStep, CommittedExistsStep, BehindProcessedStep,
     MemberAheadStep
  DEF Inv
<1> QED
  BY <1>1, <1>2, PTL DEF Spec

(***************************************************************************)
(* Every variable keeps its type, and no position runs past the end of the *)
(* log.                                                                    *)
(***************************************************************************)
THEOREM TypeCorrect == Spec => []TypeOK
<1>1. Inv => TypeOK
  BY DEF Inv
<1> QED
  BY <1>1, Invariant, PTL

(***************************************************************************)
(* At least once: a consumer that starts from the beginning commits only   *)
(* what was processed, over any number of failures, crashes and            *)
(* rebalances.                                                             *)
(***************************************************************************)
THEOREM AtLeastOnce == Spec => []CommittedIsProcessed
<1>1. Inv => CommittedIsProcessed
  BY DEF Inv, BehindProcessed, CommittedIsProcessed
<1> QED
  BY <1>1, Invariant, PTL

(***************************************************************************)
(* A member of the current generation processes nothing that the group has *)
(* committed already.                                                      *)
(***************************************************************************)
THEOREM NoRedelivery == Spec => []CommittedIsNotRedelivered
<1>1. Inv => CommittedIsNotRedelivered
  <2> SUFFICES ASSUME Inv, pc = "processing", ~stale,
                      NEW p \in Partitions, NEW o \in Messages(p)
               PROVE  o >= committed[p]
    BY DEF CommittedIsNotRedelivered
  <2> USE OffsetsAssumption DEF Inv, TypeOK, Offsets, None
  <2>1. /\ o \in Nat /\ lo[p] <= o /\ o < hi[p] /\ current[p] <= o
    BY DEF Messages, IsResolved
  <2>2. p \in assigned
    BY <2>1 DEF BatchBounds, InBatch
  <2> QED
    BY <2>1, <2>2 DEF MemberAhead, IsMember, InBatch
<1> QED
  BY <1>1, Invariant, PTL

(***************************************************************************)
(* No step moves the committed offset of a partition back.                 *)
(***************************************************************************)
LEMMA CommitsAdvance ==
    Inv /\ Next => \A p \in Partitions : committed[p] <= committed'[p]
<1> SUFFICES ASSUME Inv, Next, NEW p \in Partitions
             PROVE  committed[p] <= committed'[p]
  OBVIOUS
<1> USE OffsetsAssumption DEF Inv, TypeOK, Offsets, None
<1>1. ASSUME pc \in {"committing", "failing"}, CommitPending
      PROVE  committed[p] <= committed'[p]
  BY <1>1 DEF CommitPending, MemberAhead, IsMember, InBatch, BatchBounds
<1>2. ASSUME NEW q \in Partitions, NEW o \in Offsets, OtherMemberCommits(q, o)
      PROVE  committed[p] <= committed'[p]
  BY <1>2 DEF OtherMemberCommits
<1>3. ASSUME UNCHANGED committed PROVE committed[p] <= committed'[p]
  BY <1>3
<1> QED
  BY <1>1, <1>2, <1>3
  DEF Next, Assignments, Start, StartFails, Join, JoinFails, FetchFails, FetchReturns,
      ResolveOffset, BatchSucceeds, BatchFails, CommitSucceeds, CommitFails, Crash,
      Rebalance, Produce, clusterVars

(***************************************************************************)
(* Whatever start() listed, a commit passes only over processed messages   *)
(* once the group has a committed offset beyond 0.                         *)
(***************************************************************************)
LEMMA CommitsAreProcessed ==
    Inv /\ Next => \A p \in Partitions : D!Vouched(p) \subseteq processed'[p]
<1> SUFFICES ASSUME Inv, Next, NEW p \in Partitions, NEW o \in Offsets,
                    fromBeginning \/ committed[p] > 0,
                    committed[p] <= o, o < committed'[p]
             PROVE  o \in processed'[p]
  BY DEF D!Vouched, Offsets
<1> USE OffsetsAssumption DEF Inv, TypeOK, Offsets, None
<1>1. ASSUME pc \in {"committing", "failing"}, CommitPending, UNCHANGED processed
      PROVE  o \in processed'[p]
  <2>1. p \in fetched /\ pending[p] > o
    BY <1>1 DEF CommitPending
  <2>2. CASE fromBeginning
    BY <1>1, <2>1, <2>2 DEF BehindProcessed, IsResolved
  <2>3. CASE committed[p] > 0
    BY <1>1, <2>1, <2>3
    DEF CommitPending, BatchBounds, MemberAhead, IsMember, InBatch, IsResolved
  <2> QED
    BY <2>2, <2>3
<1>2. ASSUME NEW q \in Partitions, NEW m \in Offsets, OtherMemberCommits(q, m)
      PROVE  o \in processed'[p]
  BY <1>2 DEF OtherMemberCommits
<1>3. ASSUME UNCHANGED committed PROVE o \in processed'[p]
  BY <1>3
<1> QED
  BY <1>1, <1>2, <1>3
  DEF Next, Assignments, Start, StartFails, Join, JoinFails, FetchFails, FetchReturns,
      ResolveOffset, BatchSucceeds, BatchFails, CommitSucceeds, CommitFails, Crash,
      Rebalance, Produce, clusterVars

(***************************************************************************)
(* A step forgets nothing that was processed, and what it processes is in  *)
(* the log: a response ends at the end of its log.                         *)
(***************************************************************************)
LEMMA ProcessedGrows ==
    ASSUME Inv, Next, NEW p \in Partitions
    PROVE  /\ processed[p] \subseteq processed'[p]
           /\ \A o \in processed'[p] \ processed[p] : o < logEnd[p]
<1>1. ASSUME InBatch, NEW o \in Messages(p) PROVE o < logEnd[p]
  BY <1>1, OffsetsAssumption DEF Messages, BatchBounds, Inv, TypeOK, Offsets
<1>2. ASSUME NEW q \in Partitions, NEW m \in Offsets, ResolveOffset(q, m)
      PROVE  processed'[p] \subseteq processed[p] \cup {o \in Messages(p) : InBatch}
  BY <1>2 DEF ResolveOffset, InBatch, Inv, TypeOK
<1>3. ASSUME BatchSucceeds
      PROVE  processed'[p] \subseteq processed[p] \cup {o \in Messages(p) : InBatch}
  BY <1>3 DEF BatchSucceeds, InBatch
<1>4. ASSUME NEW q \in Partitions, NEW m \in Offsets, OtherMemberCommits(q, m)
      PROVE  \A o \in processed'[p] \ processed[p] : o < logEnd[p]
  BY <1>4, OffsetsAssumption DEF OtherMemberCommits, Inv, TypeOK, Offsets, None
<1>5. \/ \E q \in Partitions, m \in Offsets : ResolveOffset(q, m) \/ OtherMemberCommits(q, m)
      \/ BatchSucceeds
      \/ processed' = processed
  BY DEF Next, Start, StartFails, Join, JoinFails, FetchFails, FetchReturns,
         BatchFails, CommitSucceeds, CommitFails, Crash, Rebalance, Produce
<1>6. processed[p] \subseteq processed'[p]
  <2>1. ASSUME NEW q \in Partitions, NEW m \in Offsets,
               ResolveOffset(q, m) \/ OtherMemberCommits(q, m)
        PROVE  processed[p] \subseteq processed'[p]
    BY <2>1 DEF ResolveOffset, OtherMemberCommits, Inv, TypeOK
  <2>2. ASSUME BatchSucceeds PROVE processed[p] \subseteq processed'[p]
    BY <2>2 DEF BatchSucceeds
  <2> QED
    BY <1>5, <2>1, <2>2
<1> QED
  BY <1>1, <1>2, <1>3, <1>4, <1>5, <1>6

(***************************************************************************)
(* The consumer implements what a consumer group promises: each of its     *)
(* steps, whatever has failed before, appends to a log, delivers or        *)
(* commits as Delivery allows, or changes nothing that Delivery speaks of. *)
(***************************************************************************)
THEOREM Implements == Spec => ImplementsDelivery
<1>1. Init => D!Init
  <2> SUFFICES ASSUME Init PROVE D!Init
    OBVIOUS
  <2>1. fromBeginning \in BOOLEAN
    BY OffsetsAssumption, Zenon DEF Init
  <2>2. logEnd \in [Partitions -> 0..MaxOffset]
    BY OffsetsAssumption DEF Init
  <2>3. /\ processed = [p \in Partitions |-> {}]
        /\ committed = [p \in Partitions |-> -1]
    BY DEF Init, None
  <2> QED
    BY <2>1, <2>2, <2>3 DEF D!Init
<1>2. Inv /\ Inv' /\ [Next]_vars => [D!Next]_(D!vars)
  <2> SUFFICES ASSUME Inv, Inv', Next PROVE D!Next \/ UNCHANGED D!vars
    BY DEF vars, D!vars, options, clusterVars
  <2>1. ASSUME NEW p \in Partitions, Produce(p) PROVE D!Append
    BY <2>1, OffsetsAssumption DEF Produce, D!Append, Inv, TypeOK, Offsets, options
  <2>2. ASSUME UNCHANGED <<fromBeginning, logEnd>> PROVE D!Deliver
    <3>1. \A p \in Partitions : committed'[p] <= logEnd[p]
      BY <2>2 DEF Inv, CommittedExists
    <3> QED
      BY <2>2, <3>1, CommitsAdvance, CommitsAreProcessed, ProcessedGrows DEF D!Deliver
  <2>3. UNCHANGED <<fromBeginning, logEnd>> \/ \E p \in Partitions : Produce(p)
    BY DEF Next, Assignments, Start, StartFails, Join, JoinFails, FetchFails, FetchReturns,
           ResolveOffset, BatchSucceeds, BatchFails, CommitSucceeds, CommitFails, Crash,
           Rebalance, OtherMemberCommits, options, clusterVars
  <2> QED
    BY <2>1, <2>2, <2>3 DEF D!Next
<1> QED
  BY <1>1, <1>2, Invariant, PTL DEF Spec, ImplementsDelivery, D!Spec
=============================================================================
