-------------------------- MODULE ConsumerOffsets --------------------------
(***************************************************************************)
(* Which messages a consumer of a group processes and commits, across      *)
(* failed batches, failed commits, rebalances, restarts and crashes:       *)
(* OffsetManager (src/consumer/offset-manager.ts), Consumer.process and    *)
(* the way startFetchManager goes on after an error (consumer.ts), and     *)
(* offsetFetch and offsetCommit (consumer-group.ts).                       *)
(*                                                                         *)
(* The messages of a partition are its offsets 0 .. logEnd[p] - 1.  The    *)
(* group's coordinator and the other members are external: a coordinator   *)
(* keeps the committed offsets and refuses commits of a past generation.   *)
(***************************************************************************)
EXTENDS Integers, FiniteSets

CONSTANTS
    Partitions,
    Starts,         \* values of the option fromBeginning
    Groups,         \* whether the group has other members
    MaxOffset,      \* bound on the log of a partition
    MaxErrors,      \* bound on failures of this consumer
    MaxRebalances   \* bound on rebalances started by others

ASSUME OffsetsAssumption ==
    /\ Starts \subseteq BOOLEAN /\ Groups \subseteq BOOLEAN
    /\ MaxOffset \in Nat \ {0} /\ MaxErrors \in Nat /\ MaxRebalances \in Nat

VARIABLES
    fromBeginning,  \* the option: start from the earliest, not the latest offset
    otherMembers,   \* external: the group has other members
    pc,         \* where start(), startFetchManager() and process() await
    current,    \* currentOffsets, 0 where unset
    pending,    \* pendingOffsets, None where unset
    assigned,   \* metadata.getAssignment()
    fetched,    \* the partitions of the response in process()
    lo, hi,     \* its records of p are lo[p] .. hi[p] - 1
    origin,     \* history: where this process first began to read, None before
    processed,  \* history: the messages an onBatch of the group has handled
    committed,  \* external: the committed offsets of the group, None if none
    stale,      \* external: the group has moved on from our generation
    logEnd,     \* external: the end of each log
    errors, rebalances      \* what is left of the bounds

offsetVars == <<current, pending>>
batchVars == <<fetched, lo, hi>>
clusterVars == <<committed, stale, logEnd>>
options == <<fromBeginning, otherMembers>>
vars == <<options, pc, offsetVars, assigned, batchVars, origin, processed,
          clusterVars, errors, rebalances>>

None == -1
Offsets == 0..MaxOffset

TypeOK ==
    /\ fromBeginning \in BOOLEAN /\ otherMembers \in BOOLEAN
    /\ pc \in {"starting", "joining", "fetching", "processing", "committing",
               "failing"}
    /\ current \in [Partitions -> Offsets]
    /\ \A p \in Partitions : current[p] <= logEnd[p] /\ pending[p] <= logEnd[p]
    /\ pending \in [Partitions -> Offsets \cup {None}]
    /\ assigned \subseteq Partitions
    /\ fetched \subseteq Partitions
    /\ lo \in [Partitions -> Offsets] /\ hi \in [Partitions -> Offsets]
    /\ origin \in [Partitions -> Offsets \cup {None}]
    /\ processed \in [Partitions -> SUBSET Offsets]
    /\ committed \in [Partitions -> Offsets \cup {None}]
    /\ stale \in BOOLEAN
    /\ logEnd \in [Partitions -> Offsets]
    /\ errors \in 0..MaxErrors /\ rebalances \in 0..MaxRebalances

Init ==
    /\ fromBeginning \in Starts /\ otherMembers \in Groups
    /\ pc = "starting"
    /\ current = [p \in Partitions |-> 0]
    /\ pending = [p \in Partitions |-> None]
    /\ assigned = {} /\ fetched = {}
    /\ lo = [p \in Partitions |-> 0] /\ hi = [p \in Partitions |-> 0]
    /\ origin = [p \in Partitions |-> None]
    /\ processed = [p \in Partitions |-> {}]
    /\ committed = [p \in Partitions |-> None]
    /\ stale = FALSE
    /\ logEnd \in [Partitions -> {0, 1}]
    /\ errors = MaxErrors /\ rebalances = MaxRebalances

-----------------------------------------------------------------------------
(* OffsetManager.                                                          *)

\* flush(): a pending offset becomes current if it is truthy, which 0n is not.
Flush(ps, pend) ==
    LET moved == {p \in ps : pend[p] > 0}
    IN  /\ current' = [p \in Partitions |-> IF p \in moved THEN pend[p]
                                                          ELSE current[p]]
        /\ pending' = [p \in Partitions |-> IF p \in moved THEN None
                                                          ELSE pend[p]]

\* Mutant: the next message counts as resolved.
IsResolvedOrNext(p, o) == current[p] >= o \/ pending[p] > o

\* isResolved(): the message o of p is behind the current or pending offset.
IsResolved(p, o) == current[p] > o \/ pending[p] > o

\* The messages of the response that onBatch is called with.
Messages(p) == {o \in lo[p] .. hi[p] - 1 : ~IsResolved(p, o)}

-----------------------------------------------------------------------------
(* Starting and joining.                                                   *)

(***************************************************************************)
(* listOffsets for the partitions ps: the earliest or the latest offset is *)
(* flushed over whatever was current or pending before.                    *)
(***************************************************************************)
Listed(p) == IF fromBeginning THEN 0 ELSE logEnd[p]

ListOffsets(ps) ==
    Flush(ps, [p \in Partitions |-> IF p \in ps THEN Listed(p) ELSE pending[p]])

\* start() assigns itself all partitions and lists their offsets.
Start ==
    /\ pc = "starting"
    /\ pc' = "joining"
    /\ assigned' = Partitions
    /\ ListOffsets(Partitions)
    /\ origin' = [p \in Partitions |-> IF origin[p] = None THEN Listed(p)
                                                          ELSE origin[p]]
    /\ UNCHANGED <<options, batchVars, processed, clusterVars, errors, rebalances>>

\* start() fails, some nodes have answered: after a second it runs again.
StartFails(ps) ==
    /\ pc = "starting"
    /\ errors > 0
    /\ errors' = errors - 1
    /\ assigned' = Partitions
    /\ ListOffsets(ps)
    /\ UNCHANGED <<options, pc, batchVars, origin, processed, clusterVars,
                   rebalances>>

\* Mutant: join() without offsetFetch.
JoinWithoutOffsets(ps) ==
    /\ pc = "joining"
    /\ pc' = "fetching"
    /\ assigned' = ps
    /\ stale' = FALSE
    /\ UNCHANGED <<options, offsetVars, batchVars, origin, processed, committed,
                   logEnd, errors, rebalances>>

\* join(): a new generation assigns ps, whose committed offsets are fetched.
Join(ps) ==
    LET known == {p \in ps : committed[p] >= 0}
    IN  /\ pc = "joining"
        /\ pc' = "fetching"
        /\ assigned' = ps
        /\ stale' = FALSE
        /\ Flush(known, [p \in Partitions |-> IF p \in known THEN committed[p]
                                                             ELSE pending[p]])
        /\ UNCHANGED <<options, batchVars, origin, processed, committed,
                       logEnd, errors, rebalances>>

\* join() fails, before or after it has set the assignment to ps.
JoinFails(ps) ==
    /\ pc = "joining"
    /\ errors > 0
    /\ errors' = errors - 1
    /\ pc' = "starting"
    /\ assigned' \in {assigned, ps}
    /\ UNCHANGED <<options, offsetVars, batchVars, origin, processed,
                   clusterVars, rebalances>>

\* The catch block of the loop: rejoin after a rebalance, otherwise restart.
Catch(e) == pc' = IF e = "rebalance" THEN "joining" ELSE "starting"

\* A heartbeat, or a fetch, fails between two batches.
FetchFails(e) ==
    /\ pc = "fetching"
    /\ IF e = "rebalance" THEN stale /\ UNCHANGED errors
                          ELSE errors > 0 /\ errors' = errors - 1
    /\ Catch(e)
    /\ UNCHANGED <<options, offsetVars, assigned, batchVars, origin, processed,
                   clusterVars, rebalances>>

-----------------------------------------------------------------------------
(* Fetching and processing one response.                                   *)

(***************************************************************************)
(* A response for the partitions ps of one node.  It may begin before the  *)
(* offset asked for: a broker returns whole record batches.  process()     *)
(* returns at once if there is no message.                                 *)
(***************************************************************************)
FetchReturns(ps) ==
    LET behind == {p \in ps : current[p] < logEnd[p]}
    IN  /\ pc = "fetching"
        /\ behind # {}
        /\ pc' = "processing"
        /\ fetched' = ps
        /\ \E back \in SUBSET {p \in behind : current[p] > 0} :
              lo' = [p \in Partitions |-> IF p \in back THEN current[p] - 1
                                                       ELSE current[p]]
        /\ hi' = [p \in Partitions |-> IF p \in ps THEN logEnd[p] ELSE current[p]]
        /\ UNCHANGED <<options, offsetVars, assigned, origin, processed,
                       clusterVars, errors, rebalances>>

\* onBatch handles the next message of p and calls resolveOffset for it.
ResolveOffset(p, o) ==
    /\ pc = "processing"
    /\ o \in Messages(p)
    /\ \A m \in Messages(p) : o <= m
    /\ processed' = [processed EXCEPT ![p] = @ \cup {o}]
    /\ pending' = [pending EXCEPT ![p] = o + 1]
    /\ UNCHANGED <<options, pc, current, assigned, batchVars, origin,
                   clusterVars, errors, rebalances>>

\* Mutant: the offset after the last one of the batch, plus one.
SucceedsBeyond ==
    /\ pc = "processing"
    /\ pc' = "committing"
    /\ processed' = [p \in Partitions |-> processed[p] \cup Messages(p)]
    /\ pending' = [p \in Partitions |-> IF lo[p] < hi[p] THEN hi[p] + 1
                                                       ELSE pending[p]]
    /\ UNCHANGED <<options, current, assigned, batchVars, origin, clusterVars,
                   errors, rebalances>>

\* onBatch returns: everything that was fetched is resolved.
BatchSucceeds ==
    /\ pc = "processing"
    /\ pc' = "committing"
    /\ processed' = [p \in Partitions |-> processed[p] \cup Messages(p)]
    /\ pending' = [p \in Partitions |-> IF lo[p] < hi[p]
                                        THEN hi[p] ELSE pending[p]]
    /\ UNCHANGED <<options, current, assigned, batchVars, origin, clusterVars,
                   errors, rebalances>>

\* Mutant: a failed batch is resolved like one that succeeded.
FailsResolved ==
    /\ pc = "processing"
    /\ pc' = "failing"
    /\ errors > 0
    /\ errors' = errors - 1
    /\ pending' = [p \in Partitions |-> IF lo[p] < hi[p] THEN hi[p] ELSE pending[p]]
    /\ UNCHANGED <<options, current, assigned, batchVars, origin, processed,
                   clusterVars, rebalances>>

\* onBatch failed in every attempt of the retrier.
BatchFails ==
    /\ pc = "processing"
    /\ pc' = "failing"
    /\ errors > 0
    /\ errors' = errors - 1
    /\ UNCHANGED <<options, offsetVars, assigned, batchVars, origin, processed,
                   clusterVars, rebalances>>

\* The coordinator stores the pending offsets of the response's partitions.
CommitPending ==
    /\ ~stale
    /\ committed' = [p \in Partitions |-> IF p \in fetched /\ pending[p] # None
                                          THEN pending[p] ELSE committed[p]]

\* offsetCommit succeeds: flush, and fetch again or rethrow what onBatch threw.
CommitSucceeds ==
    /\ pc \in {"committing", "failing"}
    /\ CommitPending
    /\ Flush(fetched, pending)
    /\ pc' = IF pc = "committing" THEN "fetching" ELSE "starting"
    /\ UNCHANGED <<options, assigned, batchVars, origin, processed, stale,
                   logEnd, errors, rebalances>>

(***************************************************************************)
(* offsetCommit fails, refused or with its response lost.  Its error takes *)
(* the place of the error of onBatch; the pending offsets stay.            *)
(***************************************************************************)
CommitFails(e) ==
    /\ pc \in {"committing", "failing"}
    /\ IF stale THEN UNCHANGED errors ELSE errors > 0 /\ errors' = errors - 1
    /\ e = "rebalance" => stale
    /\ CommitPending \/ UNCHANGED committed
    /\ Catch(e)
    /\ UNCHANGED <<options, offsetVars, assigned, batchVars, origin, processed,
                   stale, logEnd, rebalances>>

\* The process dies; another starts with an empty OffsetManager.
Crash ==
    /\ errors > 0
    /\ errors' = errors - 1
    /\ pc' = "starting"
    /\ current' = [p \in Partitions |-> 0]
    /\ pending' = [p \in Partitions |-> None]
    /\ fetched' = {} /\ lo' = current' /\ hi' = current'
    /\ origin' = [p \in Partitions |-> None]
    /\ UNCHANGED <<options, assigned, processed, clusterVars, rebalances>>

-----------------------------------------------------------------------------
(* The rest of the world (external).                                       *)

Produce(p) ==
    /\ logEnd[p] < MaxOffset
    /\ logEnd' = [logEnd EXCEPT ![p] = @ + 1]
    /\ UNCHANGED <<options, pc, offsetVars, assigned, batchVars, origin,
                   processed, committed, stale, errors, rebalances>>

\* The group moves to a new generation while we work for the old one.
Rebalance ==
    /\ rebalances > 0
    /\ rebalances' = rebalances - 1
    /\ pc \in {"fetching", "processing", "committing", "failing"}
    /\ stale' = TRUE
    /\ UNCHANGED <<options, pc, offsetVars, assigned, batchVars, origin,
                   processed, committed, logEnd, errors>>

\* Another member, which owns p now, processes from the committed offset on.
OtherMemberCommits(p, o) ==
    /\ otherMembers
    /\ stale \/ p \notin assigned \/ pc \in {"starting", "joining"}
    /\ committed[p] >= 0
    /\ o \in committed[p] + 1 .. logEnd[p]
    /\ processed' = [processed EXCEPT ![p] = @ \cup committed[p] .. o - 1]
    /\ committed' = [committed EXCEPT ![p] = o]
    /\ UNCHANGED <<options, pc, offsetVars, assigned, batchVars, origin, stale,
                   logEnd, errors, rebalances>>

-----------------------------------------------------------------------------

\* Without other members every partition is ours.
Assignments == IF otherMembers THEN SUBSET Partitions ELSE {Partitions}

Next ==
    \/ Start
    \/ \E ps \in SUBSET Partitions : StartFails(ps)
    \/ \E ps \in Assignments : Join(ps) \/ JoinFails(ps)
    \/ \E e \in {"rebalance", "restart"} : FetchFails(e) \/ CommitFails(e)
    \/ \E ps \in SUBSET assigned : FetchReturns(ps)
    \/ \E p \in Partitions, o \in Offsets : ResolveOffset(p, o)
    \/ BatchSucceeds \/ BatchFails \/ CommitSucceeds \/ Crash \/ Rebalance
    \/ \E p \in Partitions : Produce(p)
    \/ \E p \in Partitions, o \in Offsets : OtherMemberCommits(p, o)

(***************************************************************************)
(* Requests are answered or time out and onBatch returns; a member of a    *)
(* past generation learns it from its next heartbeat.                      *)
(***************************************************************************)
Fairness ==
    /\ WF_vars(Start)
    /\ WF_vars(\E ps \in Assignments : Join(ps))
    /\ WF_vars(FetchFails("rebalance"))
    /\ WF_vars(FetchReturns(assigned))
    /\ WF_vars(BatchSucceeds)
    /\ WF_vars(CommitSucceeds)
    /\ WF_vars(stale /\ \E e \in {"rebalance", "restart"} : CommitFails(e))

Spec == Init /\ [][Next]_vars

FairSpec == Spec /\ Fairness

-----------------------------------------------------------------------------

(***************************************************************************)
(* At least once: a consumer that starts from the beginning commits,       *)
(* whatever fails, only offsets behind which every message was processed.  *)
(***************************************************************************)
CommittedIsProcessed ==
    fromBeginning => \A p \in Partitions : \A o \in Offsets :
        o < committed[p] => o \in processed[p]

D == INSTANCE Delivery WITH
        Partitions <- Partitions, MaxOffset <- MaxOffset,
        fromBeginning <- fromBeginning, logEnd <- logEnd,
        processed <- processed, committed <- committed

(***************************************************************************)
(* The consumer keeps what a group promises (module Delivery): whatever    *)
(* start() lists and whatever a member left pending when its commit        *)
(* failed, a commit never moves the group back, and once the group has a   *)
(* committed offset beyond 0 it moves only over processed messages.        *)
(***************************************************************************)
ImplementsDelivery == D!Spec

(***************************************************************************)
(* A member of the current generation hands onBatch no message that the    *)
(* group has already committed, even if its response was lost.             *)
(***************************************************************************)
CommittedIsNotRedelivered ==
    pc = "processing" /\ ~stale =>
        \A p \in Partitions : \A o \in Messages(p) : o >= committed[p]

(***************************************************************************)
(* A consumer alone in its group that starts from the beginning processes  *)
(* every message, however often it fails before.                           *)
(***************************************************************************)
EveryMessageProcessed ==
    \A p \in Partitions : \A o \in Offsets :
        (fromBeginning /\ ~otherMembers /\ o < logEnd[p]) ~> o \in processed[p]

-----------------------------------------------------------------------------
(* What the README says of failures, and the code does not keep.           *)

(***************************************************************************)
(* A batch that failed is not skipped by the restart: the position passes  *)
(* over no message of the last response that was not processed.  But a     *)
(* restart lists the latest offsets again, and nothing takes the position  *)
(* back while the group has no committed offset.                           *)
(***************************************************************************)
FailedBatchIsNotSkipped ==
    pc = "fetching" => \A p \in assigned : \A o \in lo[p] .. hi[p] - 1 :
        origin[p] <= o /\ o < current[p] => o \in processed[p]
=============================================================================
