----------------------------- MODULE Producer -----------------------------
(***************************************************************************)
(* Producer.send of src/producer/producer.ts with the part of the cluster  *)
(* it talks to: several concurrent calls of send share a producer id, a    *)
(* sequence number per partition, a metadata cache and a lock per node.    *)
(*                                                                         *)
(* A send carries a batch of one record or more for each partition of      *)
(* msgs[s].  Its batches are grouped by the cached leader of their         *)
(* partition; each group is one PRODUCE request <<s, n>>, sent while the   *)
(* lock of node n is held.                                                 *)
(*                                                                         *)
(* The brokers are not part of the repository: the last section models     *)
(* what the code relies on.  A batch has the sequence numbers from its     *)
(* base on, one for each of its records.  A broker refuses what it does    *)
(* not lead, appends a batch whose base is the next number of its producer *)
(* id (or any number, of an id it does not know), acknowledges without     *)
(* appending a batch whose numbers, from the first to the last, are those  *)
(* of a batch it has, and refuses every other batch as out of order.  A    *)
(* real broker remembers the last five batches of an id only; it may       *)
(* refuse an older one, but never one whose answer send() still waits for. *)
(*                                                                         *)
(* Requests and responses can be lost at any time.  A scenario says what   *)
(* each call sends, which producer id the cluster hands out first, and     *)
(* bounds the lost calls, the leader changes and the lock timers that      *)
(* fire.                                                                   *)
(***************************************************************************)
EXTENDS Naturals

CONSTANTS
    Sends,          \* calls of send()
    Partitions,     \* the partitions of one topic
    Nodes,          \* broker nodes
    NoNode,         \* the leader of a partition missing from the cache
    LastSequence,   \* the largest int32
    Scenarios

ASSUME ConstantsAssumption ==
    /\ LastSequence \in Nat
    /\ NoNode \notin Nodes
    /\ Scenarios \subseteq [payload : [Sends -> [Partitions -> Nat]], firstPid : Nat,
                            faults : Nat, moves : Nat, overruns : Nat]

VARIABLES
    pc,         \* pc[s]: where the call s of send() is
    msgs,       \* msgs[s]: the partitions s has records for
    route,      \* route[s][p]: the leader s found in the cache
    sub,        \* sub[s][n]: the request of s to node n, as the client sees it
    stamp,      \* stamp[s][p]: the producer id and base sequence of the batch
    cause,      \* cause[s]: the error the catch block of s got first
    conn,       \* what the shared ensureConnected is doing
    pid,        \* this.producerId, 0 for none
    seq,        \* this.sequences of the topic
    cached,     \* cached[p]: the leader in the metadata cache
    nodeLock,   \* the keys `node:${nodeId}` of this.lock
    leader,     \* external: the leader of each partition
    log,        \* external: the sends whose batch is in the log of a partition
    arriving,   \* external: the requests no broker has handled yet
    reply,      \* external: the response on its way to the client
    nextPid,    \* external: the next producer id
    scenario,
    faults, moves, overruns     \* what is left of the bounds

sendVars == <<pc, msgs, route, sub, stamp, cause>>
clientVars == <<conn, pid, seq, cached, nodeLock>>
clusterVars == <<leader, log, arriving, reply, nextPid>>
bounds == <<scenario, faults, moves, overruns>>
vars == <<sendVars, clientVars, clusterVars, bounds>>

MaxFaults == scenario.faults
MaxMoves == scenario.moves
MaxOverruns == scenario.overruns

Errors == {"notLeader", "outOfOrder", "network", "overflow"}
Stages == {"new", "connecting", "connected", "sending", "recovering",
           "acked", "rejected"}
SubStages == {"none", "waiting", "sent", "cut", "ok", "failed"}

TypeOK ==
    /\ pc \in [Sends -> Stages]
    /\ msgs \in [Sends -> SUBSET Partitions]
    /\ route \in [Sends -> [Partitions -> Nodes \cup {NoNode}]]
    /\ sub \in [Sends -> [Nodes -> SubStages]]
    /\ stamp \in [Sends -> [Partitions -> [pid : Nat, seq : Nat]]]
    /\ cause \in [Sends -> Errors \cup {"none"}]
    /\ conn \in {"fresh", "idle", "reconnecting", "init", "stranded"}
    /\ pid \in Nat /\ nextPid \in Nat
    /\ seq \in [Partitions -> Nat]
    /\ cached \in [Partitions -> Nodes \cup {NoNode}]
    /\ nodeLock \in [Nodes -> BOOLEAN]
    /\ leader \in [Partitions -> Nodes]
    /\ log \in [Partitions -> SUBSET Sends]
    /\ arriving \subseteq Sends \X Nodes
    /\ reply \in [Sends -> [Nodes -> {"none", "ok"} \cup Errors]]
    /\ scenario \in Scenarios
    /\ faults \in 0..MaxFaults /\ moves \in 0..MaxMoves
    /\ overruns \in 0..MaxOverruns

Init ==
    /\ pc = [s \in Sends |-> "new"]
    /\ msgs = [s \in Sends |-> {}]
    /\ route = [s \in Sends |-> [p \in Partitions |-> NoNode]]
    /\ sub = [s \in Sends |-> [n \in Nodes |-> "none"]]
    /\ stamp = [s \in Sends |-> [p \in Partitions |-> [pid |-> 0, seq |-> 0]]]
    /\ cause = [s \in Sends |-> "none"]
    /\ conn = "fresh" /\ pid = 0
    /\ seq = [p \in Partitions |-> 0]
    /\ cached = [p \in Partitions |-> NoNode]
    /\ nodeLock = [n \in Nodes |-> FALSE]
    /\ leader \in [Partitions -> Nodes]
    /\ log = [p \in Partitions |-> {}]
    /\ arriving = {}
    /\ reply = [s \in Sends |-> [n \in Nodes |-> "none"]]
    /\ scenario \in Scenarios
    /\ nextPid = scenario.firstPid
    /\ faults = MaxFaults /\ moves = MaxMoves /\ overruns = MaxOverruns

\* The number of records s sends to p.
Records(s, p) == scenario.payload[s][p]

\* Mutant: every node of a send gets all of its partitions.
WholeSend(s, n) == IF \E p \in msgs[s] : route[s][p] = n THEN msgs[s] ELSE {}

\* The partitions in the request of s to node n.
Batch(s, n) == {p \in msgs[s] : route[s][p] = n}

-----------------------------------------------------------------------------
(* send() up to its requests.                                              *)

\* send() is called and joins the shared call of ensureConnected.
Call(s) ==
    /\ pc[s] = "new"
    /\ \E p \in Partitions : Records(s, p) > 0
    /\ pc' = [pc EXCEPT ![s] = "connecting"]
    /\ msgs' = [msgs EXCEPT ![s] = {p \in Partitions : Records(s, p) > 0}]
    /\ UNCHANGED <<route, sub, stamp, cause, clientVars, clusterVars, bounds>>

\* All calls that share ensureConnected go on together.
ReleaseCallers(stage) ==
    pc' = [s \in Sends |-> IF pc[s] = "connecting" THEN stage ELSE pc[s]]

\* Mutant: the sequences are dropped, and not counted from 0 again.
InitWithoutSequences ==
    /\ pid' = nextPid
    /\ nextPid' = nextPid + 1
    /\ seq' = [p \in {} |-> 0]

\* initProducerId, when the response arrives: a new id, sequences from 0.
InitProducerId ==
    /\ pid' = nextPid
    /\ nextPid' = nextPid + 1
    /\ seq' = [p \in Partitions |-> 0]

\* The cluster is connected: the id is asked for if it is falsy (0n is).
Connected ==
    IF pid = 0 THEN conn' = "init" /\ UNCHANGED pc
               ELSE conn' = "idle" /\ ReleaseCallers("connected")

(***************************************************************************)
(* The shared call begins.  Without a seed broker ("fresh") it makes new   *)
(* connections; a known broker whose socket is gone is reconnected in      *)
(* place.                                                                  *)
(***************************************************************************)
EnsureConnected ==
    /\ conn \in {"fresh", "idle"}
    /\ \E s \in Sends : pc[s] = "connecting"
    /\ \/ Connected
       \/ conn = "idle" /\ conn' = "reconnecting" /\ UNCHANGED pc
    /\ UNCHANGED <<msgs, route, sub, stamp, cause, pid, seq, cached, nodeLock,
                   clusterVars, bounds>>

\* The brokers are reconnected, in place or after a disconnect and connect.
Reconnects ==
    /\ conn = "reconnecting"
    /\ Connected
    /\ UNCHANGED <<msgs, route, sub, stamp, cause, pid, seq, cached, nodeLock,
                   clusterVars, bounds>>

ProducerIdArrives ==
    /\ conn = "init"
    /\ conn' = "idle"
    /\ InitProducerId
    /\ ReleaseCallers("connected")
    /\ UNCHANGED <<msgs, route, sub, stamp, cause, cached, nodeLock, leader,
                   log, arriving, reply, bounds>>

\* ensureConnected rejects, and with it every call that waits for it.
ConnectFails ==
    /\ faults > 0
    /\ conn # "stranded"
    /\ \E s \in Sends : pc[s] = "connecting"
    /\ faults' = faults - 1
    /\ conn' \in IF conn = "fresh" THEN {"fresh", "idle"} ELSE {"idle"}
    /\ ReleaseCallers("rejected")
    /\ UNCHANGED <<msgs, route, sub, stamp, cause, pid, seq, cached, nodeLock,
                   clusterVars, scenario, moves, overruns>>

(***************************************************************************)
(* fetchMetadataIfNecessary (only an unknown topic is fetched), then the   *)
(* records are grouped by the cached leader of their partition.            *)
(***************************************************************************)
Distribute(s) ==
    LET known == \A p \in Partitions : cached[p] # NoNode
        view == IF known THEN cached ELSE leader
    IN  /\ pc[s] = "connected"
        /\ pc' = [pc EXCEPT ![s] = "sending"]
        /\ cached' = view
        /\ route' = [route EXCEPT ![s] = view]
        /\ sub' = [sub EXCEPT ![s] =
                      [n \in Nodes |-> IF \E p \in msgs[s] : view[p] = n
                                       THEN "waiting" ELSE "none"]]
        /\ UNCHANGED <<msgs, stamp, cause, conn, pid, seq, nodeLock,
                       clusterVars, bounds>>

\* The topic is unknown and its metadata does not arrive: send() rejects.
MetadataFails(s) ==
    /\ pc[s] = "connected"
    /\ \E p \in Partitions : cached[p] = NoNode
    /\ faults > 0
    /\ faults' = faults - 1
    /\ pc' = [pc EXCEPT ![s] = "rejected"]
    /\ UNCHANGED <<msgs, route, sub, stamp, cause, clientVars, clusterVars,
                   scenario, moves, overruns>>

-----------------------------------------------------------------------------
(* One PRODUCE request, under the lock of its node.                        *)

\* The lock of n is free: the batch gets its sequence numbers and is sent.
SendRequest(s, n) ==
    /\ sub[s][n] = "waiting"
    /\ ~nodeLock[n]
    /\ \A p \in Batch(s, n) : seq[p] <= LastSequence
    /\ nodeLock' = [nodeLock EXCEPT ![n] = TRUE]
    /\ sub' = [sub EXCEPT ![s][n] = "sent"]
    /\ stamp' = [stamp EXCEPT ![s] =
                    [p \in Partitions |-> IF p \in Batch(s, n)
                                          THEN [pid |-> pid, seq |-> seq[p]]
                                          ELSE @[p]]]
    /\ arriving' = arriving \cup {<<s, n>>}
    /\ UNCHANGED <<pc, msgs, route, cause, conn, pid, seq, cached, leader, log,
                   reply, nextPid, bounds>>

\* The 60 second timer of a waiter frees the lock of a request in flight.
LockTimerFires(n) ==
    /\ overruns > 0
    /\ nodeLock[n]
    /\ \E s \in Sends : sub[s][n] = "waiting"
    /\ overruns' = overruns - 1
    /\ nodeLock' = [nodeLock EXCEPT ![n] = FALSE]
    /\ UNCHANGED <<sendVars, conn, pid, seq, cached, clusterVars, scenario,
                   faults, moves>>

\* Mutant: updateSequence is not called.
SucceedsWithoutUpdate(s, n) ==
    /\ sub[s][n] = "sent"
    /\ reply[s][n] = "ok"
    /\ sub' = [sub EXCEPT ![s][n] = "ok"]
    /\ nodeLock' = [nodeLock EXCEPT ![n] = FALSE]
    /\ pc' = IF /\ pc[s] = "sending"
                /\ \A m \in Nodes \ {n} : sub[s][m] \in {"none", "ok"}
             THEN [pc EXCEPT ![s] = "acked"] ELSE pc
    /\ UNCHANGED <<msgs, route, stamp, cause, conn, pid, seq, cached,
                   clusterVars, bounds>>

(***************************************************************************)
(* The request of s to n succeeded: the sequences advance by the records   *)
(* that were sent and the lock is freed; send() resolves with its last     *)
(* request.                                                                *)
(***************************************************************************)
RequestSucceeds(s, n) ==
    /\ sub[s][n] = "sent"
    /\ reply[s][n] = "ok"
    /\ sub' = [sub EXCEPT ![s][n] = "ok"]
    /\ seq' = [p \in Partitions |->
                  IF p \in Batch(s, n) THEN seq[p] + Records(s, p) ELSE seq[p]]
    /\ nodeLock' = [nodeLock EXCEPT ![n] = FALSE]
    /\ pc' = IF /\ pc[s] = "sending"
                /\ \A m \in Nodes \ {n} : sub[s][m] \in {"none", "ok"}
             THEN [pc EXCEPT ![s] = "acked"] ELSE pc
    /\ UNCHANGED <<msgs, route, stamp, cause, conn, pid, cached, clusterVars,
                   bounds>>

\* Mutant: the sequences advance although the request failed.
RejectsWithUpdate(s, n, e) ==
    /\ sub' = [sub EXCEPT ![s][n] = "failed"]
    /\ nodeLock' = [nodeLock EXCEPT ![n] = FALSE]
    /\ seq' = [p \in Partitions |->
                  IF p \in Batch(s, n) THEN seq[p] + Records(s, p) ELSE seq[p]]
    /\ IF pc[s] = "sending"
       THEN /\ pc' = [pc EXCEPT ![s] = "recovering"]
            /\ cause' = [cause EXCEPT ![s] = e]
       ELSE UNCHANGED <<pc, cause>>
    /\ UNCHANGED <<msgs, route, stamp, conn, pid, cached, clusterVars>>

(***************************************************************************)
(* The request of s to n failed with error e: the lock is freed, the       *)
(* sequences stay.  The first failure takes send() to its catch block,     *)
(* its other requests go on.                                               *)
(***************************************************************************)
RequestRejects(s, n, e) ==
    /\ sub' = [sub EXCEPT ![s][n] = "failed"]
    /\ nodeLock' = [nodeLock EXCEPT ![n] = FALSE]
    /\ IF pc[s] = "sending"
       THEN /\ pc' = [pc EXCEPT ![s] = "recovering"]
            /\ cause' = [cause EXCEPT ![s] = e]
       ELSE UNCHANGED <<pc, cause>>
    /\ UNCHANGED <<msgs, route, stamp, conn, pid, seq, cached, clusterVars>>

(***************************************************************************)
(* The lock is free, but the base sequence has outgrown int32: sequences   *)
(* never wrap, and encoding the request throws before anything is sent.    *)
(***************************************************************************)
SequenceOverflows(s, n) ==
    /\ sub[s][n] = "waiting"
    /\ ~nodeLock[n]
    /\ \E p \in Batch(s, n) : seq[p] > LastSequence
    /\ RequestRejects(s, n, "overflow")
    /\ UNCHANGED bounds

\* The response carries an error code for one of the partitions.
ErrorArrives(s, n) ==
    /\ sub[s][n] = "sent"
    /\ reply[s][n] \in Errors
    /\ RequestRejects(s, n, reply[s][n])
    /\ UNCHANGED bounds

\* Mutant: a request whose connection was cut has no timer.
FailsOnlyConnected(s, n) ==
    /\ sub[s][n] = "sent" /\ faults > 0 /\ faults' = faults - 1
    /\ RequestRejects(s, n, "network")
    /\ UNCHANGED <<scenario, moves, overruns>>

(***************************************************************************)
(* The request times out or its connection breaks, whatever the broker     *)
(* has done or will still do with it.  A request whose connection send()   *)
(* or close() has cut always ends this way.                                *)
(***************************************************************************)
RequestFails(s, n) ==
    /\ \/ sub[s][n] = "cut" /\ UNCHANGED faults
       \/ sub[s][n] = "sent" /\ faults > 0 /\ faults' = faults - 1
    /\ RequestRejects(s, n, "network")
    /\ UNCHANGED <<scenario, moves, overruns>>

-----------------------------------------------------------------------------
(* The catch block, and close().                                           *)

(***************************************************************************)
(* cluster.disconnect drops the connections under the requests in flight;  *)
(* a request whose broker is still connecting survives.  It also removes   *)
(* the listeners of a socket that is being reconnected: neither its open   *)
(* nor its error is heard again, and the shared call never ends.           *)
(***************************************************************************)
Disconnect ==
    /\ \E lost \in SUBSET {r \in Sends \X Nodes : sub[r[1]][r[2]] = "sent"} :
          sub' = [s \in Sends |-> [n \in Nodes |->
                      IF <<s, n>> \in lost THEN "cut" ELSE sub[s][n]]]
    /\ conn' \in IF conn = "reconnecting" THEN {conn, "stranded"} ELSE {conn}

\* The catch block runs to its rethrow.
Recover(s) ==
    /\ pc[s] = "recovering"
    /\ pc' = [pc EXCEPT ![s] = "rejected"]
    /\ cached' = IF cause[s] = "notLeader" THEN leader ELSE cached
    /\ IF cause[s] = "outOfOrder" THEN InitProducerId
                                  ELSE UNCHANGED <<pid, nextPid, seq>>
    /\ Disconnect
    /\ UNCHANGED <<msgs, route, stamp, cause, nodeLock, leader, log, arriving,
                   reply, bounds>>

\* fetchMetadata or initProducerId fails inside the catch block.
RecoverFails(s) ==
    /\ pc[s] = "recovering"
    /\ cause[s] # "network"
    /\ faults > 0
    /\ faults' = faults - 1
    /\ pc' = [pc EXCEPT ![s] = "rejected"]
    /\ UNCHANGED <<msgs, route, sub, stamp, cause, clientVars, clusterVars,
                   scenario, moves, overruns>>

\* close(), which only disconnects: a later send connects again.
Close ==
    /\ faults > 0
    /\ faults' = faults - 1
    /\ Disconnect
    /\ UNCHANGED <<pc, msgs, route, stamp, cause, pid, seq, cached, nodeLock,
                   clusterVars, scenario, moves, overruns>>

-----------------------------------------------------------------------------
(* The brokers (external).                                                 *)

\* The sends whose batch partition p has accepted under producer id i.
Accepted(p, i) == {t \in log[p] : stamp[t][p].pid = i}

\* The sequence number after those of the batch of s for p.
NextNumber(s, p) == stamp[s][p].seq + Records(s, p)

\* The batches of s and t for p have the same numbers, first to last.
SameNumbers(s, t, p) ==
    stamp[s][p] = stamp[t][p] /\ Records(s, p) = Records(t, p)

\* The batch of s for p begins where the accepted ones of its id end.
Continues(s, p) ==
    LET acc == Accepted(p, stamp[s][p].pid)
    IN  acc # {} => /\ \E t \in acc : NextNumber(t, p) = stamp[s][p].seq
                    /\ \A t \in acc : NextNumber(t, p) <= stamp[s][p].seq

\* What the broker n does with the batch of s for p.
Verdict(s, n, p) ==
    IF leader[p] # n THEN "notLeader"
    ELSE IF \E t \in log[p] : SameNumbers(s, t, p) THEN "duplicate"
    ELSE IF Continues(s, p) THEN "append"
    ELSE "outOfOrder"

\* Partitions are handled one by one; the client sees one of the errors.
BrokerHandles(s, n) ==
    LET ps == Batch(s, n)
        errs == {Verdict(s, n, p) : p \in ps} \cap Errors
    IN  /\ <<s, n>> \in arriving
        /\ arriving' = arriving \ {<<s, n>>}
        /\ log' = [p \in Partitions |->
                      IF p \in ps /\ Verdict(s, n, p) = "append"
                      THEN log[p] \cup {s} ELSE log[p]]
        /\ \E r \in IF errs = {} THEN {"ok"} ELSE errs :
              reply' = [reply EXCEPT ![s][n] = r]
        /\ UNCHANGED <<sendVars, clientVars, leader, nextPid, bounds>>

MoveLeader(p, n) ==
    /\ moves > 0
    /\ moves' = moves - 1
    /\ leader[p] # n
    /\ leader' = [leader EXCEPT ![p] = n]
    /\ UNCHANGED <<sendVars, clientVars, log, arriving, reply, nextPid, scenario,
                   faults, overruns>>

-----------------------------------------------------------------------------

Next ==
    \/ EnsureConnected \/ Reconnects \/ ProducerIdArrives \/ ConnectFails \/ Close
    \/ \E s \in Sends : Call(s)
    \/ \E s \in Sends :
          Distribute(s) \/ MetadataFails(s) \/ Recover(s) \/ RecoverFails(s)
    \/ \E s \in Sends, n \in Nodes :
          \/ SendRequest(s, n) \/ RequestSucceeds(s, n) \/ ErrorArrives(s, n)
          \/ SequenceOverflows(s, n) \/ RequestFails(s, n) \/ BrokerHandles(s, n)
    \/ \E n \in Nodes : LockTimerFires(n) \/ \E p \in Partitions : MoveLeader(p, n)

(***************************************************************************)
(* Continuations run, a cut request times out after requestTimeout, and a  *)
(* request that is not lost is answered.                                   *)
(***************************************************************************)
Fairness ==
    /\ WF_vars(EnsureConnected) /\ WF_vars(Reconnects)
    /\ WF_vars(ProducerIdArrives)
    /\ \A s \in Sends : WF_vars(Distribute(s)) /\ WF_vars(Recover(s))
    /\ \A s \in Sends, n \in Nodes :
          /\ WF_vars(SendRequest(s, n) \/ SequenceOverflows(s, n))
          /\ WF_vars(RequestSucceeds(s, n))
          /\ WF_vars(ErrorArrives(s, n)) /\ WF_vars(BrokerHandles(s, n))
          /\ WF_vars(sub[s][n] = "cut" /\ RequestFails(s, n))

Spec == Init /\ [][Next]_vars

FairSpec == Spec /\ Fairness

-----------------------------------------------------------------------------

\* The batch of s for p never reached the log although send() resolved.
AckedButMissing(s, p) == pc[s] = "acked" /\ p \in msgs[s] /\ s \notin log[p]

(***************************************************************************)
(* What the callers of send() rely on: when send() resolves, its messages  *)
(* are in the log.  The code does not keep this (see LossExplained).       *)
(***************************************************************************)
AckedLogged == \A s \in Sends, p \in Partitions : ~AckedButMissing(s, p)

(***************************************************************************)
(* The only way to lose an acknowledged batch: its sequence numbers were   *)
(* taken in the log by another batch of as many records, whose request     *)
(* failed (so that the sequence did not advance), or which went through    *)
(* another node's lock because the cached leader changed, or past a lock   *)
(* timer.  As long as requests succeed and leaders stay, the node lock is  *)
(* enough.                                                                 *)
(***************************************************************************)
LossExplained ==
    \A s \in Sends, p \in Partitions : AckedButMissing(s, p) =>
        \E t \in log[p] \ {s} :
            /\ SameNumbers(s, t, p)
            /\ \/ sub[t][route[t][p]] # "ok"
               \/ route[t][p] # route[s][p]
               \/ overruns < MaxOverruns

(***************************************************************************)
(* A request of send() is refused as OUT_OF_ORDER_SEQUENCE_NUMBER only     *)
(* after a leader moved, a lock timer fired, or a batch with another       *)
(* number of records took its base: one that reached the log although its  *)
(* request failed, so that its records were never counted.  Requests that  *)
(* are lost before a broker has them, late broker work and new producer    *)
(* ids leave no gap in the sequence.                                       *)
(***************************************************************************)
GapExplained ==
    \A s \in Sends, n \in Nodes :
        sub[s][n] = "sent" /\ reply[s][n] = "outOfOrder" =>
            \/ moves < MaxMoves \/ overruns < MaxOverruns
            \/ \E p \in Batch(s, n) : \E t \in log[p] :
                  /\ stamp[t][p] = stamp[s][p] /\ Records(t, p) # Records(s, p)
                  /\ sub[t][n] = "failed"

(***************************************************************************)
(* Calls of send() that overlap do not make each other fail: one rejects   *)
(* only after a lost call, a leader change or a lock timer, or when the    *)
(* sequence of a partition has outgrown int32.  That last failure is for   *)
(* good, and it disconnects the sends that run beside it.                  *)
(***************************************************************************)
RejectionExplained ==
    \A s \in Sends : pc[s] = "rejected" =>
        \/ faults < MaxFaults \/ moves < MaxMoves \/ overruns < MaxOverruns
        \/ \E t \in Sends : cause[t] = "overflow"

(***************************************************************************)
(* Every send() settles, whatever fails: no node lock is kept, no request  *)
(* that a concurrent send disconnected stays pending.  The one exception   *)
(* is in the code: a disconnect that strands ensureConnected strands the   *)
(* calls that share it, and every later one.                               *)
(***************************************************************************)
SendSettlesUnlessStranded ==
    \A s \in Sends : pc[s] = "connecting" ~>
                        pc[s] \in {"acked", "rejected"} \/ conn = "stranded"
=============================================================================
