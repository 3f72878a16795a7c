-------------------------- MODULE GroupMembership --------------------------
(***************************************************************************)
(* The members of one consumer group: ConsumerGroup of                     *)
(* src/consumer/consumer-group.ts, with what the loop of consumer.ts does  *)
(* with its errors, against the group coordinator of Kafka (external).     *)
(*                                                                         *)
(* Each member sends its requests to the coordinator over one connection,  *)
(* which answers in order: a heartbeat sent behind a parked JoinGroup or   *)
(* SyncGroup waits for it.  The heartbeat interval goes on while a member  *)
(* rejoins, so heartbeats of the old generation are answered in between.   *)
(*                                                                         *)
(* The members are dynamic ones (no groupInstanceId), each with topics of  *)
(* its own.  The partitions of all topics are numbered in the order in     *)
(* which a leader goes through them.  A member has at most one heartbeat   *)
(* on its way.                                                             *)
(***************************************************************************)
EXTENDS Naturals, Sequences, FiniteSets

CONSTANTS Members, NumPartitions, Scenarios

Partitions == 0 .. NumPartitions - 1

(***************************************************************************)
(* A scenario has the partitions of the topics that each member subscribes *)
(* to, and the bounds: how many connections break and sessions expire, how *)
(* many members leave for good, and the generations after which no member  *)
(* starts any more if the subscriptions differ.                            *)
(***************************************************************************)
ASSUME GroupAssumption ==
    /\ NumPartitions \in Nat
    /\ \A s \in Scenarios :
          /\ s.subscription \in [Members -> SUBSET Partitions]
          /\ {s.faults, s.leaves, s.generations} \subseteq Nat

VARIABLES
    scenario,
    pc,         \* pc[m]: what the loop of m awaits
    memberId,   \* this.memberId, 0 for ''
    generationId,
    assignment, \* metadata.getAssignment()
    ticking,    \* whether this.heartbeatInterval is set
    heartbeatError, \* the error, with the id and generation it was sent for
    plan,       \* the assignments of the SyncGroup request of m
    connected,  \* whether the connection to the coordinator works
    queue,      \* external: the requests of m that are not answered yet
    parked,     \* external: the members whose first request waits for others
    replies,    \* external: the responses on their way to m
    group,      \* external: "empty", "preparing", "completing", "stable"
    generation, \* external: the generation of the group
    ids,        \* external: the members of the group
    pendingIds, \* external: ids given out with MEMBER_ID_REQUIRED
    joined,     \* external: the members that have joined while it prepares
    leaderId,   \* external: the member that assigns
    target,     \* external: the assignment of every id
    nextId,     \* external: the next member id
    faults, leaves      \* what is left of the bounds

clientVars == <<pc, memberId, generationId, assignment, ticking,
                heartbeatError, plan, connected>>
linkVars == <<queue, parked, replies>>
groupVars == <<group, generation, ids, pendingIds, joined, leaderId, target,
               nextId>>
bounds == <<scenario, faults, leaves>>
vars == <<clientVars, linkVars, groupVars, bounds>>

Failures == {"rebalance", "unknown", "illegal", "network"}
NoError == [kind |-> "none", id |-> 0, gen |-> 0]

TypeOK ==
    /\ pc \in [Members -> {"starting", "joining", "syncing", "fetching",
                           "running", "restarting", "leaving", "closing", "left"}]
    /\ memberId \in [Members -> 0 .. nextId]
    /\ generationId \in [Members -> 0 .. generation]
    /\ assignment \in [Members -> SUBSET Partitions]
    /\ ticking \in [Members -> BOOLEAN] /\ connected \in [Members -> BOOLEAN]
    /\ \A m \in Members : heartbeatError[m].kind \in Failures \cup {"none"}
    /\ \A m \in Members : DOMAIN plan[m] \subseteq 1 .. nextId
    /\ parked \subseteq Members
    /\ \A m \in Members : Len(queue[m]) + Len(replies[m]) <= 2
    /\ group \in {"empty", "preparing", "completing", "stable"}
    /\ joined \subseteq ids
    /\ ids \cup pendingIds \subseteq 1 .. nextId
    /\ group \in {"completing", "stable"} => leaderId \in ids
    /\ scenario \in Scenarios
    /\ faults \in 0..scenario.faults /\ leaves \in 0..scenario.leaves

Init ==
    /\ pc = [m \in Members |-> "starting"]
    /\ memberId = [m \in Members |-> 0]
    /\ generationId = [m \in Members |-> 0]
    /\ assignment = [m \in Members |-> {}]
    /\ ticking = [m \in Members |-> FALSE]
    /\ heartbeatError = [m \in Members |-> NoError]
    /\ plan = [m \in Members |-> <<>>]
    /\ connected = [m \in Members |-> FALSE]
    /\ queue = [m \in Members |-> <<>>] /\ replies = [m \in Members |-> <<>>]
    /\ parked = {}
    /\ group = "empty" /\ generation = 0
    /\ ids = {} /\ pendingIds = {} /\ joined = {}
    /\ leaderId = 0 /\ target = <<>> /\ nextId = 0
    /\ scenario \in Scenarios
    /\ faults = scenario.faults /\ leaves = scenario.leaves

-----------------------------------------------------------------------------
(* The member: joining.                                                    *)

Request(api, id, gen) == [api |-> api, id |-> id, gen |-> gen]

\* The queue of m with one more request, after its response was received.
Sends(m, r) == queue' = [queue EXCEPT ![m] = Append(@, r)]

Received(m, api) == replies[m] # <<>> /\ Head(replies[m]).api = api

\* The first response of m is taken.
Takes(m) == replies' = [replies EXCEPT ![m] = Tail(@)]

\* Mutant: every member gets all partitions.
WholeTopic(roster, parts) == [i \in {roster[j] : j \in 1..Len(roster)} |-> parts]

\* Mutant: the assignments are keyed by the place in the roster, not by the id.
ByPlace(roster, parts) ==
    [i \in 0 .. Len(roster) - 1 |-> {p \in parts : p % Len(roster) = i}]

\* Mutant: the leader deals out the topics of every member.
RoundRobinOfAll(roster, parts) ==
    [i \in {roster[j] : j \in 1..Len(roster)} |->
        {p \in Partitions : roster[(p % Len(roster)) + 1] = i}]

\* The leader gives its partitions to the members of its roster in turn.
RoundRobin(roster, parts) ==
    LET place(p) == Cardinality({q \in parts : q < p})
    IN  [i \in {roster[j] : j \in 1..Len(roster)} |->
            {p \in parts : roster[(place(p) % Len(roster)) + 1] = i}]

Subscribed(m) == scenario.subscription[m]
SameTopics == \A m, n \in Members : Subscribed(m) = Subscribed(n)

\* Mutant: init() keeps the member id.
StartWithId(m) ==
    /\ pc[m] = "starting"
    /\ connected' = [connected EXCEPT ![m] = TRUE]
    /\ Sends(m, Request("join", memberId[m], 0))
    /\ pc' = [pc EXCEPT ![m] = "joining"]
    /\ UNCHANGED <<memberId, generationId, assignment, ticking, heartbeatError,
                   plan, parked, replies, groupVars, bounds>>

\* start() has connected, and found the coordinator; join() begins.
Start(m) ==
    /\ pc[m] = "starting"
    /\ SameTopics \/ generation < scenario.generations
    /\ connected' = [connected EXCEPT ![m] = TRUE]
    /\ memberId' = [memberId EXCEPT ![m] = 0]
    /\ Sends(m, Request("join", 0, 0))
    /\ pc' = [pc EXCEPT ![m] = "joining"]
    /\ UNCHANGED <<generationId, assignment, ticking, heartbeatError, plan,
                   parked, replies, groupVars, bounds>>

(***************************************************************************)
(* The catch block of the loop: rejoin at once after a rebalance,          *)
(* otherwise close and start again, the heartbeats going on until then.    *)
(***************************************************************************)
Catch(m, e) ==
    IF e = "rebalance"
    THEN /\ pc' = [pc EXCEPT ![m] = "joining"]
         /\ Sends(m, Request("join", memberId[m], 0))
    ELSE /\ pc' = [pc EXCEPT ![m] = "restarting"]
         /\ UNCHANGED queue

\* joinGroup() returns and syncGroup() sends the assignments, if m leads.
ReceiveJoin(m) ==
    LET r == Head(replies[m])
    IN  /\ pc[m] = "joining" /\ Received(m, "join") /\ r.result = "ok"
        /\ Takes(m)
        /\ memberId' = [memberId EXCEPT ![m] = r.id]
        /\ generationId' = [generationId EXCEPT ![m] = r.gen]
        /\ plan' = [plan EXCEPT ![m] = 
               IF r.id = r.leader THEN RoundRobin(r.roster, Subscribed(m)) ELSE <<>>]
        /\ Sends(m, Request("sync", r.id, r.gen))
        /\ pc' = [pc EXCEPT ![m] = "syncing"]
        /\ UNCHANGED <<assignment, ticking, heartbeatError, connected, parked,
                       groupVars, bounds>>

\* MEMBER_ID_REQUIRED: joinGroup() takes the id and asks again.
ReceiveMemberId(m) ==
    LET r == Head(replies[m])
    IN  /\ pc[m] = "joining" /\ Received(m, "join") /\ r.result = "idRequired"
        /\ Takes(m)
        /\ memberId' = [memberId EXCEPT ![m] = r.id]
        /\ Sends(m, Request("join", r.id, 0))
        /\ UNCHANGED <<pc, generationId, assignment, ticking, heartbeatError,
                       plan, connected, parked, groupVars, bounds>>

JoinOrSyncFails(m) ==
    LET r == Head(replies[m])
    IN  /\ \/ pc[m] = "joining" /\ Received(m, "join")
           \/ pc[m] = "syncing" /\ Received(m, "sync")
        /\ r.result \in Failures
        /\ Takes(m)
        /\ Catch(m, r.result)
        /\ UNCHANGED <<memberId, generationId, assignment, ticking,
                       heartbeatError, plan, connected, parked, groupVars, bounds>>

\* Mutant: startHeartbeater() does not forget the last error.
StartHeartbeaterWithError(m) ==
    /\ ticking' = [ticking EXCEPT ![m] = TRUE]
    /\ UNCHANGED heartbeatError

\* startHeartbeater(): the interval is set anew, the last error forgotten.
StartHeartbeater(m) ==
    /\ ticking' = [ticking EXCEPT ![m] = TRUE]
    /\ heartbeatError' = [heartbeatError EXCEPT ![m] = NoError]

\* Mutant: partitions of any topic are read.
JoinsAnyTopic(m, parts) ==
    /\ StartHeartbeater(m)
    /\ pc' = [pc EXCEPT ![m] = "running"]

(***************************************************************************)
(* join() is done.  The loop looks up the leaders of the partitions, and   *)
(* throws for a topic that is not in the metadata of this member: it then  *)
(* restarts after a second.                                                *)
(***************************************************************************)
Joins(m, parts) ==
    /\ StartHeartbeater(m)
    /\ pc' = [pc EXCEPT ![m] = IF parts \subseteq Subscribed(m) THEN "running"
                                                                ELSE "restarting"]

\* syncGroup() returns; offsetFetch() asks for the member's own topics, and not
\* at all if it has none of their partitions.
ReceiveSync(m) ==
    LET r == Head(replies[m])
    IN  /\ pc[m] = "syncing" /\ Received(m, "sync") /\ r.result = "ok"
        /\ Takes(m)
        /\ assignment' = [assignment EXCEPT ![m] = r.parts]
        /\ IF r.parts \cap Subscribed(m) = {}
           THEN /\ Joins(m, r.parts)
                /\ UNCHANGED queue
           ELSE /\ Sends(m, Request("offsets", memberId[m], generationId[m]))
                /\ pc' = [pc EXCEPT ![m] = "fetching"]
                /\ UNCHANGED <<ticking, heartbeatError>>
        /\ UNCHANGED <<memberId, generationId, plan, connected, parked,
                       groupVars, bounds>>

\* offsetFetch() returns, and with it join().
ReceiveOffsets(m) ==
    /\ pc[m] = "fetching" /\ Received(m, "offsets")
    /\ Takes(m)
    /\ Joins(m, assignment[m])
    /\ UNCHANGED <<memberId, generationId, assignment, plan, connected, queue,
                   parked, groupVars, bounds>>

-----------------------------------------------------------------------------
(* The member: heartbeats, restart, leaving.                               *)

Beating(m) ==
    \/ \E i \in 1..Len(queue[m]) : queue[m][i].api = "heartbeat"
    \/ \E i \in 1..Len(replies[m]) : replies[m][i].api = "heartbeat"

\* The interval fires, whatever the loop does: the id and generation of now.
Heartbeat(m) ==
    /\ ticking[m] /\ connected[m] /\ ~Beating(m)
    /\ Sends(m, Request("heartbeat", memberId[m], generationId[m]))
    /\ UNCHANGED <<clientVars, parked, replies, groupVars, bounds>>

ReceiveHeartbeat(m) ==
    LET r == Head(replies[m])
    IN  /\ Received(m, "heartbeat")
        /\ Takes(m)
        /\ heartbeatError' = [heartbeatError EXCEPT ![m] =
               IF r.result = "ok" THEN @
               ELSE [kind |-> r.result, id |-> r.id, gen |-> r.gen]]
        /\ UNCHANGED <<pc, memberId, generationId, assignment, ticking, plan,
                       connected, queue, parked, groupVars, bounds>>

\* handleLastHeartbeat() throws in fetch, process or waitForReassignment.
HandleLastHeartbeat(m) ==
    /\ pc[m] = "running"
    /\ heartbeatError[m] # NoError
    /\ Catch(m, heartbeatError[m].kind)
    /\ UNCHANGED <<memberId, generationId, assignment, ticking, heartbeatError,
                   plan, connected, parked, replies, groupVars, bounds>>

(***************************************************************************)
(* leaveGroup(), before a restart or because the application closes the    *)
(* consumer: the interval is stopped and LeaveGroup sent.  On a connection *)
(* that is broken it fails at once, which close() ignores.                 *)
(***************************************************************************)
LeaveGroup(m) ==
    /\ \/ pc[m] = "restarting" /\ UNCHANGED leaves
       \/ pc[m] = "running" /\ leaves > 0 /\ leaves' = leaves - 1
    /\ ticking' = [ticking EXCEPT ![m] = FALSE]
    /\ IF connected[m]
       THEN /\ Sends(m, Request("leave", memberId[m], 0))
            /\ pc' = [pc EXCEPT ![m] = IF @ = "running" THEN "closing" ELSE "leaving"]
       ELSE /\ pc' = [pc EXCEPT ![m] = IF @ = "running" THEN "left" ELSE "starting"]
            /\ UNCHANGED queue
    /\ UNCHANGED <<memberId, generationId, assignment, heartbeatError, plan,
                   connected, parked, replies, groupVars, scenario, faults>>

\* Whatever the response, the cluster is disconnected and start() called.
ReceiveLeave(m) ==
    /\ pc[m] \in {"leaving", "closing"} /\ Received(m, "leave")
    /\ Takes(m)
    /\ connected' = [connected EXCEPT ![m] = FALSE]
    /\ pc' = [pc EXCEPT ![m] = IF @ = "leaving" THEN "starting" ELSE "left"]
    /\ UNCHANGED <<memberId, generationId, assignment, ticking, heartbeatError,
                   plan, queue, parked, groupVars, bounds>>

(***************************************************************************)
(* The connection breaks or falls silent until the timers fire: whatever   *)
(* is on its way fails, and the loop with it.                              *)
(***************************************************************************)
ConnectionLost(m) ==
    /\ faults > 0
    /\ faults' = faults - 1
    /\ connected[m]
    /\ connected' = [connected EXCEPT ![m] = FALSE]
    /\ queue' = [queue EXCEPT ![m] = <<>>]
    /\ replies' = [replies EXCEPT ![m] = <<>>]
    /\ parked' = parked \ {m}
    /\ pc' = [pc EXCEPT ![m] = CASE @ = "leaving" -> "starting"
                                 [] @ = "closing" -> "left"
                                 [] OTHER -> "restarting"]
    /\ heartbeatError' = [heartbeatError EXCEPT ![m] =
           IF Beating(m) THEN [kind |-> "network", id |-> memberId[m],
                               gen |-> generationId[m]] ELSE @]
    /\ UNCHANGED <<memberId, generationId, assignment, ticking, plan, groupVars,
                   scenario, leaves>>

-----------------------------------------------------------------------------
(* The coordinator (external).                                             *)

Asks(m, api) == queue[m] # <<>> /\ Head(queue[m]).api = api /\ m \notin parked

\* The members of ms are answered; answer[m] is the response.
Answer(ms, answer) ==
    /\ queue' = [m \in Members |-> IF m \in ms THEN Tail(queue[m]) ELSE queue[m]]
    /\ replies' = [m \in Members |-> IF m \in ms THEN Append(replies[m], answer[m])
                                                 ELSE replies[m]]
    /\ parked' = parked \ ms

\* A response without data to the first request of m.
Plain(m, result) ==
    [api |-> Head(queue[m]).api, id |-> Head(queue[m]).id,
     gen |-> Head(queue[m]).gen, result |-> result]

Syncing == {m \in parked : Head(queue[m]).api = "sync"}
Joining == {m \in parked : Head(queue[m]).api = "join"}

Roster(S) == CHOOSE s \in [1..Cardinality(S) -> S] : \A i \in S : \E j \in DOMAIN s : s[j] = i

\* What a member with the id i learns of the current generation.
Joined(i, gen, leader, all) ==
    [api |-> "join", result |-> "ok", id |-> i, gen |-> gen, leader |-> leader,
     roster |-> IF i = leader THEN Roster(all) ELSE <<>>]

\* A member that joins without an id gets one.
JoinWithoutId(m) ==
    /\ Asks(m, "join") /\ Head(queue[m]).id = 0
    /\ nextId' = nextId + 1
    /\ pendingIds' = pendingIds \cup {nextId + 1}
    /\ Answer({m}, [n \in {m} |-> [Plain(m, "idRequired") EXCEPT !.id = nextId + 1]])
    /\ UNCHANGED <<clientVars, group, generation, ids, joined, leaderId, target,
                   bounds>>

\* An unknown id is refused; a known one learns the current generation again.
JoinAnswered(m) ==
    LET i == Head(queue[m]).id
    IN  /\ Asks(m, "join") /\ i # 0
        /\ \/ /\ i \notin ids \cup pendingIds
              /\ Answer({m}, [n \in {m} |-> Plain(m, "unknown")])
           \/ /\ i \in ids
              /\ group = "completing" \/ (group = "stable" /\ i # leaderId)
              /\ Answer({m}, [n \in {m} |-> Joined(i, generation, leaderId, ids)])
        /\ UNCHANGED <<clientVars, groupVars, bounds>>

(***************************************************************************)
(* A new member, the leader of a stable group, or any member while the     *)
(* group prepares: the request waits for the other members, and those that *)
(* wait for an assignment have to join again.                              *)
(***************************************************************************)
JoinParked(m) ==
    LET i == Head(queue[m]).id
    IN  /\ Asks(m, "join")
        /\ \/ i \in pendingIds
           \/ i \in ids /\ group = "preparing"
           \/ i \in ids /\ group = "stable" /\ i = leaderId
        /\ ids' = ids \cup {i}
        /\ pendingIds' = pendingIds \ {i}
        /\ joined' = (IF group = "preparing" THEN joined ELSE {}) \cup {i}
        /\ group' = "preparing"
        /\ queue' = [n \in Members |-> IF n \in Syncing THEN Tail(queue[n])
                                                        ELSE queue[n]]
        /\ replies' = [n \in Members |->
               IF n \in Syncing THEN Append(replies[n], Plain(n, "rebalance"))
                                ELSE replies[n]]
        /\ parked' = (parked \ Syncing) \cup {m}
        /\ UNCHANGED <<clientVars, generation, leaderId, target, nextId, bounds>>

\* All members have joined: a new generation, led by one of them.
JoinCompletes ==
    /\ group = "preparing"
    /\ ids # {} /\ joined = ids
    /\ group' = "completing"
    /\ generation' = generation + 1
    /\ leaderId' \in IF leaderId \in ids THEN {leaderId} ELSE ids
    /\ joined' = {}
    /\ Answer(Joining, [m \in Joining |->
           Joined(Head(queue[m]).id, generation + 1, leaderId', ids)])
    /\ UNCHANGED <<clientVars, ids, pendingIds, target, nextId, bounds>>

\* Why a request of member i for generation gen is refused, or "ok".
Verdict(i, gen) ==
    CASE i \notin ids          -> "unknown"
      [] gen # generation      -> "illegal"
      [] group = "preparing"   -> "rebalance"
      [] OTHER                 -> "ok"

\* The response to the SyncGroup of m, with its partitions.
Assigned(m, parts) ==
    [api |-> "sync", id |-> Head(queue[m]).id, gen |-> Head(queue[m]).gen,
     result |-> "ok", parts |-> parts]

\* SyncGroup: the assignment of the leader is handed to all who wait for it.
SyncArrives(m) ==
    LET r == Head(queue[m])
        v == Verdict(r.id, r.gen)
    IN  /\ Asks(m, "sync")
        /\ \/ /\ v # "ok"
              /\ Answer({m}, [n \in {m} |-> Plain(m, v)])
              /\ UNCHANGED <<group, target>>
           \/ /\ v = "ok" /\ group = "stable"
              /\ Answer({m}, [n \in {m} |-> Assigned(m, target[r.id])])
              /\ UNCHANGED <<group, target>>
           \/ /\ v = "ok" /\ group = "completing" /\ r.id # leaderId
              /\ parked' = parked \cup {m}
              /\ UNCHANGED <<group, target, queue, replies>>
           \/ /\ v = "ok" /\ group = "completing" /\ r.id = leaderId
              /\ group' = "stable"
              /\ target' = plan[m]
              /\ Answer(Syncing \cup {m}, [n \in Syncing \cup {m} |->
                     Assigned(n, plan[m][Head(queue[n]).id])])
        /\ UNCHANGED <<clientVars, generation, ids, pendingIds, joined, leaderId,
                       nextId, bounds>>

HeartbeatArrives(m) ==
    /\ Asks(m, "heartbeat")
    /\ Answer({m}, [n \in {m} |->
           Plain(m, Verdict(Head(queue[m]).id, Head(queue[m]).gen))])
    /\ UNCHANGED <<clientVars, groupVars, bounds>>

OffsetFetchArrives(m) ==
    /\ Asks(m, "offsets")
    /\ Answer({m}, [n \in {m} |-> Plain(m, "ok")])
    /\ UNCHANGED <<clientVars, groupVars, bounds>>

\* The id i is gone: the others have to join again.
Remove(i) ==
    /\ ids' = ids \ {i}
    /\ joined' = IF group = "preparing" THEN joined \ {i} ELSE {}
    /\ group' = IF ids \ {i} = {} THEN "empty" ELSE "preparing"

\* A member leaves; those that wait for an assignment have to join again.
LeaveArrives(m) ==
    LET i == Head(queue[m]).id
        ms == {m} \cup IF i \in ids THEN Syncing ELSE {}
    IN  /\ Asks(m, "leave")
        /\ IF i \in ids THEN Remove(i) ELSE UNCHANGED <<ids, joined, group>>
        /\ Answer(ms, [n \in ms |-> Plain(n, IF n = m THEN "ok" ELSE "rebalance")])
        /\ UNCHANGED <<clientVars, generation, pendingIds, leaderId, target,
                       nextId, bounds>>

\* Nobody sends heartbeats for the id i any more.
Abandoned(i) ==
    \A m \in Members : memberId[m] = i =>
        pc[m] \in {"starting", "left"} \/ ~connected[m]

(***************************************************************************)
(* The session of i is over, or it has not joined within the rebalance     *)
(* timeout.  A member whose request is parked does not expire.             *)
(***************************************************************************)
Expire(i) ==
    /\ i \in ids
    /\ \A m \in parked : Head(queue[m]).id # i
    /\ \/ Abandoned(i) /\ UNCHANGED faults
       \/ ~Abandoned(i) /\ faults > 0 /\ faults' = faults - 1
    /\ Remove(i)
    /\ Answer(Syncing, [n \in Syncing |-> Plain(n, "rebalance")])
    /\ UNCHANGED <<clientVars, generation, pendingIds, leaderId, target, nextId,
                   scenario, leaves>>

-----------------------------------------------------------------------------

Next ==
    \/ \E m \in Members :
          \/ Start(m) \/ ReceiveJoin(m) \/ ReceiveMemberId(m) \/ JoinOrSyncFails(m)
          \/ ReceiveSync(m) \/ ReceiveOffsets(m)
          \/ Heartbeat(m) \/ ReceiveHeartbeat(m) \/ HandleLastHeartbeat(m)
          \/ LeaveGroup(m) \/ ReceiveLeave(m) \/ ConnectionLost(m)
          \/ JoinWithoutId(m) \/ JoinAnswered(m) \/ JoinParked(m) \/ SyncArrives(m)
          \/ HeartbeatArrives(m) \/ OffsetFetchArrives(m) \/ LeaveArrives(m)
    \/ JoinCompletes
    \/ \E i \in ids : Expire(i)

(***************************************************************************)
(* The interval fires, continuations run, the coordinator answers, and the *)
(* session of an id that nobody uses any more runs out.                    *)
(***************************************************************************)
Fairness ==
    /\ \A m \in Members :
          /\ WF_vars(Start(m)) /\ WF_vars(ReceiveJoin(m))
          /\ WF_vars(ReceiveMemberId(m)) /\ WF_vars(JoinOrSyncFails(m))
          /\ WF_vars(ReceiveSync(m)) /\ WF_vars(ReceiveOffsets(m))
          /\ WF_vars(Heartbeat(m)) /\ WF_vars(ReceiveHeartbeat(m))
          /\ WF_vars(HandleLastHeartbeat(m))
          /\ WF_vars(pc[m] = "restarting" /\ LeaveGroup(m))
          /\ WF_vars(ReceiveLeave(m))
          /\ WF_vars(JoinWithoutId(m)) /\ WF_vars(JoinAnswered(m))
          /\ WF_vars(JoinParked(m)) /\ WF_vars(SyncArrives(m))
          /\ WF_vars(HeartbeatArrives(m)) /\ WF_vars(OffsetFetchArrives(m))
          /\ WF_vars(LeaveArrives(m))
    /\ WF_vars(JoinCompletes)
    /\ WF_vars(\E i \in ids : Abandoned(i) /\ Expire(i))

Spec == Init /\ [][Next]_vars

FairSpec == Spec /\ Fairness

-----------------------------------------------------------------------------

Owns(m) == pc[m] \in {"fetching", "running"}

(***************************************************************************)
(* Two members that have joined the same generation never own the same     *)
(* partition, whoever led it and whatever they owned before.               *)
(***************************************************************************)
OwnersDisjoint ==
    \A m, n \in Members :
        m # n /\ Owns(m) /\ Owns(n) /\ generationId[m] = generationId[n]
            => assignment[m] \cap assignment[n] = {}

(***************************************************************************)
(* A member that has joined acts on no error of an earlier membership: the *)
(* heartbeats it sent for an old id or generation while it rejoined are    *)
(* all answered, and their errors forgotten, before join() returns.        *)
(***************************************************************************)
HeartbeatErrorsAreCurrent ==
    \A m \in Members : pc[m] = "running" /\ heartbeatError[m] # NoError =>
        heartbeatError[m].id = memberId[m] /\ heartbeatError[m].gen = generationId[m]

Alive == {m \in Members : pc[m] = "running"}

\* All members that have not left run in the current generation.
Settled ==
    /\ \A m \in Members : pc[m] \in {"running", "left"}
    /\ \A m \in Members : pc[m] = "running" =>
           generationId[m] = generation /\ memberId[m] \in ids

(***************************************************************************)
(* A settled group reads the topics of its leader, no more and no less,    *)
(* whatever the others subscribe to, and every member only topics of its   *)
(* own: topics the leader does not have are read by nobody, and a member   *)
(* that is given a topic it does not have never settles.                   *)
(***************************************************************************)
SettledReadsLeadersTopics ==
    \A leader \in Alive :
        /\ Settled /\ group = "stable" /\ memberId[leader] = leaderId
        /\ ids = {memberId[m] : m \in Alive}
        => /\ UNION {assignment[m] : m \in Alive} = Subscribed(leader)
           /\ \A m \in Alive : assignment[m] \subseteq Subscribed(m)

(***************************************************************************)
(* Once connections stop breaking and sessions expiring, a group whose     *)
(* members have the same topics settles for good: every member that has    *)
(* not left runs in the last generation, and together they own every       *)
(* partition.                                                              *)
(***************************************************************************)
GroupSettles ==
    SameTopics => <>[](/\ Settled
                       /\ Alive = {} \/ \A n \in Members : UNION {assignment[m] : m \in Alive}
                                                                 = Subscribed(n))
=============================================================================
