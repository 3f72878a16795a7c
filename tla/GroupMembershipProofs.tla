--------------------------- MODULE GroupMembershipProofs ---------------------------
(***************************************************************************)
(* What TLC checks of GroupMembership on two members, proved for every set *)
(* of members, every number of partitions and any subscriptions.           *)
(*                                                                         *)
(* Requests are answered in the order they are sent, so what a member has  *)
(* yet to receive and the coordinator has yet to read is one line, in      *)
(* which its future is ordered; the invariant speaks of that line.         *)
(***************************************************************************)
EXTENDS GroupMembership, FiniteSetTheorems, SequenceTheorems, TLAPS

-----------------------------------------------------------------------------
(* The inductive invariant.                                                *)

\* What goes over the connection of a member to the coordinator.
Apis == {"join", "sync", "offsets", "heartbeat", "leave"}

Requests == [api : Apis, id : Nat, gen : Nat]

\* Plain responses, and those of JoinGroup and SyncGroup with their data.
Responses ==
    {r \in [api : Apis, id : Nat, gen : Nat, result : Failures \cup {"ok", "idRequired"}] :
        r.result = "ok" => r.api \notin {"join", "sync"}}
    \cup [api : {"join"}, result : {"ok"}, id : Nat, gen : Nat, leader : Nat,
          roster : Seq(Nat)]
    \cup [api : {"sync"}, id : Nat, gen : Nat, result : {"ok"}, parts : SUBSET Partitions]

(***************************************************************************)
(* What is on its way between m and the coordinator, in the order in which *)
(* m receives it: first the Done(m) responses, then the requests.          *)
(***************************************************************************)
Done(m) == Len(replies[m])
Count(q, r) == Len(r) + Len(q)
Nth(q, r, i) == IF i <= Len(r) THEN r[i] ELSE q[i - Len(r)]
Pending(m) == Count(queue[m], replies[m])
At(m, i) == Nth(queue[m], replies[m], i)

\* The i-th of them is a response to the request api, with the given result.
Answered(m, i, api, result) ==
    i \in 1 .. Done(m) /\ At(m, i).api = api /\ At(m, i).result = result

\* m knows the id x, or is about to.
Knows(m, x) == x = memberId[m] \/ \E i \in 1 .. Pending(m) : At(m, i).id = x

\* The partitions S were assigned to m in the generation generationId[m].
Share(m, S) ==
    \/ Owns(m) /\ S = assignment[m]
    \/ \E i \in 1 .. Done(m) : Answered(m, i, "sync", "ok") /\ S = At(m, i).parts

\* The heartbeat r of m was sent for its membership of now.
Current(m, r) == r.id = memberId[m] /\ r.gen = generationId[m]

\* Every partition that l subscribes to goes to one of the members D.
Deals(f, D, l) ==
    /\ DOMAIN f = D
    /\ \A x \in D : f[x] \subseteq Subscribed(l)
    /\ \A x, y \in D : x # y => f[x] \cap f[y] = {}
    /\ \A p \in Subscribed(l) : \E x \in D : p \in f[x]

\* The values of pc.
Stages == {"starting", "joining", "syncing", "fetching", "running", "restarting",
           "leaving", "closing", "left"}

ClientTypes ==
    /\ pc \in [Members -> Stages]
    /\ memberId \in [Members -> 0 .. nextId]
    /\ generationId \in [Members -> 0 .. generation]
    /\ assignment \in [Members -> SUBSET Partitions]
    /\ ticking \in [Members -> BOOLEAN] /\ connected \in [Members -> BOOLEAN]
    /\ heartbeatError \in [Members -> [kind : Failures \cup {"none"}, id : Nat, gen : Nat]]
    /\ plan = [m \in Members |-> plan[m]]
    /\ \A m \in Members : DOMAIN plan[m] \subseteq 1 .. nextId
    /\ scenario \in Scenarios
    /\ faults \in 0 .. scenario.faults /\ leaves \in 0 .. scenario.leaves

LinkTypes ==
    /\ queue \in [Members -> Seq(Requests)]
    /\ replies \in [Members -> Seq(Responses)]
    /\ parked \subseteq Members

GroupTypes ==
    /\ group \in {"empty", "preparing", "completing", "stable"}
    /\ nextId \in Nat /\ generation \in Nat /\ leaderId \in Nat
    /\ joined \subseteq ids
    /\ ids \cup pendingIds \subseteq 1 .. nextId
    /\ group \in {"completing", "stable"} => leaderId \in ids

Typed == ClientTypes /\ LinkTypes /\ GroupTypes

\* A member awaits one response besides that of its heartbeat.
OneRequest(m) ==
    /\ Pending(m) <= 2
    /\ Pending(m) = 2 => At(m, 1).api # At(m, 2).api
    /\ \A i \in 1 .. Pending(m) :
          /\ At(m, i).api = "join" => pc[m] = "joining"
          /\ At(m, i).api = "sync" => pc[m] = "syncing"
          /\ At(m, i).api = "offsets" => pc[m] = "fetching"
          /\ At(m, i).api = "leave" => pc[m] \in {"leaving", "closing"}
          /\ i \in 1 .. Done(m) /\ At(m, i).result = "idRequired" => At(m, i).api = "join"

\* A SyncGroup is for the id and generation that the last JoinGroup gave.
SyncsForMembership(m) ==
    /\ \A i \in 1 .. Pending(m) :
          At(m, i).api = "sync" => Current(m, At(m, i)) /\ memberId[m] # 0
    /\ Owns(m) => memberId[m] # 0

\* A heartbeat sent behind a SyncGroup, or after it, is for that membership.
HeartbeatsFollow(m) ==
    /\ \A i \in 1 .. Pending(m) :
          pc[m] \in {"fetching", "running"} /\ At(m, i).api = "heartbeat" =>
              Current(m, At(m, i))
    /\ pc[m] = "syncing" /\ Pending(m) = 2 /\ At(m, 1).api = "sync" =>
          Current(m, At(m, 2))
    /\ pc[m] = "running" /\ heartbeatError[m] # NoError => Current(m, heartbeatError[m])

\* A parked request waits for what the coordinator does next.
ParkedWait(m) ==
    m \in parked =>
        /\ Done(m) < Pending(m)
        /\ \/ At(m, Done(m) + 1).api = "join" /\ group = "preparing"
           \/ /\ At(m, Done(m) + 1).api = "sync" /\ group = "completing"
              /\ At(m, Done(m) + 1).gen = generation
        /\ At(m, Done(m) + 1).id \in ids

InRoster(r) == {r.roster[j] : j \in 1 .. Len(r.roster)}

\* A response to a JoinGroup tells of a generation, truly if it is still there.
GoodNews(r) ==
    /\ r.id # 0 /\ r.gen <= generation
    /\ r.id = r.leader => InRoster(r) \subseteq 1 .. nextId
    /\ group = "completing" /\ r.gen = generation /\ r.id = leaderId =>
          r.id = r.leader /\ InRoster(r) = ids

\* Ids come from the coordinator, and what m learns of a generation is true
\* while the group waits for the assignment.
LearnsTheTruth(m) ==
    /\ \A i \in 1 .. Pending(m) : At(m, i).id <= nextId
    /\ \A i \in 1 .. Done(m) : Answered(m, i, "join", "ok") => GoodNews(At(m, i))

\* The SyncGroup of the leader deals out its topics to the members there are.
LeaderPlans(m) ==
    \A i \in Done(m) + 1 .. Pending(m) :
        /\ group = "completing" /\ At(m, i).api = "sync"
        /\ At(m, i).gen = generation /\ At(m, i).id = leaderId
        => Deals(plan[m], ids, m)

\* Shares are what the coordinator hands out in a stable group.
SharesAreDealt(m) ==
    \A S : Share(m, S) =>
        /\ S \subseteq Partitions
        /\ group = "completing" => generationId[m] # generation
        /\ group = "stable" /\ generationId[m] = generation =>
              memberId[m] \in ids /\ S = target[memberId[m]]

\* Joins sends a member back that has a partition of a topic it did not ask for.
RunsOnOwnTopics(m) == pc[m] = "running" => assignment[m] \subseteq Subscribed(m)

MemberInv(m) ==
    /\ OneRequest(m) /\ SyncsForMembership(m) /\ HeartbeatsFollow(m) /\ ParkedWait(m)
    /\ LearnsTheTruth(m) /\ LeaderPlans(m) /\ SharesAreDealt(m) /\ RunsOnOwnTopics(m)

\* The target of a stable group deals out the topics of the leader.
TargetDealt ==
    group = "stable" =>
        \E l \in Members : /\ Deals(target, ids, l)
                           /\ \A m \in Members : Knows(m, leaderId) => m = l

\* Members share no id, and no partition in a generation.
Apart(m, n) ==
    /\ \A x : Knows(m, x) /\ Knows(n, x) => x = 0
    /\ \A S, T : /\ Share(m, S) /\ Share(n, T)
                 /\ generationId[m] = generationId[n]
                 => S \cap T = {}

GroupInv ==
    /\ Typed /\ TargetDealt
    /\ \A m \in Members : MemberInv(m)
    /\ \A m, n \in Members : m # n => Apart(m, n)

-----------------------------------------------------------------------------
(* The requests q and the responses r of a member as one line.             *)

\* The responses come first, then the requests.
LEMMA NthTypes ==
    ASSUME NEW Q, NEW R, NEW q \in Seq(Q), NEW r \in Seq(R)
    PROVE  /\ Len(r) \in Nat /\ Count(q, r) \in Nat /\ Len(r) <= Count(q, r)
           /\ \A i \in 1 .. Len(r) : Nth(q, r, i) \in R
           /\ \A i \in Len(r) + 1 .. Count(q, r) : Nth(q, r, i) \in Q
  BY DEF Count, Nth

\* A request is appended.
LEMMA NthSent ==
    ASSUME NEW Q, NEW R, NEW q \in Seq(Q), NEW r \in Seq(R), NEW x \in Q
    PROVE  /\ Count(Append(q, x), r) = Count(q, r) + 1
           /\ \A i \in 1 .. Count(q, r) + 1 :
                 Nth(Append(q, x), r, i) = IF i = Count(q, r) + 1 THEN x ELSE Nth(q, r, i)
  BY DEF Count, Nth

\* The first response is taken.
LEMMA NthTaken ==
    ASSUME NEW Q, NEW R, NEW q \in Seq(Q), NEW r \in Seq(R), r # <<>>
    PROVE  /\ Len(r) > 0 /\ Len(Tail(r)) = Len(r) - 1 /\ Tail(r) \in Seq(R)
           /\ Head(r) = Nth(q, r, 1)
           /\ Count(q, Tail(r)) = Count(q, r) - 1
           /\ \A i \in 1 .. Count(q, r) - 1 : Nth(q, Tail(r), i) = Nth(q, r, i + 1)
<1>1. /\ Len(r) \in Nat /\ Len(q) \in Nat /\ Len(r) > 0 /\ Len(Tail(r)) = Len(r) - 1
      /\ Tail(r) \in Seq(R) /\ Head(r) = r[1]
      /\ \A i \in 1 .. Len(r) - 1 : Tail(r)[i] = r[i + 1]
  OBVIOUS
<1>2. ASSUME NEW i \in 1 .. Count(q, r) - 1
      PROVE  Nth(q, Tail(r), i) = Nth(q, r, i + 1)
  <2>1. CASE i <= Len(r) - 1
    BY <1>1, <2>1 DEF Nth
  <2>2. CASE ~(i <= Len(r) - 1)
    <3>1. i \in Int /\ i - (Len(r) - 1) = (i + 1) - Len(r)
      BY <1>1 DEF Count
    <3> QED
      BY <1>1, <2>2, <3>1 DEF Nth
  <2> QED
    BY <2>1, <2>2
<1> QED
  BY <1>1, <1>2 DEF Count, Nth

\* The first response is taken and a request appended.
LEMMA NthTakenSent ==
    ASSUME NEW Q, NEW R, NEW q \in Seq(Q), NEW r \in Seq(R), r # <<>>, NEW x \in Q
    PROVE  /\ Count(Append(q, x), Tail(r)) = Count(q, r)
           /\ \A i \in 1 .. Count(q, r) :
                 Nth(Append(q, x), Tail(r), i) = IF i = Count(q, r) THEN x ELSE Nth(q, r, i + 1)
<1>1. PICK s \in Seq(R) : s = Tail(r)
  BY NthTaken
<1>2. /\ Count(Append(q, x), s) = Count(q, s) + 1
      /\ \A i \in 1 .. Count(q, s) + 1 :
            Nth(Append(q, x), s, i) = IF i = Count(q, s) + 1 THEN x ELSE Nth(q, s, i)
  BY NthSent
<1>3. /\ Count(q, s) = Count(q, r) - 1 /\ Count(q, r) \in Nat
      /\ \A i \in 1 .. Count(q, r) - 1 : Nth(q, s, i) = Nth(q, r, i + 1)
  BY <1>1, NthTaken, NthTypes
<1> QED
  BY <1>1, <1>2, <1>3

\* The first request is answered.
LEMMA NthAnswered ==
    ASSUME NEW Q, NEW R, NEW q \in Seq(Q), NEW r \in Seq(R), q # <<>>, NEW x \in R
    PROVE  /\ Len(r) < Count(q, r) /\ Len(Append(r, x)) = Len(r) + 1
           /\ Head(q) = Nth(q, r, Len(r) + 1) /\ Head(q) \in Q
           /\ Count(Tail(q), Append(r, x)) = Count(q, r)
           /\ \A i \in 1 .. Count(q, r) :
                 Nth(Tail(q), Append(r, x), i) = IF i = Len(r) + 1 THEN x ELSE Nth(q, r, i)
<1>1. /\ Len(r) \in Nat /\ Len(q) \in Nat /\ Len(q) > 0 /\ Len(Tail(q)) = Len(q) - 1
      /\ Head(q) = q[1] /\ q[1] \in Q
      /\ \A i \in 1 .. Len(q) - 1 : Tail(q)[i] = q[i + 1]
  OBVIOUS
<1>2. /\ Len(Append(r, x)) = Len(r) + 1
      /\ \A i \in 1 .. Len(r) + 1 :
            Append(r, x)[i] = IF i = Len(r) + 1 THEN x ELSE r[i]
  OBVIOUS
<1>3. ASSUME NEW i \in 1 .. Count(q, r)
      PROVE  Nth(Tail(q), Append(r, x), i) = IF i = Len(r) + 1 THEN x ELSE Nth(q, r, i)
  <2>1. CASE i <= Len(r) + 1
    BY <1>1, <1>2, <2>1 DEF Nth
  <2>2. CASE ~(i <= Len(r) + 1)
    <3>1. /\ i - (Len(r) + 1) \in 1 .. Len(q) - 1
          /\ (i - (Len(r) + 1)) + 1 = i - Len(r)
      BY <1>1, <2>2 DEF Count
    <3> QED
      BY <1>1, <1>2, <2>2, <3>1 DEF Nth
  <2> QED
    BY <2>1, <2>2
<1>4. (Len(r) + 1) - Len(r) = 1 /\ ~(Len(r) + 1 <= Len(r))
  BY <1>1
<1>5. Nth(q, r, Len(r) + 1) = q[1]
  BY <1>4 DEF Nth
<1> QED
  BY <1>1, <1>2, <1>3, <1>5 DEF Count

-----------------------------------------------------------------------------
(* Steps seen on the line between a member and the coordinator.            *)

\* The line of m stays, gets a request, loses its first response, or both.
LineKept(m) ==
    /\ Done(m)' = Done(m) /\ Pending(m)' = Pending(m)
    /\ \A i \in 1 .. Pending(m) : At(m, i)' = At(m, i)

LineSent(m, r) ==
    /\ Done(m)' = Done(m) /\ Pending(m)' = Pending(m) + 1
    /\ \A i \in 1 .. Pending(m) + 1 :
          At(m, i)' = IF i = Pending(m) + 1 THEN r ELSE At(m, i)

LineTaken(m) ==
    /\ Done(m) > 0 /\ Done(m)' = Done(m) - 1 /\ Pending(m)' = Pending(m) - 1
    /\ \A i \in 1 .. Pending(m) - 1 : At(m, i)' = At(m, i + 1)

LineTakenSent(m, r) ==
    /\ Done(m) > 0 /\ Done(m)' = Done(m) - 1 /\ Pending(m)' = Pending(m)
    /\ \A i \in 1 .. Pending(m) :
          At(m, i)' = IF i = Pending(m) THEN r ELSE At(m, i + 1)

\* The coordinator answers the first request of m with a, in its place.
LineAnswered(m, a) ==
    /\ Done(m) < Pending(m) /\ Done(m)' = Done(m) + 1 /\ Pending(m)' = Pending(m)
    /\ \A i \in 1 .. Pending(m) :
          At(m, i)' = IF i = Done(m) + 1 THEN a ELSE At(m, i)

\* The numbers of what is pending, and what it is.
LEMMA LineTypes ==
    ASSUME Typed, NEW m \in Members
    PROVE  /\ Done(m) \in Nat /\ Pending(m) \in Nat /\ Done(m) <= Pending(m)
           /\ \A i \in 1 .. Done(m) : At(m, i) \in Responses
           /\ \A i \in Done(m) + 1 .. Pending(m) : At(m, i) \in Requests
<1>1. queue[m] \in Seq(Requests) /\ replies[m] \in Seq(Responses)
  BY DEF Typed, LinkTypes
<1> QED
  BY <1>1, NthTypes DEF Done, Pending, At

\* A member whose line is left alone.
LEMMA KeptLine ==
    ASSUME NEW m, queue'[m] = queue[m], replies'[m] = replies[m]
    PROVE  LineKept(m)
  BY DEF LineKept, Done, Pending, At

\* m sends a request.
LEMMA SentLine ==
    ASSUME Typed, NEW m \in Members, NEW x \in Requests, Sends(m, x), UNCHANGED replies
    PROVE  /\ LineSent(m, x)
           /\ \A n \in Members \ {m} : LineKept(n)
           /\ queue' \in [Members -> Seq(Requests)]
<1>1. queue[m] \in Seq(Requests) /\ replies[m] \in Seq(Responses)
  BY DEF Typed, LinkTypes
<1>2. queue'[m] = Append(queue[m], x) /\ replies'[m] = replies[m]
  BY DEF Sends, Typed, LinkTypes
<1>3. queue' \in [Members -> Seq(Requests)]
  BY <1>1 DEF Sends, Typed, LinkTypes
<1>4. \A n \in Members \ {m} : LineKept(n)
  BY KeptLine DEF Sends, Typed, LinkTypes
<1>5. LineSent(m, x)
  BY <1>1, <1>2, NthSent DEF LineSent, Done, Pending, At
<1> QED
  BY <1>3, <1>4, <1>5

\* m takes a response.
LEMMA TakenLine ==
    ASSUME Typed, NEW m \in Members, replies[m] # <<>>, Takes(m), UNCHANGED queue
    PROVE  /\ LineTaken(m) /\ Head(replies[m]) = At(m, 1)
           /\ \A n \in Members \ {m} : LineKept(n)
           /\ replies' \in [Members -> Seq(Responses)]
<1>1. queue[m] \in Seq(Requests) /\ replies[m] \in Seq(Responses)
  BY DEF Typed, LinkTypes
<1>2. replies'[m] = Tail(replies[m]) /\ queue'[m] = queue[m]
  BY DEF Takes, Typed, LinkTypes
<1>3. replies' \in [Members -> Seq(Responses)]
  BY <1>1 DEF Takes, Typed, LinkTypes
<1>4. \A n \in Members \ {m} : LineKept(n)
  BY KeptLine DEF Takes, Typed, LinkTypes
<1>5. LineTaken(m) /\ Head(replies[m]) = At(m, 1)
  BY <1>1, <1>2, NthTaken DEF LineTaken, Done, Pending, At
<1> QED
  BY <1>3, <1>4, <1>5

\* m takes a response and sends the next request.
LEMMA TakenSentLine ==
    ASSUME Typed, NEW m \in Members, NEW x \in Requests, replies[m] # <<>>, Takes(m),
           Sends(m, x)
    PROVE  /\ LineTakenSent(m, x) /\ Head(replies[m]) = At(m, 1)
           /\ \A n \in Members \ {m} : LineKept(n)
           /\ queue' \in [Members -> Seq(Requests)]
           /\ replies' \in [Members -> Seq(Responses)]
<1>1. queue[m] \in Seq(Requests) /\ replies[m] \in Seq(Responses)
  BY DEF Typed, LinkTypes
<1>2. replies'[m] = Tail(replies[m]) /\ queue'[m] = Append(queue[m], x)
  BY DEF Takes, Sends, Typed, LinkTypes
<1>3. replies' \in [Members -> Seq(Responses)] /\ queue' \in [Members -> Seq(Requests)]
  BY <1>1 DEF Takes, Sends, Typed, LinkTypes
<1>4. \A n \in Members \ {m} : LineKept(n)
  BY KeptLine DEF Takes, Sends, Typed, LinkTypes
<1>5. LineTakenSent(m, x) /\ Head(replies[m]) = At(m, 1)
  BY <1>1, <1>2, NthTaken, NthTakenSent DEF LineTakenSent, Done, Pending, At
<1> QED
  BY <1>3, <1>4, <1>5

\* The coordinator answers the first requests of the members ms.
LEMMA AnsweredLine ==
    ASSUME Typed, NEW ms \in SUBSET Members, NEW answer,
           queue' = [n \in Members |-> IF n \in ms THEN Tail(queue[n]) ELSE queue[n]],
           replies' = [n \in Members |-> IF n \in ms THEN Append(replies[n], answer[n])
                                                     ELSE replies[n]],
           \A n \in ms : queue[n] # <<>> /\ answer[n] \in Responses
    PROVE  /\ \A n \in ms : LineAnswered(n, answer[n])
           /\ \A n \in Members \ ms : LineKept(n)
           /\ queue' \in [Members -> Seq(Requests)]
           /\ replies' \in [Members -> Seq(Responses)]
<1>1. \A n \in Members : queue[n] \in Seq(Requests) /\ replies[n] \in Seq(Responses)
  BY DEF Typed, LinkTypes
<1>2. \A n \in Members : /\ n \in ms => /\ queue'[n] = Tail(queue[n])
                                        /\ replies'[n] = Append(replies[n], answer[n])
                         /\ n \notin ms => queue'[n] = queue[n] /\ replies'[n] = replies[n]
  OBVIOUS
<1>3. queue' \in [Members -> Seq(Requests)]
  BY <1>1
<1>4. replies' \in [Members -> Seq(Responses)]
  BY <1>1
<1>5. \A n \in Members \ ms : LineKept(n)
  BY <1>2, KeptLine
<1>6. ASSUME NEW n \in ms
      PROVE  LineAnswered(n, answer[n])
  <2>1. /\ queue[n] \in Seq(Requests) /\ replies[n] \in Seq(Responses) /\ queue[n] # <<>>
        /\ queue'[n] = Tail(queue[n]) /\ replies'[n] = Append(replies[n], answer[n])
        /\ answer[n] \in Responses
    BY <1>1, <1>2
  <2>2. PICK q \in Seq(Requests), r \in Seq(Responses), x \in Responses :
           /\ q = queue[n] /\ r = replies[n] /\ x = answer[n] /\ q # <<>>
           /\ queue'[n] = Tail(q) /\ replies'[n] = Append(r, x)
    BY <2>1
  <2>3. /\ Len(r) < Count(q, r) /\ Len(Append(r, x)) = Len(r) + 1
        /\ Count(Tail(q), Append(r, x)) = Count(q, r)
        /\ \A i \in 1 .. Count(q, r) :
              Nth(Tail(q), Append(r, x), i) = IF i = Len(r) + 1 THEN x ELSE Nth(q, r, i)
    BY <2>2, NthAnswered
  <2>4. /\ Done(n) = Len(r) /\ Pending(n) = Count(q, r)
        /\ Done(n)' = Len(Append(r, x)) /\ Pending(n)' = Count(Tail(q), Append(r, x))
        /\ \A i : At(n, i) = Nth(q, r, i) /\ At(n, i)' = Nth(Tail(q), Append(r, x), i)
    BY <2>2, Zenon DEF Done, Pending, At
  <2> QED
    BY <2>2, <2>3, <2>4 DEF LineAnswered
<1> QED
  BY <1>3, <1>4, <1>5, <1>6

\* The first request that is not answered.
LEMMA FirstRequest ==
    ASSUME Typed, NEW m \in Members, queue[m] # <<>>
    PROVE  /\ Done(m) < Pending(m) /\ Head(queue[m]) = At(m, Done(m) + 1)
           /\ Head(queue[m]) \in Requests
<1>1. queue[m] \in Seq(Requests) /\ replies[m] \in Seq(Responses)
  BY DEF Typed, LinkTypes
<1>2. PICK x : x \in Responses
  <2>1. [api |-> "leave", id |-> 0, gen |-> 0, result |-> "ok"] \in Responses
    BY DEF Responses, Apis
  <2> QED
    BY <2>1
<1> QED
  BY <1>1, <1>2, NthAnswered DEF Done, Pending, At

\* Without a heartbeat on its way, m has no heartbeat on its line.
LEMMA BeatingLine ==
    ASSUME Typed, NEW m \in Members, ~Beating(m)
    PROVE  \A i \in 1 .. Pending(m) : At(m, i).api # "heartbeat"
<1>1. PICK q, r : q = queue[m] /\ r = replies[m] /\ q \in Seq(Requests) /\ r \in Seq(Responses)
  BY DEF Typed, LinkTypes
<1>2. /\ \A i \in 1 .. Len(q) : q[i].api # "heartbeat"
      /\ \A i \in 1 .. Len(r) : r[i].api # "heartbeat"
  BY <1>1 DEF Beating
<1>3. ASSUME NEW i \in 1 .. Count(q, r)
      PROVE  Nth(q, r, i).api # "heartbeat"
  <2>1. Len(q) \in Nat /\ Len(r) \in Nat
    BY <1>1
  <2>2. CASE i <= Len(r)
    BY <1>2, <2>1, <2>2 DEF Nth
  <2>3. CASE ~(i <= Len(r))
    <3>1. i - Len(r) \in 1 .. Len(q)
      BY <2>1, <2>3 DEF Count
    <3> QED
      BY <1>2, <2>3, <3>1 DEF Nth
  <2> QED
    BY <2>2, <2>3
<1> QED
  BY <1>1, <1>3 DEF Pending, At

-----------------------------------------------------------------------------
(* Steps of a member.                                                      *)

\* What m itself does to its line; x is the request it sends, if any.
LineMoves(m, x) ==
    LineKept(m) \/ LineSent(m, x) \/ LineTaken(m) \/ LineTakenSent(m, x)

\* A member that was not the one to step.
Untouched(n) ==
    /\ LineKept(n) /\ (n \in parked' <=> n \in parked)
    /\ pc'[n] = pc[n] /\ memberId'[n] = memberId[n] /\ generationId'[n] = generationId[n]
    /\ assignment'[n] = assignment[n] /\ heartbeatError'[n] = heartbeatError[n]
    /\ plan'[n] = plan[n]

\* What a step of m does, as far as the others are concerned.
ClientEffect(m) ==
    /\ Typed' /\ MemberInv(m)'
    /\ \A y : Knows(m, y)' => Knows(m, y) \/ y = 0
    /\ \A S : Share(m, S)' => Share(m, S) /\ generationId'[m] = generationId[m]
    /\ \A n \in Members \ {m} : Untouched(n)
    /\ UNCHANGED <<groupVars, scenario>>

\* Where what is on the line of m came from.
LEMMA MovesFrom ==
    ASSUME Typed, NEW m \in Members, NEW x, LineMoves(m, x)
    PROVE  /\ Done(m)' \in Nat /\ Pending(m)' \in Nat /\ Done(m)' <= Pending(m)'
           /\ \A i \in 1 .. Pending(m)' :
                 \/ At(m, i)' = x /\ ~(i <= Done(m)')
                 \/ \E j \in 1 .. Pending(m) :
                       At(m, i)' = At(m, j) /\ (i <= Done(m)' <=> j <= Done(m))
<1>1. /\ Done(m) \in Nat /\ Pending(m) \in Nat /\ Done(m) <= Pending(m)
  BY LineTypes
<1>6. Done(m)' \in Nat /\ Pending(m)' \in Nat /\ Done(m)' <= Pending(m)'
  BY <1>1 DEF LineMoves, LineKept, LineSent, LineTaken, LineTakenSent
<1> SUFFICES \A i \in 1 .. Pending(m)' :
                 \/ At(m, i)' = x /\ ~(i <= Done(m)')
                 \/ \E j \in 1 .. Pending(m) :
                       At(m, i)' = At(m, j) /\ (i <= Done(m)' <=> j <= Done(m))
  BY <1>6
<1>2. CASE LineKept(m)
  BY <1>1, <1>2 DEF LineKept
<1>3. CASE LineSent(m, x)
  BY <1>1, <1>3 DEF LineSent
<1>4. CASE LineTaken(m)
  <2>1. \A i \in 1 .. Pending(m)' :
           /\ i + 1 \in 1 .. Pending(m) /\ (i <= Done(m)' <=> i + 1 <= Done(m))
           /\ At(m, i)' = At(m, i + 1)
    BY <1>1, <1>4 DEF LineTaken
  <2> QED
    BY <2>1
<1>5. CASE LineTakenSent(m, x)
  <2>1. \A i \in 1 .. Pending(m)' :
           \/ i = Pending(m) /\ At(m, i)' = x /\ ~(i <= Done(m)')
           \/ /\ i + 1 \in 1 .. Pending(m) /\ (i <= Done(m)' <=> i + 1 <= Done(m))
              /\ At(m, i)' = At(m, i + 1)
    BY <1>1, <1>5 DEF LineTakenSent
  <2> QED
    BY <2>1
<1> QED
  BY <1>2, <1>3, <1>4, <1>5 DEF LineMoves

\* A request with an id that m knows tells nobody anything new.
LEMMA MovesKeep ==
    ASSUME Typed, NEW m \in Members, NEW x \in Requests, LineMoves(m, x),
           x.id = 0 \/ Knows(m, x.id), ParkedWait(m), LearnsTheTruth(m),
           m \in parked' => m \in parked,
           UNCHANGED <<group, generation, ids, nextId, leaderId>>
    PROVE  /\ ParkedWait(m)' /\ LearnsTheTruth(m)'
           /\ \A i \in 1 .. Pending(m)' : At(m, i)'.id = 0 \/ Knows(m, At(m, i)'.id)
<1>1. /\ Done(m) \in Nat /\ Pending(m) \in Nat /\ Done(m) <= Pending(m)
  BY LineTypes
<1>2. x.id \in Nat /\ x.id <= nextId
  BY DEF LearnsTheTruth, Knows, Requests, Typed, ClientTypes, GroupTypes
<1>3. ParkedWait(m)'
  <2> SUFFICES ASSUME m \in parked
               PROVE  /\ Done(m)' < Pending(m)'
                      /\ At(m, Done(m) + 1)' = At(m, Done(m) + 1)
    BY DEF ParkedWait
  <2>1. Done(m) < Pending(m)
    BY DEF ParkedWait
  <2>2. CASE LineKept(m)
    BY <1>1, <2>1, <2>2 DEF LineKept
  <2>3. CASE LineSent(m, x)
    BY <1>1, <2>1, <2>3 DEF LineSent
  <2>4. CASE LineTaken(m)
    BY <1>1, <2>1, <2>4 DEF LineTaken
  <2>5. CASE LineTakenSent(m, x)
    BY <1>1, <2>1, <2>5 DEF LineTakenSent
  <2> QED
    BY <2>2, <2>3, <2>4, <2>5 DEF LineMoves
<1>4. \A i \in 1 .. Pending(m)' :
         \/ At(m, i)' = x /\ ~(i <= Done(m)')
         \/ \E j \in 1 .. Pending(m) : At(m, i)' = At(m, j) /\ (i <= Done(m)' <=> j <= Done(m))
  BY MovesFrom
<1>5. \A i \in 1 .. Pending(m)' : At(m, i)'.id <= nextId
  BY <1>2, <1>4 DEF LearnsTheTruth
<1>6. \A r : GoodNews(r) <=> GoodNews(r)'
  BY DEF GoodNews
<1>7. Done(m)' \in Nat /\ Pending(m)' \in Nat /\ Done(m)' <= Pending(m)'
  BY <1>1 DEF LineMoves, LineKept, LineSent, LineTaken, LineTakenSent
<1>8. \A i \in 1 .. Done(m)' : \E j \in 1 .. Done(m) : At(m, i)' = At(m, j)
  BY <1>1, <1>4, <1>7
<1>9. ASSUME NEW i \in 1 .. Done(m)', Answered(m, i, "join", "ok")'
      PROVE  GoodNews(At(m, i))'
  <2>1. PICK j \in 1 .. Done(m) : At(m, i)' = At(m, j)
    BY <1>8
  <2>2. Answered(m, j, "join", "ok")
    BY <1>9, <2>1 DEF Answered
  <2>3. GoodNews(At(m, j))
    BY <2>2 DEF LearnsTheTruth
  <2>4. PICK r : r = At(m, j)
    OBVIOUS
  <2>5. GoodNews(r)'
    BY <1>6, <2>3, <2>4
  <2> QED
    BY <2>1, <2>4, <2>5 DEF GoodNews
<1>10. LearnsTheTruth(m)'
  BY <1>5, <1>9 DEF LearnsTheTruth
<1>11. \A i \in 1 .. Pending(m)' : At(m, i)'.id = 0 \/ Knows(m, At(m, i)'.id)
  BY <1>4 DEF Knows
<1> QED
  BY <1>3, <1>10, <1>11

\* A member without a membership has nothing to be wrong about.
LEMMA Detached ==
    ASSUME NEW m \in Members, OneRequest(m)', Done(m)' \in Nat, Pending(m)' \in Nat,
           Done(m)' <= Pending(m)',
           pc'[m] \notin {"syncing", "fetching", "running"}
    PROVE  /\ SyncsForMembership(m)' /\ HeartbeatsFollow(m)' /\ LeaderPlans(m)'
           /\ SharesAreDealt(m)' /\ RunsOnOwnTopics(m)'
           /\ \A S : ~Share(m, S)'
<1>1. \A i \in 1 .. Pending(m)' : At(m, i)'.api \notin {"sync", "offsets"}
  BY DEF OneRequest
<1>2. \A S : ~Share(m, S)'
  BY <1>1 DEF Share, Owns, Answered
<1>3. SyncsForMembership(m)'
  BY <1>1 DEF SyncsForMembership, Owns
<1>4. HeartbeatsFollow(m)'
  BY DEF HeartbeatsFollow
<1>5. LeaderPlans(m)'
  BY <1>1 DEF LeaderPlans
<1>6. SharesAreDealt(m)'
  BY <1>2 DEF SharesAreDealt
<1>7. RunsOnOwnTopics(m)'
  BY DEF RunsOnOwnTopics
<1> QED
  BY <1>2, <1>3, <1>4, <1>5, <1>6, <1>7

\* The stage in which m awaits the response to a request.
Awaits(api, stage) ==
    /\ api = "join" => stage = "joining"
    /\ api = "sync" => stage = "syncing"
    /\ api = "offsets" => stage = "fetching"
    /\ api = "leave" => stage \in {"leaving", "closing"}

\* Nothing but a heartbeat of m is to be answered.
Quiet(m) == \A i \in 1 .. Pending(m) : At(m, i).api = "heartbeat"

\* m awaits one response besides that of its heartbeat.
LEMMA OnlyHeartbeats ==
    ASSUME Typed, NEW m \in Members, OneRequest(m)
    PROVE  /\ \A i, j \in 1 .. Pending(m) :
                 i # j /\ At(m, i).api # "heartbeat" => At(m, j).api = "heartbeat"
           /\ Quiet(m) => Pending(m) <= 1
           /\ pc[m] \in {"starting", "running", "restarting", "left"} => Quiet(m)
<1>1. /\ Done(m) \in Nat /\ Pending(m) \in Nat /\ Done(m) <= Pending(m)
      /\ Pending(m) <= 2
  BY LineTypes DEF OneRequest
<1>2. \A i \in 1 .. Pending(m) : At(m, i).api \in Apis
  <2>1. \A r \in Responses : r.api \in Apis
    BY DEF Responses, Apis
  <2>2. \A r \in Requests : r.api \in Apis
    BY DEF Requests
  <2>3. \A i \in 1 .. Pending(m) : i \in 1 .. Done(m) \/ i \in Done(m) + 1 .. Pending(m)
    BY <1>1
  <2> QED
    BY <2>1, <2>2, <2>3, LineTypes
<1>3. \A i, j \in 1 .. Pending(m) : i # j => Pending(m) = 2 /\ {i, j} = {1, 2}
  BY <1>1
<1>4. \A i, j \in 1 .. Pending(m) : i # j => At(m, i).api # At(m, j).api
  BY <1>3 DEF OneRequest
<1>5. ASSUME NEW i \in 1 .. Pending(m), NEW j \in 1 .. Pending(m), i # j,
             At(m, i).api # "heartbeat"
      PROVE  At(m, j).api = "heartbeat"
  <2>1. At(m, i).api \in Apis \ {"heartbeat"} /\ At(m, j).api \in Apis
    BY <1>2, <1>5
  <2>2. At(m, i).api # At(m, j).api
    BY <1>4, <1>5
  <2> QED
    BY <2>1, <2>2 DEF OneRequest, Apis
<1>6. Quiet(m) => Pending(m) <= 1
  BY <1>1 DEF Quiet, OneRequest
<1>7. pc[m] \in {"starting", "running", "restarting", "left"} => Quiet(m)
  BY <1>2 DEF Quiet, OneRequest, Apis
<1> QED
  BY <1>5, <1>6, <1>7

\* m goes on with a request of its own, the old one being answered.
LEMMA NextRequest ==
    ASSUME Typed, NEW m \in Members, OneRequest(m), NEW x, LineMoves(m, x),
           LineKept(m) \/ LineSent(m, x) => Quiet(m),
           LineTaken(m) \/ LineTakenSent(m, x) => At(m, 1).api # "heartbeat",
           LineSent(m, x) \/ LineTakenSent(m, x) =>
               x.api # "heartbeat" /\ Awaits(x.api, pc'[m])
    PROVE  /\ OneRequest(m)'
           /\ \A i \in 1 .. Pending(m)' :
                 \/ At(m, i)'.api = "heartbeat" /\ \E j \in 1 .. Pending(m) : At(m, i)' = At(m, j)
                 \/ At(m, i)' = x
           /\ LineKept(m) \/ LineTaken(m) => Quiet(m)'
<1>1. /\ Done(m) \in Nat /\ Pending(m) \in Nat /\ Done(m) <= Pending(m)
      /\ Pending(m) <= 2
  BY LineTypes DEF OneRequest
<1>2. /\ LineSent(m, x) => Pending(m) <= 1
      /\ LineKept(m) => Pending(m) <= 1
  BY OnlyHeartbeats
<1>3. LineTaken(m) \/ LineTakenSent(m, x) =>
          \A j \in 2 .. Pending(m) : At(m, j).api = "heartbeat"
  BY <1>1, OnlyHeartbeats DEF LineTaken, LineTakenSent
<1>4. /\ LineKept(m) => Quiet(m)'
      /\ LineTaken(m) => Quiet(m)'
  BY <1>1, <1>3 DEF Quiet, LineKept, LineTaken
<1>5. Pending(m)' <= 2
  BY <1>1, <1>2 DEF LineMoves, LineKept, LineSent, LineTaken, LineTakenSent
<1>6. \A i \in 1 .. Pending(m)' :
         \/ At(m, i)'.api = "heartbeat" /\ \E j \in 1 .. Pending(m) : At(m, i)' = At(m, j)
         \/ At(m, i)' = x /\ i = Pending(m)' /\ (LineSent(m, x) \/ LineTakenSent(m, x))
  <2>1. CASE LineKept(m)
    BY <1>1, <2>1 DEF LineKept, Quiet
  <2>2. CASE LineSent(m, x)
    BY <1>1, <2>2 DEF LineSent, Quiet
  <2>3. CASE LineTaken(m)
    <3>1. \A i \in 1 .. Pending(m)' : i + 1 \in 2 .. Pending(m) /\ i + 1 \in 1 .. Pending(m)
                                      /\ At(m, i)' = At(m, i + 1)
      BY <1>1, <2>3 DEF LineTaken
    <3> QED
      BY <1>3, <2>3, <3>1
  <2>4. CASE LineTakenSent(m, x)
    <3>1. \A i \in 1 .. Pending(m)' :
             \/ i = Pending(m)' /\ At(m, i)' = x
             \/ i + 1 \in 2 .. Pending(m) /\ i + 1 \in 1 .. Pending(m) /\ At(m, i)' = At(m, i + 1)
      BY <1>1, <2>4 DEF LineTakenSent
    <3> QED
      BY <1>3, <2>4, <3>1
  <2> QED
    BY <2>1, <2>2, <2>3, <2>4 DEF LineMoves
<1>7. Pending(m)' = 2 => At(m, 1)'.api # At(m, 2)'.api
  <2> SUFFICES ASSUME Pending(m)' = 2
               PROVE  At(m, 1)'.api = "heartbeat" /\ At(m, 2)'.api # "heartbeat"
    OBVIOUS
  <2>1. LineSent(m, x) \/ LineTakenSent(m, x)
    BY <1>1, <1>2 DEF LineMoves, LineKept, LineTaken
  <2>2. At(m, 2)' = x /\ Pending(m)' \in Nat
    BY <1>1, <2>1 DEF LineSent, LineTakenSent
  <2>3. At(m, 1)'.api = "heartbeat"
    BY <1>6
  <2> QED
    BY <2>1, <2>2, <2>3
<1>8. \A i \in 1 .. Pending(m)' : Awaits(At(m, i)'.api, pc'[m])
  BY <1>6 DEF Awaits
<1>9. \A i \in 1 .. Done(m)' : \E j \in 1 .. Done(m) : At(m, i)' = At(m, j)
  <2>1. Done(m)' \in Nat /\ Pending(m)' \in Nat /\ Done(m)' <= Pending(m)'
    BY MovesFrom
  <2>2. \A i \in 1 .. Done(m)' : i \in 1 .. Pending(m)' /\ i <= Done(m)'
    BY <2>1
  <2>3. \A j \in 1 .. Pending(m) : j <= Done(m) => j \in 1 .. Done(m)
    BY <1>1
  <2> QED
    BY <2>2, <2>3, MovesFrom
<1>10. \A i \in 1 .. Done(m)' : At(m, i)'.result = "idRequired" => At(m, i)'.api = "join"
  <2>1. \A j \in 1 .. Done(m) : j \in 1 .. Pending(m)
    BY <1>1
  <2> QED
    BY <1>9, <2>1 DEF OneRequest
<1>11. OneRequest(m)'
  BY <1>5, <1>7, <1>8, <1>10 DEF OneRequest, Awaits
<1> QED
  BY <1>4, <1>6, <1>11

\* A step that leaves m without a membership.
LEMMA DetachedStep ==
    ASSUME Typed, NEW m \in Members, MemberInv(m), NEW x \in Requests, LineMoves(m, x),
           x.id = 0 \/ Knows(m, x.id),
           LineKept(m) \/ LineSent(m, x) => Quiet(m),
           LineTaken(m) \/ LineTakenSent(m, x) => At(m, 1).api # "heartbeat",
           LineSent(m, x) \/ LineTakenSent(m, x) =>
               x.api # "heartbeat" /\ Awaits(x.api, pc'[m]),
           pc'[m] \notin {"syncing", "fetching", "running"},
           memberId'[m] = 0 \/ Knows(m, memberId'[m]),
           UNCHANGED parked, UNCHANGED groupVars
    PROVE  /\ MemberInv(m)'
           /\ \A y : Knows(m, y)' => Knows(m, y) \/ y = 0
           /\ \A S : ~Share(m, S)'
<1>1. OneRequest(m)'
  BY NextRequest DEF MemberInv
<1>2. ParkedWait(m)' /\ LearnsTheTruth(m)'
  BY MovesKeep DEF MemberInv, groupVars
<1>3. \A y : Knows(m, y)' => Knows(m, y) \/ y = 0
  <2>1. \A i \in 1 .. Pending(m)' : At(m, i)'.id = 0 \/ Knows(m, At(m, i)'.id)
    BY MovesKeep DEF MemberInv, groupVars
  <2>2. \A y : Knows(m, y)' => y = memberId'[m] \/ \E i \in 1 .. Pending(m)' : At(m, i)'.id = y
    BY DEF Knows
  <2> QED
    BY <2>1, <2>2
<1>4. Done(m)' \in Nat /\ Pending(m)' \in Nat /\ Done(m)' <= Pending(m)'
  BY MovesFrom
<1>5. /\ SyncsForMembership(m)' /\ HeartbeatsFollow(m)' /\ LeaderPlans(m)'
      /\ SharesAreDealt(m)' /\ RunsOnOwnTopics(m)'
      /\ \A S : ~Share(m, S)'
  BY <1>1, <1>4, Detached
<1> QED
  BY <1>1, <1>2, <1>3, <1>5 DEF MemberInv

\* The four ways in which the line of a member moves exclude each other.
LEMMA LineCases ==
    ASSUME Typed, NEW m \in Members, NEW x
    PROVE  /\ LineKept(m) => ~LineSent(m, x) /\ ~LineTaken(m) /\ ~LineTakenSent(m, x)
           /\ LineSent(m, x) => ~LineTaken(m) /\ ~LineTakenSent(m, x)
           /\ LineTaken(m) => ~LineTakenSent(m, x)
<1>1. Done(m) \in Nat /\ Pending(m) \in Nat
  BY LineTypes
<1> QED
  BY <1>1 DEF LineKept, LineSent, LineTaken, LineTakenSent

\* Requests and responses have an id and a generation.
LEMMA Fields ==
    /\ \A r \in Responses : /\ r.api \in Apis /\ r.id \in Nat
                            /\ r.result \in Failures \cup {"ok", "idRequired"}
                            /\ r.gen \in Nat
    /\ \A r \in Requests : r.api \in Apis /\ r.id \in Nat /\ r.gen \in Nat
    /\ \A a \in Apis, i, g \in Nat :
          /\ Request(a, i, g) \in Requests
          /\ Request(a, i, g).api = a /\ Request(a, i, g).id = i /\ Request(a, i, g).gen = g
<1>1. \A r \in Responses : r.api \in Apis /\ r.id \in Nat /\ r.gen \in Nat
  BY DEF Responses, Apis
<1>2. \A r \in Responses : r.result \in Failures \cup {"ok", "idRequired"}
  BY DEF Responses
<1>3. \A r \in Requests : r.api \in Apis /\ r.id \in Nat /\ r.gen \in Nat
  BY DEF Requests
<1>4. \A a \in Apis, i, g \in Nat :
          /\ Request(a, i, g) \in Requests
          /\ Request(a, i, g).api = a /\ Request(a, i, g).id = i /\ Request(a, i, g).gen = g
  BY DEF Request, Requests
<1> QED
  BY <1>1, <1>2, <1>3, <1>4

\* What m knows are ids that the coordinator has given out.
LEMMA KnownIds ==
    ASSUME Typed, NEW m \in Members, MemberInv(m)
    PROVE  /\ memberId[m] \in Nat /\ generationId[m] \in Nat /\ generationId[m] <= generation
           /\ \A y : Knows(m, y) => y \in 0 .. nextId
           /\ Knows(m, memberId[m])
<1>1. memberId[m] \in 0 .. nextId /\ generationId[m] \in 0 .. generation
      /\ nextId \in Nat /\ generation \in Nat
  BY DEF Typed, ClientTypes, GroupTypes
<1>2. \A i \in 1 .. Pending(m) : At(m, i).id \in Nat
  <2>1. Done(m) \in Nat /\ Pending(m) \in Nat /\ Done(m) <= Pending(m)
    BY LineTypes
  <2>2. \A i \in 1 .. Pending(m) : i \in 1 .. Done(m) \/ i \in Done(m) + 1 .. Pending(m)
    BY <2>1
  <2> QED
    BY <2>2, LineTypes, Fields
<1>3. \A i \in 1 .. Pending(m) : At(m, i).id \in 0 .. nextId
  BY <1>1, <1>2 DEF MemberInv, LearnsTheTruth
<1> QED
  BY <1>1, <1>3 DEF Knows

\* The first response of m is on its line.
LEMMA FirstResponse ==
    ASSUME Typed, NEW m \in Members, replies[m] # <<>>
    PROVE  /\ Head(replies[m]) = At(m, 1) /\ 1 \in 1 .. Done(m) /\ 1 \in 1 .. Pending(m)
           /\ Head(replies[m]) \in Responses
<1>1. queue[m] \in Seq(Requests) /\ replies[m] \in Seq(Responses)
  BY DEF Typed, LinkTypes
<1>2. Done(m) > 0 /\ Head(replies[m]) = At(m, 1)
  BY <1>1, NthTaken DEF Done, At
<1>3. 1 \in 1 .. Done(m) /\ 1 \in 1 .. Pending(m)
  BY <1>2, LineTypes
<1> QED
  BY <1>2, <1>3, LineTypes

\* A member that starts has no id and asks for one.
LEMMA StartStep ==
    ASSUME Typed, NEW m \in Members, MemberInv(m), Start(m)
    PROVE  ClientEffect(m)
<1> DEFINE x == Request("join", 0, 0)
<1>1. x \in Requests /\ x.id = 0 /\ x.api = "join"
  BY Fields DEF Apis
<1> HIDE DEF x
<1>2. /\ pc[m] = "starting" /\ pc' = [pc EXCEPT ![m] = "joining"]
      /\ memberId' = [memberId EXCEPT ![m] = 0]
      /\ connected' = [connected EXCEPT ![m] = TRUE]
      /\ UNCHANGED <<generationId, assignment, ticking, heartbeatError, plan, parked,
                     groupVars, bounds>>
  BY DEF Start
<1>3. /\ LineSent(m, x) /\ \A n \in Members \ {m} : LineKept(n)
      /\ queue' \in [Members -> Seq(Requests)] /\ replies' = replies
  BY <1>1, SentLine DEF Start, x
<1>4. Quiet(m)
  BY <1>2, OnlyHeartbeats DEF MemberInv
<1>5. pc'[m] = "joining" /\ memberId'[m] = 0
  BY <1>2 DEF Typed, ClientTypes
<1>6. /\ MemberInv(m)'
      /\ \A y : Knows(m, y)' => Knows(m, y) \/ y = 0
      /\ \A S : ~Share(m, S)'
  BY <1>1, <1>2, <1>3, <1>4, <1>5, LineCases, DetachedStep DEF LineMoves, Awaits
<1>7. Typed'
  <2>1. ClientTypes'
    BY <1>2 DEF Typed, ClientTypes, GroupTypes, Stages, bounds, groupVars
  <2> QED
    BY <1>2, <1>3, <2>1 DEF Typed, LinkTypes, GroupTypes, groupVars
<1>8. \A n \in Members \ {m} : Untouched(n)
  BY <1>2, <1>3 DEF Untouched, Typed, ClientTypes
<1> QED
  BY <1>2, <1>6, <1>7, <1>8 DEF ClientEffect, bounds

\* MEMBER_ID_REQUIRED is the only answer that tells m an id to ask with.
LEMMA ReceiveMemberIdStep ==
    ASSUME Typed, NEW m \in Members, MemberInv(m), ReceiveMemberId(m)
    PROVE  ClientEffect(m)
<1>1. PICK r \in Responses : /\ r = Head(replies[m]) /\ replies[m] # <<>> /\ r = At(m, 1)
                             /\ r.api = "join" /\ Knows(m, r.id) /\ r.id \in Nat
  BY FirstResponse, Fields DEF ReceiveMemberId, Received, Knows
<1> DEFINE x == Request("join", r.id, 0)
<1>2. x \in Requests /\ x.id = r.id /\ x.api = "join"
  BY <1>1, Fields DEF Apis
<1>3. /\ pc[m] = "joining" /\ pc' = pc
      /\ memberId' = [memberId EXCEPT ![m] = r.id]
      /\ UNCHANGED <<generationId, assignment, ticking, heartbeatError, plan, connected,
                     parked, groupVars, bounds>>
  BY <1>1 DEF ReceiveMemberId
<1>4. Takes(m) /\ Sends(m, x)
  BY <1>1 DEF ReceiveMemberId
<1> HIDE DEF x
<1>5. /\ LineTakenSent(m, x) /\ \A n \in Members \ {m} : LineKept(n)
      /\ queue' \in [Members -> Seq(Requests)] /\ replies' \in [Members -> Seq(Responses)]
  BY <1>1, <1>2, <1>4, TakenSentLine
<1>6. memberId'[m] = r.id /\ r.id \in 0 .. nextId
  BY <1>1, <1>3, KnownIds DEF Typed, ClientTypes
<1>7. /\ MemberInv(m)'
      /\ \A y : Knows(m, y)' => Knows(m, y) \/ y = 0
      /\ \A S : ~Share(m, S)'
  BY <1>1, <1>2, <1>3, <1>5, <1>6, LineCases, DetachedStep DEF LineMoves, Awaits
<1>8. Typed'
  <2>1. ClientTypes'
    BY <1>3, <1>6 DEF Typed, ClientTypes, GroupTypes, Stages, bounds, groupVars
  <2> QED
    BY <1>3, <1>5, <2>1 DEF Typed, LinkTypes, GroupTypes, groupVars
<1>9. \A n \in Members \ {m} : Untouched(n)
  BY <1>3, <1>5 DEF Untouched, Typed, ClientTypes
<1> QED
  BY <1>3, <1>7, <1>8, <1>9 DEF ClientEffect, bounds

\* The catch block sends a JoinGroup or leaves m to restart.
LEMMA JoinOrSyncFailsStep ==
    ASSUME Typed, NEW m \in Members, MemberInv(m), JoinOrSyncFails(m)
    PROVE  ClientEffect(m)
<1>1. PICK r \in Responses : /\ r = Head(replies[m]) /\ replies[m] # <<>> /\ r = At(m, 1)
                             /\ r.api \in {"join", "sync"}
  BY FirstResponse DEF JoinOrSyncFails, Received
<1> DEFINE x == Request("join", memberId[m], 0)
<1>2. x \in Requests /\ x.id = memberId[m] /\ x.api = "join" /\ Knows(m, x.id)
  BY Fields, KnownIds DEF Apis
<1>3. /\ Takes(m) /\ Catch(m, r.result)
      /\ UNCHANGED <<memberId, generationId, assignment, ticking, heartbeatError, plan,
                     connected, parked, groupVars, bounds>>
  BY <1>1 DEF JoinOrSyncFails
<1>4. /\ \/ /\ pc' = [pc EXCEPT ![m] = "joining"] /\ LineTakenSent(m, x)
         \/ /\ pc' = [pc EXCEPT ![m] = "restarting"] /\ LineTaken(m)
      /\ \A n \in Members \ {m} : LineKept(n)
      /\ queue' \in [Members -> Seq(Requests)] /\ replies' \in [Members -> Seq(Responses)]
  <2>1. CASE r.result = "rebalance"
    <3>1. Sends(m, x) /\ pc' = [pc EXCEPT ![m] = "joining"]
      BY <1>3, <2>1 DEF Catch
    <3> HIDE DEF x
    <3> QED
      BY <1>1, <1>2, <1>3, <3>1, TakenSentLine
  <2>2. CASE r.result # "rebalance"
    <3>1. UNCHANGED queue /\ pc' = [pc EXCEPT ![m] = "restarting"]
      BY <1>3, <2>2 DEF Catch
    <3> QED
      BY <1>1, <1>3, <3>1, TakenLine DEF Typed, LinkTypes
  <2> QED
    BY <2>1, <2>2
<1> HIDE DEF x
<1>5. /\ LineMoves(m, x) /\ pc'[m] \in {"joining", "restarting"}
      /\ LineTakenSent(m, x) => pc'[m] = "joining"
      /\ ~LineSent(m, x) /\ ~LineKept(m)
  BY <1>4, LineCases DEF LineMoves, Typed, ClientTypes
<1>6. /\ MemberInv(m)'
      /\ \A y : Knows(m, y)' => Knows(m, y) \/ y = 0
      /\ \A S : ~Share(m, S)'
  BY <1>1, <1>2, <1>3, <1>5, KnownIds, DetachedStep DEF Awaits
<1>7. Typed'
  <2>1. ClientTypes'
    BY <1>3, <1>4 DEF Typed, ClientTypes, GroupTypes, Stages, bounds, groupVars
  <2> QED
    BY <1>3, <1>4, <2>1 DEF Typed, LinkTypes, GroupTypes, groupVars
<1>8. \A n \in Members \ {m} : Untouched(n)
  BY <1>3, <1>4 DEF Untouched, Typed, ClientTypes
<1> QED
  BY <1>3, <1>6, <1>7, <1>8 DEF ClientEffect, bounds

\* The catch block again, for the error of a heartbeat.
LEMMA HandleLastHeartbeatStep ==
    ASSUME Typed, NEW m \in Members, MemberInv(m), HandleLastHeartbeat(m)
    PROVE  ClientEffect(m)
<1> DEFINE x == Request("join", memberId[m], 0)
<1>1. x \in Requests /\ x.id = memberId[m] /\ x.api = "join" /\ Knows(m, x.id)
  BY Fields, KnownIds DEF Apis
<1>2. PICK e : Catch(m, e)
  BY DEF HandleLastHeartbeat
<1>3. /\ pc[m] = "running" /\ replies' = replies
      /\ UNCHANGED <<memberId, generationId, assignment, ticking, heartbeatError, plan,
                     connected, parked, groupVars, bounds>>
  BY DEF HandleLastHeartbeat
<1>4. /\ \/ /\ pc' = [pc EXCEPT ![m] = "joining"] /\ LineSent(m, x)
         \/ /\ pc' = [pc EXCEPT ![m] = "restarting"] /\ LineKept(m)
      /\ \A n \in Members \ {m} : LineKept(n)
      /\ queue' \in [Members -> Seq(Requests)]
  <2>1. CASE e = "rebalance"
    <3>1. Sends(m, x) /\ pc' = [pc EXCEPT ![m] = "joining"]
      BY <1>2, <2>1 DEF Catch
    <3> HIDE DEF x
    <3> QED
      BY <1>1, <1>3, <3>1, SentLine
  <2>2. CASE e # "rebalance"
    <3>1. UNCHANGED queue /\ pc' = [pc EXCEPT ![m] = "restarting"]
      BY <1>2, <2>2 DEF Catch
    <3> QED
      BY <1>3, <3>1, KeptLine DEF Typed, LinkTypes
  <2> QED
    BY <2>1, <2>2
<1> HIDE DEF x
<1>5. /\ LineMoves(m, x) /\ pc'[m] \in {"joining", "restarting"}
      /\ LineSent(m, x) => pc'[m] = "joining"
      /\ ~LineTakenSent(m, x) /\ ~LineTaken(m) /\ Quiet(m)
  BY <1>3, <1>4, LineCases, OnlyHeartbeats DEF LineMoves, Typed, ClientTypes, MemberInv
<1>6. /\ MemberInv(m)'
      /\ \A y : Knows(m, y)' => Knows(m, y) \/ y = 0
      /\ \A S : ~Share(m, S)'
  BY <1>1, <1>3, <1>5, KnownIds, DetachedStep DEF Awaits
<1>7. Typed'
  <2>1. ClientTypes'
    BY <1>3, <1>4 DEF Typed, ClientTypes, GroupTypes, Stages, bounds, groupVars
  <2> QED
    BY <1>3, <1>4, <2>1 DEF Typed, LinkTypes, GroupTypes, groupVars
<1>8. \A n \in Members \ {m} : Untouched(n)
  BY <1>3, <1>4 DEF Untouched, Typed, ClientTypes
<1> QED
  BY <1>3, <1>6, <1>7, <1>8 DEF ClientEffect, bounds

\* m leaves the group, or tries to.
LEMMA LeaveGroupStep ==
    ASSUME Typed, NEW m \in Members, MemberInv(m), LeaveGroup(m)
    PROVE  ClientEffect(m)
<1> DEFINE x == Request("leave", memberId[m], 0)
<1>1. x \in Requests /\ x.id = memberId[m] /\ x.api = "leave" /\ Knows(m, x.id)
  BY Fields, KnownIds DEF Apis
<1>2. /\ pc[m] \in {"running", "restarting"} /\ replies' = replies
      /\ ticking' = [ticking EXCEPT ![m] = FALSE]
      /\ leaves' \in {leaves, leaves - 1} /\ (leaves' # leaves => leaves > 0)
      /\ UNCHANGED <<memberId, generationId, assignment, heartbeatError, plan,
                     connected, parked, groupVars, scenario, faults>>
  BY DEF LeaveGroup
<1>3. /\ \/ /\ pc' = [pc EXCEPT ![m] = IF @ = "running" THEN "closing" ELSE "leaving"]
            /\ LineSent(m, x)
         \/ /\ pc' = [pc EXCEPT ![m] = IF @ = "running" THEN "left" ELSE "starting"]
            /\ LineKept(m)
      /\ \A n \in Members \ {m} : LineKept(n)
      /\ queue' \in [Members -> Seq(Requests)]
  <2>1. CASE connected[m]
    <3>1. /\ Sends(m, x)
          /\ pc' = [pc EXCEPT ![m] = IF @ = "running" THEN "closing" ELSE "leaving"]
      BY <2>1 DEF LeaveGroup
    <3> HIDE DEF x
    <3> QED
      BY <1>1, <1>2, <3>1, SentLine
  <2>2. CASE ~connected[m]
    <3>1. /\ UNCHANGED queue
          /\ pc' = [pc EXCEPT ![m] = IF @ = "running" THEN "left" ELSE "starting"]
      BY <2>2 DEF LeaveGroup
    <3> QED
      BY <1>2, <3>1, KeptLine DEF Typed, LinkTypes
  <2> QED
    BY <2>1, <2>2
<1> HIDE DEF x
<1>4. /\ LineMoves(m, x) /\ pc'[m] \in {"closing", "leaving", "left", "starting"}
      /\ LineSent(m, x) => pc'[m] \in {"closing", "leaving"}
      /\ ~LineTakenSent(m, x) /\ ~LineTaken(m) /\ Quiet(m)
  BY <1>2, <1>3, LineCases, OnlyHeartbeats DEF LineMoves, Typed, ClientTypes, MemberInv
<1>5. /\ MemberInv(m)'
      /\ \A y : Knows(m, y)' => Knows(m, y) \/ y = 0
      /\ \A S : ~Share(m, S)'
  BY <1>1, <1>2, <1>4, KnownIds, DetachedStep DEF Awaits
<1>6. Typed'
  <2>1. leaves' \in 0 .. scenario.leaves
    BY <1>2, GroupAssumption DEF Typed, ClientTypes
  <2>2. ClientTypes'
    BY <1>2, <1>3, <2>1 DEF Typed, ClientTypes, GroupTypes, Stages, groupVars
  <2> QED
    BY <1>2, <1>3, <2>2 DEF Typed, LinkTypes, GroupTypes, groupVars
<1>7. \A n \in Members \ {m} : Untouched(n)
  BY <1>2, <1>3 DEF Untouched, Typed, ClientTypes
<1> QED
  BY <1>2, <1>5, <1>6, <1>7 DEF ClientEffect

\* The answer to LeaveGroup: m starts again or is gone.
LEMMA ReceiveLeaveStep ==
    ASSUME Typed, NEW m \in Members, MemberInv(m), ReceiveLeave(m)
    PROVE  ClientEffect(m)
<1> DEFINE x == Request("join", 0, 0)
<1>1. x \in Requests /\ x.id = 0
  BY Fields DEF Apis
<1> HIDE DEF x
<1>2. replies[m] # <<>> /\ At(m, 1).api = "leave"
  BY FirstResponse DEF ReceiveLeave, Received
<1>3. /\ pc' = [pc EXCEPT ![m] = IF @ = "leaving" THEN "starting" ELSE "left"]
      /\ connected' = [connected EXCEPT ![m] = FALSE] /\ Takes(m) /\ queue' = queue
      /\ UNCHANGED <<memberId, generationId, assignment, ticking, heartbeatError, plan,
                     parked, groupVars, bounds>>
  BY DEF ReceiveLeave
<1>4. /\ LineTaken(m) /\ \A n \in Members \ {m} : LineKept(n)
      /\ replies' \in [Members -> Seq(Responses)]
  BY <1>2, <1>3, TakenLine
<1>5. pc'[m] \in {"starting", "left"}
  BY <1>3 DEF Typed, ClientTypes
<1>6. /\ MemberInv(m)'
      /\ \A y : Knows(m, y)' => Knows(m, y) \/ y = 0
      /\ \A S : ~Share(m, S)'
  BY <1>1, <1>2, <1>3, <1>4, <1>5, KnownIds, LineCases, DetachedStep DEF LineMoves
<1>7. Typed'
  <2>1. ClientTypes'
    BY <1>3 DEF Typed, ClientTypes, GroupTypes, Stages, bounds, groupVars
  <2> QED
    BY <1>3, <1>4, <2>1 DEF Typed, LinkTypes, GroupTypes, groupVars
<1>8. \A n \in Members \ {m} : Untouched(n)
  BY <1>3, <1>4 DEF Untouched, Typed, ClientTypes
<1> QED
  BY <1>3, <1>6, <1>7, <1>8 DEF ClientEffect, bounds

\* With the connection, everything on the line of m is lost.
LEMMA ConnectionLostStep ==
    ASSUME Typed, NEW m \in Members, MemberInv(m), ConnectionLost(m)
    PROVE  ClientEffect(m)
<1>1. /\ pc' = [pc EXCEPT ![m] = CASE @ = "leaving" -> "starting"
                                   [] @ = "closing" -> "left"
                                   [] OTHER -> "restarting"]
      /\ connected' = [connected EXCEPT ![m] = FALSE]
      /\ queue' = [queue EXCEPT ![m] = <<>>] /\ replies' = [replies EXCEPT ![m] = <<>>]
      /\ parked' = parked \ {m} /\ faults > 0 /\ faults' = faults - 1
      /\ UNCHANGED <<memberId, generationId, assignment, ticking, plan, groupVars,
                     scenario, leaves>>
  BY DEF ConnectionLost
<1>2. PICK e \in [kind : Failures \cup {"none"}, id : Nat, gen : Nat] :
         heartbeatError' = [heartbeatError EXCEPT ![m] = e]
  <2>1. [kind |-> "network", id |-> memberId[m], gen |-> generationId[m]]
           \in [kind : Failures \cup {"none"}, id : Nat, gen : Nat]
    BY KnownIds DEF Failures
  <2>2. heartbeatError[m] \in [kind : Failures \cup {"none"}, id : Nat, gen : Nat]
    BY DEF Typed, ClientTypes
  <2> QED
    BY <2>1, <2>2 DEF ConnectionLost
<1>3. \A n \in Members \ {m} : LineKept(n)
  BY <1>1, KeptLine DEF Typed, LinkTypes
<1>4. queue' \in [Members -> Seq(Requests)] /\ replies' \in [Members -> Seq(Responses)]
  BY <1>1 DEF Typed, LinkTypes
<1>5. Done(m)' = 0 /\ Pending(m)' = 0
  <2>1. queue'[m] = <<>> /\ replies'[m] = <<>>
    BY <1>1 DEF Typed, LinkTypes
  <2> QED
    BY <2>1 DEF Done, Pending, Count
<1>6. pc'[m] \in {"starting", "left", "restarting"}
  BY <1>1 DEF Typed, ClientTypes
<1>7. OneRequest(m)' /\ ParkedWait(m)' /\ LearnsTheTruth(m)'
  BY <1>1, <1>5 DEF OneRequest, ParkedWait, LearnsTheTruth
<1>8. /\ SyncsForMembership(m)' /\ HeartbeatsFollow(m)' /\ LeaderPlans(m)'
      /\ SharesAreDealt(m)' /\ RunsOnOwnTopics(m)'
      /\ \A S : ~Share(m, S)'
  BY <1>5, <1>6, <1>7, Detached
<1>9. \A y : Knows(m, y)' => Knows(m, y)
  BY <1>1, <1>5 DEF Knows
<1>10. Typed'
  <2>1. faults' \in 0 .. scenario.faults
    BY <1>1, GroupAssumption DEF Typed, ClientTypes
  <2>2. ClientTypes'
    BY <1>1, <1>2, <2>1 DEF Typed, ClientTypes, GroupTypes, Stages, groupVars
  <2> QED
    BY <1>1, <1>4, <2>2 DEF Typed, LinkTypes, GroupTypes, groupVars
<1>11. \A n \in Members \ {m} : Untouched(n)
  BY <1>1, <1>2, <1>3 DEF Untouched, Typed, ClientTypes
<1> QED
  BY <1>1, <1>7, <1>8, <1>9, <1>10, <1>11 DEF ClientEffect, MemberInv

-----------------------------------------------------------------------------
(* The assignment of the leader.                                           *)

\* Every subscription is a finite set of partitions.
LEMMA FiniteTopics ==
    ASSUME Typed, NEW m \in Members
    PROVE  /\ Subscribed(m) \subseteq Partitions /\ NumPartitions \in Nat
           /\ IsFiniteSet(Subscribed(m))
<1>1. Subscribed(m) \subseteq Partitions /\ NumPartitions \in Nat
  BY GroupAssumption DEF Typed, ClientTypes, Subscribed
<1>2. IsFiniteSet(Partitions)
  BY <1>1, FS_Interval DEF Partitions
<1> QED
  BY <1>1, <1>2, FS_Subset

\* RoundRobin gives every partition to one member of the roster.
LEMMA RoundRobinDeals ==
    ASSUME Typed, NEW m \in Members, NEW roster \in Seq(Nat), roster # <<>>
    PROVE  Deals(RoundRobin(roster, Subscribed(m)), {roster[j] : j \in 1 .. Len(roster)}, m)
<1> DEFINE parts == Subscribed(m)
           D == {roster[j] : j \in 1 .. Len(roster)}
           place(p) == Cardinality({q \in parts : q < p})
           owner(p) == roster[(place(p) % Len(roster)) + 1]
           f == [i \in D |-> {p \in parts : owner(p) = i}]
<1>1. f = RoundRobin(roster, parts)
  BY DEF RoundRobin
<1>2. Len(roster) \in Nat /\ Len(roster) > 0
  OBVIOUS
<1>3. ASSUME NEW p \in parts
      PROVE  owner(p) \in D
  <2>1. IsFiniteSet({q \in parts : q < p})
    BY FiniteTopics, FS_Subset
  <2>2. PICK k \in Nat : k = place(p)
    BY <2>1, FS_CardinalityType
  <2>3. (k % Len(roster)) + 1 \in 1 .. Len(roster)
    BY <1>2
  <2> QED
    BY <2>2, <2>3
<1> HIDE DEF owner, D, parts
<1>4. /\ DOMAIN f = D
      /\ \A i \in D : f[i] \subseteq parts
      /\ \A i, j \in D : i # j => f[i] \cap f[j] = {}
      /\ \A p \in parts : \E i \in D : p \in f[i]
  BY <1>3
<1> QED
  BY <1>1, <1>4 DEF Deals, parts, D

\* A finite set of ids has a roster.
LEMMA RosterOfIds ==
    ASSUME NEW n \in Nat, NEW S, S \subseteq 1 .. n
    PROVE  \E s \in Seq(Nat) : s = Roster(S) /\ {s[j] : j \in 1 .. Len(s)} = S
<1>1. IsFiniteSet(1 .. n)
  BY FS_Interval
<1>2. IsFiniteSet(S)
  BY <1>1, FS_Subset
<1>3. PICK k \in Nat : k = Cardinality(S)
  BY <1>2, FS_CardinalityType
<1>4. PICK s \in [1 .. k -> S] : \A i \in S : \E j \in 1 .. k : s[j] = i
  <2>1. ExistsBijection(1 .. k, S)
    BY <1>2, <1>3, FS_CardinalityType
  <2> QED
    BY <2>1 DEF ExistsBijection, Bijection, Surjection
<1>5. PICK t : t = Roster(S)
  OBVIOUS
<1>6. t \in [1 .. k -> S] /\ \A i \in S : \E j \in 1 .. k : t[j] = i
  <2>1. t = CHOOSE u \in [1 .. k -> S] : \A i \in S : \E j \in DOMAIN u : u[j] = i
    BY <1>3, <1>5 DEF Roster
  <2>2. \E u \in [1 .. k -> S] : \A i \in S : \E j \in DOMAIN u : u[j] = i
    BY <1>4
  <2>3. t \in [1 .. k -> S] /\ \A i \in S : \E j \in DOMAIN t : t[j] = i
    BY <2>1, <2>2
  <2> QED
    BY <2>3
<1>7. t \in Seq(Nat) /\ Len(t) = k
  <2>1. \A i \in S : i \in Nat
    BY <1>1
  <2>2. t \in [1 .. k -> Nat]
    BY <1>6, <2>1
  <2> QED
    BY <1>3, <2>2
<1>8. {t[j] : j \in 1 .. Len(t)} = S
  BY <1>6, <1>7
<1> QED
  BY <1>5, <1>7, <1>8

\* What an "ok" to JoinGroup and SyncGroup says.
LEMMA OkFields ==
    \A r \in Responses : r.result = "ok" =>
        /\ r.api = "join" => r.leader \in Nat /\ r.roster \in Seq(Nat)
        /\ r.api = "sync" => r.parts \subseteq Partitions
  BY DEF Responses

\* A step of m within its membership.
LEMMA AttachedStep ==
    ASSUME Typed, NEW m \in Members, MemberInv(m), NEW x \in Requests, LineMoves(m, x),
           x.api # "sync", x.id = memberId[m],
           OneRequest(m)', HeartbeatsFollow(m)', RunsOnOwnTopics(m)',
           Owns(m)' => memberId[m] # 0 /\ Share(m, assignment'[m]),
           memberId'[m] = memberId[m], generationId'[m] = generationId[m],
           plan'[m] = plan[m], UNCHANGED parked, UNCHANGED groupVars, UNCHANGED scenario
    PROVE  /\ MemberInv(m)'
           /\ \A y : Knows(m, y)' => Knows(m, y)
           /\ \A S : Share(m, S)' => Share(m, S)
<1>1. x.id = 0 \/ Knows(m, x.id)
  BY DEF Knows
<1>2. /\ ParkedWait(m)' /\ LearnsTheTruth(m)'
      /\ \A i \in 1 .. Pending(m)' : At(m, i)'.id = 0 \/ Knows(m, At(m, i)'.id)
  BY <1>1, MovesKeep DEF MemberInv, groupVars
<1>3. /\ Done(m) \in Nat /\ Pending(m) \in Nat /\ Done(m) <= Pending(m)
      /\ Done(m)' \in Nat /\ Pending(m)' \in Nat /\ Done(m)' <= Pending(m)'
  BY LineTypes, MovesFrom
<1>4. \A i \in 1 .. Pending(m)' :
         \/ At(m, i)' = x
         \/ \E j \in 1 .. Pending(m) :
               At(m, i)' = At(m, j) /\ (i <= Done(m)' <=> j <= Done(m))
  BY MovesFrom
<1>5. \A y : Knows(m, y)' => Knows(m, y)
  <2>1. \A y : Knows(m, y)' => y = memberId[m] \/ \E i \in 1 .. Pending(m)' : At(m, i)'.id = y
    BY DEF Knows
  <2>2. \A i \in 1 .. Pending(m)' : Knows(m, At(m, i)'.id)
    BY <1>4 DEF Knows
  <2>3. Knows(m, memberId[m])
    BY DEF Knows
  <2> QED
    BY <2>1, <2>2, <2>3
<1>6. \A S : Share(m, S)' => Share(m, S)
  <2>1. ASSUME NEW i \in 1 .. Done(m)', Answered(m, i, "sync", "ok")'
        PROVE  Share(m, At(m, i)'.parts)
    <3>1. i \in 1 .. Pending(m)' /\ i <= Done(m)'
      BY <1>3
    <3>2. At(m, i)' # x
      BY <2>1 DEF Answered
    <3>3. PICK j \in 1 .. Pending(m) : At(m, i)' = At(m, j) /\ j <= Done(m)
      BY <1>4, <3>1, <3>2
    <3>4. j \in 1 .. Done(m)
      BY <1>3, <3>3
    <3>5. Answered(m, j, "sync", "ok")
      BY <2>1, <3>3, <3>4 DEF Answered
    <3> QED
      BY <3>3, <3>4, <3>5 DEF Share
  <2>2. ASSUME NEW S, Share(m, S)'
        PROVE  Share(m, S)
    <3>1. CASE Owns(m)' /\ S = assignment'[m]
      BY <3>1
    <3>2. CASE \E i \in 1 .. Done(m)' : Answered(m, i, "sync", "ok")' /\ S = At(m, i)'.parts
      BY <2>1, <3>2
    <3> QED
      BY <2>2, <3>1, <3>2 DEF Share
  <2> QED
    BY <2>2
<1>7. SyncsForMembership(m)'
  <2>1. ASSUME NEW i \in 1 .. Pending(m)', At(m, i)'.api = "sync"
        PROVE  /\ At(m, i)'.id = memberId[m] /\ At(m, i)'.gen = generationId[m]
               /\ memberId[m] # 0
    <3>1. PICK j \in 1 .. Pending(m) : At(m, i)' = At(m, j)
      BY <1>4, <2>1
    <3> QED
      BY <2>1, <3>1 DEF MemberInv, SyncsForMembership, Current
  <2> QED
    BY <2>1 DEF SyncsForMembership, Current
<1>8. LeaderPlans(m)'
  <2> SUFFICES ASSUME NEW i \in Done(m)' + 1 .. Pending(m)',
                      group = "completing", At(m, i)'.api = "sync",
                      At(m, i)'.gen = generation, At(m, i)'.id = leaderId
               PROVE  Deals(plan[m], ids, m)
    BY DEF LeaderPlans, Deals, Subscribed, groupVars
  <2>1. i \in 1 .. Pending(m)' /\ ~(i <= Done(m)')
    BY <1>3
  <2>2. PICK j \in 1 .. Pending(m) : At(m, i)' = At(m, j) /\ ~(j <= Done(m))
    BY <1>4, <2>1
  <2>3. j \in Done(m) + 1 .. Pending(m)
    BY <1>3, <2>2
  <2> QED
    BY <2>2, <2>3 DEF MemberInv, LeaderPlans
<1>9. SharesAreDealt(m)'
  <2>1. \A S : Share(m, S) =>
            /\ S \subseteq Partitions
            /\ group = "completing" => generationId[m] # generation
            /\ group = "stable" /\ generationId[m] = generation =>
                  memberId[m] \in ids /\ S = target[memberId[m]]
    BY DEF MemberInv, SharesAreDealt
  <2> QED
    BY <1>6, <2>1 DEF SharesAreDealt, groupVars
<1> QED
  BY <1>2, <1>5, <1>6, <1>7, <1>8, <1>9 DEF MemberInv

\* joinGroup() returns: m has a membership and asks for its assignment.
LEMMA ReceiveJoinStep ==
    ASSUME Typed, NEW m \in Members, MemberInv(m), ReceiveJoin(m)
    PROVE  ClientEffect(m)
<1>1. PICK r \in Responses : /\ r = Head(replies[m]) /\ replies[m] # <<>> /\ r = At(m, 1)
                             /\ r.api = "join" /\ r.result = "ok"
  BY FirstResponse DEF ReceiveJoin, Received
<1>2. /\ 1 \in 1 .. Done(m) /\ Knows(m, r.id) /\ GoodNews(r)
      /\ r.id \in Nat /\ r.gen \in Nat /\ r.leader \in Nat /\ r.roster \in Seq(Nat)
  <2>1. 1 \in 1 .. Done(m) /\ 1 \in 1 .. Pending(m)
    BY <1>1, FirstResponse
  <2>2. GoodNews(At(m, 1))
    BY <1>1, <2>1 DEF MemberInv, LearnsTheTruth, Answered
  <2> QED
    BY <1>1, <2>1, <2>2, Fields, OkFields DEF Knows
<1> DEFINE x == Request("sync", r.id, r.gen)
           p == IF r.id = r.leader THEN RoundRobin(r.roster, Subscribed(m)) ELSE <<>>
<1>3. x \in Requests /\ x.id = r.id /\ x.gen = r.gen /\ x.api = "sync"
  BY <1>2, Fields DEF Apis
<1>4. /\ pc[m] = "joining" /\ pc' = [pc EXCEPT ![m] = "syncing"]
      /\ memberId' = [memberId EXCEPT ![m] = r.id]
      /\ generationId' = [generationId EXCEPT ![m] = r.gen]
      /\ plan' = [plan EXCEPT ![m] = p]
      /\ Takes(m) /\ Sends(m, x)
      /\ UNCHANGED <<assignment, ticking, heartbeatError, connected, parked, groupVars,
                     bounds>>
  BY <1>1 DEF ReceiveJoin
<1>5. DOMAIN p \subseteq 1 .. nextId
  <2>1. r.id = r.leader => InRoster(r) \subseteq 1 .. nextId
    BY <1>2 DEF GoodNews
  <2>2. DOMAIN RoundRobin(r.roster, Subscribed(m)) = InRoster(r)
    BY DEF RoundRobin, InRoster
  <2> QED
    BY <2>1, <2>2
<1>6. /\ group = "completing" /\ x.gen = generation /\ x.id = leaderId
      => Deals(p, ids, m)
  <2> SUFFICES ASSUME group = "completing", r.gen = generation, r.id = leaderId
               PROVE  Deals(p, ids, m)
    BY <1>3
  <2>1. r.id = r.leader /\ InRoster(r) = ids
    BY <1>2 DEF GoodNews
  <2>2. leaderId \in ids
    BY DEF Typed, GroupTypes
  <2>3. r.roster # <<>>
    BY <2>1, <2>2 DEF InRoster
  <2> QED
    BY <1>2, <2>1, <2>3, RoundRobinDeals DEF InRoster
<1> HIDE DEF x, p
<1>7. /\ LineTakenSent(m, x) /\ \A n \in Members \ {m} : LineKept(n)
      /\ queue' \in [Members -> Seq(Requests)] /\ replies' \in [Members -> Seq(Responses)]
  BY <1>1, <1>3, <1>4, TakenSentLine
<1>8. pc'[m] = "syncing" /\ memberId'[m] = r.id /\ generationId'[m] = r.gen /\ plan'[m] = p
  BY <1>4 DEF Typed, ClientTypes
<1>9. r.id # 0 /\ r.id \in 0 .. nextId /\ r.gen <= generation /\ r.gen \in 0 .. generation
  BY <1>2, KnownIds DEF GoodNews, Typed, GroupTypes
<1>10. /\ Done(m) \in Nat /\ Pending(m) \in Nat /\ Done(m) <= Pending(m)
       /\ Done(m)' \in Nat /\ Pending(m)' \in Nat /\ Done(m)' <= Pending(m)'
  BY <1>7, LineTypes, MovesFrom DEF LineMoves
<1>11. /\ OneRequest(m)'
       /\ \A i \in 1 .. Pending(m)' : At(m, i)'.api = "heartbeat" \/ At(m, i)' = x
  BY <1>1, <1>3, <1>7, <1>8, LineCases, NextRequest DEF LineMoves, Awaits, MemberInv
<1>12. /\ ParkedWait(m)' /\ LearnsTheTruth(m)'
       /\ \A i \in 1 .. Pending(m)' : At(m, i)'.id = 0 \/ Knows(m, At(m, i)'.id)
  BY <1>2, <1>3, <1>4, <1>7, MovesKeep DEF LineMoves, MemberInv, groupVars
<1>13. \A y : Knows(m, y)' => Knows(m, y) \/ y = 0
  <2>1. \A y : Knows(m, y)' => y = memberId'[m] \/ \E i \in 1 .. Pending(m)' : At(m, i)'.id = y
    BY DEF Knows
  <2> QED
    BY <1>2, <1>8, <1>12, <2>1
<1>14. \A S : ~Share(m, S)'
  <2>1. ASSUME NEW i \in 1 .. Done(m)'
        PROVE  At(m, i)'.api # "sync"
    <3>1. i \in 1 .. Pending(m)' /\ i <= Done(m)'
      BY <1>10
    <3>2. PICK j \in 1 .. Pending(m) : At(m, i)' = At(m, j)
      BY <1>7, <3>1, MovesFrom DEF LineMoves
    <3>3. At(m, j).api # "sync"
      BY <1>4 DEF MemberInv, OneRequest
    <3> QED
      BY <3>2, <3>3
  <2>2. ~Owns(m)'
    BY <1>8 DEF Owns
  <2> QED
    BY <2>1, <2>2 DEF Share, Answered
<1>15. SyncsForMembership(m)'
  BY <1>3, <1>8, <1>9, <1>11 DEF SyncsForMembership, Current, Owns
<1>16. HeartbeatsFollow(m)'
  <2>1. Pending(m)' = 2 => At(m, 1)'.api = "heartbeat"
    <3> SUFFICES ASSUME Pending(m)' = 2
                 PROVE  At(m, 1)'.api = "heartbeat"
      OBVIOUS
    <3>1. Pending(m) = 2 /\ At(m, 1)' = At(m, 2) /\ 1 \in 1 .. Pending(m) /\ 2 \in 1 .. Pending(m)
      BY <1>7, <1>10 DEF LineTakenSent
    <3>2. At(m, 2).api = "heartbeat"
      BY <1>1, <3>1, OnlyHeartbeats DEF MemberInv
    <3> QED
      BY <3>1, <3>2
  <2> QED
    BY <1>8, <2>1 DEF HeartbeatsFollow
<1>17. LeaderPlans(m)'
  <2> SUFFICES ASSUME NEW i \in Done(m)' + 1 .. Pending(m)',
                      group = "completing", At(m, i)'.api = "sync",
                      At(m, i)'.gen = generation, At(m, i)'.id = leaderId
               PROVE  Deals(p, ids, m)
    BY <1>4, <1>8 DEF LeaderPlans, Deals, Subscribed, groupVars, bounds
  <2>1. i \in 1 .. Pending(m)'
    BY <1>10
  <2>2. At(m, i)' = x
    BY <1>11, <2>1
  <2> QED
    BY <1>6, <2>2
<1>18. SharesAreDealt(m)' /\ RunsOnOwnTopics(m)'
  BY <1>8, <1>14 DEF SharesAreDealt, RunsOnOwnTopics
<1>19. MemberInv(m)'
  BY <1>11, <1>12, <1>15, <1>16, <1>17, <1>18 DEF MemberInv
<1>20. Typed'
  <2>1. /\ memberId' \in [Members -> 0 .. nextId']
        /\ generationId' \in [Members -> 0 .. generation']
        /\ pc' \in [Members -> Stages]
    BY <1>4, <1>9 DEF Typed, ClientTypes, Stages, groupVars
  <2>2. plan' = [n \in Members |-> plan'[n]] /\ \A n \in Members : DOMAIN plan'[n] \subseteq 1 .. nextId'
    BY <1>4, <1>5 DEF Typed, ClientTypes, groupVars
  <2>3. ClientTypes'
    BY <1>4, <2>1, <2>2 DEF Typed, ClientTypes, bounds
  <2> QED
    BY <1>4, <1>7, <2>3 DEF Typed, LinkTypes, GroupTypes, groupVars
<1>21. \A n \in Members \ {m} : Untouched(n)
  BY <1>4, <1>7 DEF Untouched, Typed, ClientTypes
<1> QED
  BY <1>4, <1>13, <1>14, <1>19, <1>20, <1>21 DEF ClientEffect, bounds

\* syncGroup() returns: m has its partitions.
LEMMA ReceiveSyncStep ==
    ASSUME Typed, NEW m \in Members, MemberInv(m), ReceiveSync(m)
    PROVE  ClientEffect(m)
<1>1. PICK r \in Responses : /\ r = Head(replies[m]) /\ replies[m] # <<>> /\ r = At(m, 1)
                             /\ r.api = "sync" /\ r.result = "ok"
  BY FirstResponse DEF ReceiveSync, Received
<1>2. 1 \in 1 .. Done(m) /\ 1 \in 1 .. Pending(m) /\ r.parts \subseteq Partitions
  BY <1>1, FirstResponse, OkFields
<1> DEFINE x == Request("offsets", memberId[m], generationId[m])
<1>3. x \in Requests /\ x.id = memberId[m] /\ x.api = "offsets"
  BY Fields, KnownIds DEF Apis
<1>4. /\ pc[m] = "syncing" /\ Takes(m)
      /\ assignment' = [assignment EXCEPT ![m] = r.parts]
      /\ UNCHANGED <<memberId, generationId, plan, connected, parked, groupVars, bounds>>
  BY <1>1 DEF ReceiveSync
<1>5. /\ \/ /\ \/ pc' = [pc EXCEPT ![m] = "running"] /\ r.parts \subseteq Subscribed(m)
               \/ pc' = [pc EXCEPT ![m] = "restarting"]
            /\ ticking' = [ticking EXCEPT ![m] = TRUE]
            /\ heartbeatError' = [heartbeatError EXCEPT ![m] = NoError]
            /\ LineTaken(m)
         \/ /\ pc' = [pc EXCEPT ![m] = "fetching"] /\ LineTakenSent(m, x)
            /\ UNCHANGED <<ticking, heartbeatError>>
      /\ \A n \in Members \ {m} : LineKept(n)
      /\ queue' \in [Members -> Seq(Requests)] /\ replies' \in [Members -> Seq(Responses)]
  <2>1. CASE r.parts \cap Subscribed(m) = {}
    <3>1. Joins(m, r.parts) /\ UNCHANGED queue
      BY <1>1, <2>1 DEF ReceiveSync
    <3>2. /\ \/ pc' = [pc EXCEPT ![m] = "running"] /\ r.parts \subseteq Subscribed(m)
             \/ pc' = [pc EXCEPT ![m] = "restarting"]
          /\ ticking' = [ticking EXCEPT ![m] = TRUE]
          /\ heartbeatError' = [heartbeatError EXCEPT ![m] = NoError]
      BY <3>1 DEF Joins, StartHeartbeater
    <3> QED
      BY <1>1, <1>4, <3>1, <3>2, TakenLine DEF Typed, LinkTypes
  <2>2. CASE r.parts \cap Subscribed(m) # {}
    <3>1. /\ Sends(m, x) /\ pc' = [pc EXCEPT ![m] = "fetching"]
          /\ UNCHANGED <<ticking, heartbeatError>>
      BY <1>1, <2>2 DEF ReceiveSync
    <3> HIDE DEF x
    <3> QED
      BY <1>1, <1>3, <1>4, <3>1, TakenSentLine
  <2> QED
    BY <2>1, <2>2
<1> HIDE DEF x
<1>6. /\ LineMoves(m, x) /\ pc'[m] \in {"running", "restarting", "fetching"}
      /\ LineTakenSent(m, x) => pc'[m] = "fetching"
      /\ pc'[m] = "running" => r.parts \subseteq Subscribed(m) /\ heartbeatError'[m] = NoError
      /\ ~LineSent(m, x) /\ ~LineKept(m) /\ assignment'[m] = r.parts
  BY <1>4, <1>5, LineCases DEF LineMoves, Typed, ClientTypes
<1>7. OneRequest(m)'
  BY <1>1, <1>3, <1>6, NextRequest DEF Awaits, MemberInv
<1>8. memberId[m] # 0 /\ Share(m, r.parts)
  BY <1>1, <1>2 DEF MemberInv, SyncsForMembership, Share, Answered
<1>9. HeartbeatsFollow(m)'
  <2>1. ASSUME NEW i \in 1 .. Pending(m)', At(m, i)'.api = "heartbeat"
        PROVE  At(m, i)'.id = memberId[m] /\ At(m, i)'.gen = generationId[m]
    <3>1. PICK j \in 1 .. Pending(m) : At(m, i)' = At(m, j)
      BY <1>3, <1>6, <2>1, MovesFrom
    <3>2. j # 1
      BY <1>1, <2>1, <3>1
    <3>3. Pending(m) = 2 /\ j = 2
      BY <3>2, LineTypes DEF MemberInv, OneRequest
    <3>4. Current(m, At(m, 2))
      BY <1>1, <1>4, <3>3 DEF MemberInv, HeartbeatsFollow
    <3> QED
      BY <3>1, <3>3, <3>4 DEF Current
  <2> QED
    BY <1>4, <1>6, <2>1 DEF HeartbeatsFollow, Current
<1>10. RunsOnOwnTopics(m)'
  BY <1>4, <1>6 DEF RunsOnOwnTopics, Subscribed, bounds
<1>11. /\ MemberInv(m)'
       /\ \A y : Knows(m, y)' => Knows(m, y)
       /\ \A S : Share(m, S)' => Share(m, S)
  BY <1>3, <1>4, <1>6, <1>7, <1>8, <1>9, <1>10, AttachedStep DEF bounds
<1>12. Typed'
  <2>1. /\ assignment' \in [Members -> SUBSET Partitions] /\ pc' \in [Members -> Stages]
        /\ ticking' \in [Members -> BOOLEAN]
    BY <1>2, <1>4, <1>5 DEF Typed, ClientTypes, Stages
  <2>2. heartbeatError' \in [Members -> [kind : Failures \cup {"none"}, id : Nat, gen : Nat]]
    <3>1. NoError \in [kind : Failures \cup {"none"}, id : Nat, gen : Nat]
      BY DEF NoError
    <3>2. \/ heartbeatError' = [heartbeatError EXCEPT ![m] = NoError]
          \/ heartbeatError' = heartbeatError
      BY <1>5
    <3> QED
      BY <3>1, <3>2 DEF Typed, ClientTypes
  <2>3. ClientTypes'
    BY <1>4, <2>1, <2>2 DEF Typed, ClientTypes, groupVars, bounds
  <2> QED
    BY <1>4, <1>5, <2>3 DEF Typed, LinkTypes, GroupTypes, groupVars
<1>13. \A n \in Members \ {m} : Untouched(n)
  BY <1>4, <1>5 DEF Untouched, Typed, ClientTypes
<1> QED
  BY <1>4, <1>11, <1>12, <1>13 DEF ClientEffect, bounds

\* join() returns, and m runs if it has the topics it was given.
LEMMA ReceiveOffsetsStep ==
    ASSUME Typed, NEW m \in Members, MemberInv(m), ReceiveOffsets(m)
    PROVE  ClientEffect(m)
<1>1. replies[m] # <<>> /\ At(m, 1).api = "offsets" /\ 1 \in 1 .. Pending(m)
  BY FirstResponse DEF ReceiveOffsets, Received
<1> DEFINE x == Request("offsets", memberId[m], generationId[m])
<1>2. x \in Requests /\ x.id = memberId[m] /\ x.api = "offsets"
  BY Fields, KnownIds DEF Apis
<1> HIDE DEF x
<1>3. /\ pc[m] = "fetching" /\ Takes(m)
      /\ UNCHANGED <<memberId, generationId, assignment, plan, connected, queue, parked,
                     groupVars, bounds>>
      /\ \/ pc' = [pc EXCEPT ![m] = "running"] /\ assignment[m] \subseteq Subscribed(m)
         \/ pc' = [pc EXCEPT ![m] = "restarting"]
      /\ ticking' = [ticking EXCEPT ![m] = TRUE]
      /\ heartbeatError' = [heartbeatError EXCEPT ![m] = NoError]
  BY DEF ReceiveOffsets, Joins, StartHeartbeater
<1>4. /\ LineTaken(m) /\ \A n \in Members \ {m} : LineKept(n)
      /\ replies' \in [Members -> Seq(Responses)]
  BY <1>1, <1>3, TakenLine
<1>5. /\ LineMoves(m, x) /\ pc'[m] \in {"running", "restarting"}
      /\ pc'[m] = "running" => assignment[m] \subseteq Subscribed(m)
      /\ heartbeatError'[m] = NoError
      /\ ~LineSent(m, x) /\ ~LineKept(m) /\ ~LineTakenSent(m, x)
  BY <1>3, <1>4, LineCases DEF LineMoves, Typed, ClientTypes
<1>6. OneRequest(m)'
  BY <1>1, <1>2, <1>5, NextRequest DEF MemberInv
<1>7. memberId[m] # 0 /\ Share(m, assignment[m])
  BY <1>3 DEF MemberInv, SyncsForMembership, Share, Owns
<1>8. HeartbeatsFollow(m)'
  <2>1. ASSUME NEW i \in 1 .. Pending(m)', At(m, i)'.api = "heartbeat"
        PROVE  At(m, i)'.id = memberId[m] /\ At(m, i)'.gen = generationId[m]
    <3>1. PICK j \in 1 .. Pending(m) : At(m, i)' = At(m, j)
      BY <1>2, <1>5, <2>1, MovesFrom
    <3>2. Current(m, At(m, j))
      BY <1>3, <2>1, <3>1 DEF MemberInv, HeartbeatsFollow
    <3> QED
      BY <3>1, <3>2 DEF Current
  <2> QED
    BY <1>3, <1>5, <2>1 DEF HeartbeatsFollow, Current
<1>9. RunsOnOwnTopics(m)'
  BY <1>3, <1>5 DEF RunsOnOwnTopics, Subscribed, bounds
<1>10. /\ MemberInv(m)'
       /\ \A y : Knows(m, y)' => Knows(m, y)
       /\ \A S : Share(m, S)' => Share(m, S)
  BY <1>2, <1>3, <1>5, <1>6, <1>7, <1>8, <1>9, AttachedStep DEF bounds
<1>11. Typed'
  <2>1. pc' \in [Members -> Stages] /\ ticking' \in [Members -> BOOLEAN]
    BY <1>3 DEF Typed, ClientTypes, Stages
  <2>2. heartbeatError' \in [Members -> [kind : Failures \cup {"none"}, id : Nat, gen : Nat]]
    BY <1>3 DEF Typed, ClientTypes, NoError
  <2>3. ClientTypes'
    BY <1>3, <2>1, <2>2 DEF Typed, ClientTypes, groupVars, bounds
  <2> QED
    BY <1>3, <1>4, <2>3 DEF Typed, LinkTypes, GroupTypes, groupVars
<1>12. \A n \in Members \ {m} : Untouched(n)
  BY <1>3, <1>4 DEF Untouched, Typed, ClientTypes
<1> QED
  BY <1>3, <1>10, <1>11, <1>12 DEF ClientEffect, bounds

\* The interval fires.
LEMMA HeartbeatStep ==
    ASSUME Typed, NEW m \in Members, MemberInv(m), Heartbeat(m)
    PROVE  ClientEffect(m)
<1> DEFINE x == Request("heartbeat", memberId[m], generationId[m])
<1>1. x \in Requests /\ x.id = memberId[m] /\ x.gen = generationId[m] /\ x.api = "heartbeat"
  BY Fields, KnownIds DEF Apis
<1>2. /\ UNCHANGED <<clientVars, parked, replies, groupVars, bounds>>
      /\ Sends(m, x) /\ ~Beating(m)
  BY DEF Heartbeat
<1> HIDE DEF x
<1>3. /\ LineSent(m, x) /\ \A n \in Members \ {m} : LineKept(n)
      /\ queue' \in [Members -> Seq(Requests)]
  BY <1>1, <1>2, SentLine
<1>4. \A i \in 1 .. Pending(m) : At(m, i).api # "heartbeat"
  BY <1>2, BeatingLine
<1>5. Done(m) \in Nat /\ Pending(m) \in Nat /\ Pending(m) <= 1 /\ Done(m) <= Pending(m)
  <2>1. Done(m) \in Nat /\ Pending(m) \in Nat /\ Done(m) <= Pending(m) /\ Pending(m) <= 2
    BY LineTypes DEF MemberInv, OneRequest
  <2>2. Pending(m) = 2 => 1 \in 1 .. Pending(m) /\ 2 \in 1 .. Pending(m)
    OBVIOUS
  <2>3. Pending(m) # 2
    BY <1>4, <2>2, OnlyHeartbeats DEF MemberInv
  <2> QED
    BY <2>1, <2>3
<1>6. PICK k \in Nat :
         /\ k = Pending(m) /\ k <= 1 /\ Done(m)' = Done(m) /\ Pending(m)' = k + 1
         /\ At(m, k + 1)' = x
         /\ \A i \in 1 .. k : At(m, i)' = At(m, i)
         /\ \A i \in 1 .. Pending(m)' : i \in 1 .. k \/ At(m, i)' = x
  <2>1. PICK k \in Nat : k = Pending(m)
    BY <1>5
  <2>2. /\ Done(m)' = Done(m) /\ Pending(m)' = k + 1
        /\ \A i \in 1 .. k + 1 : At(m, i)' = IF i = k + 1 THEN x ELSE At(m, i)
    BY <1>3, <2>1 DEF LineSent
  <2> QED
    BY <1>5, <2>1, <2>2
<1>7. OneRequest(m)'
  <2>1. Pending(m)' <= 2
    BY <1>5, <1>6
  <2>2. Pending(m)' = 2 => At(m, 1)'.api # At(m, 2)'.api
    <3> SUFFICES ASSUME Pending(m)' = 2
                 PROVE  At(m, 1)'.api # At(m, 2)'.api
      OBVIOUS
    <3>1. Pending(m) = 1 /\ 1 \in 1 .. Pending(m) /\ 2 \in 1 .. Pending(m)'
      BY <1>5, <1>6
    <3>2. At(m, 1)' = At(m, 1) /\ At(m, 2)' = x
      BY <1>6, <3>1
    <3> QED
      BY <1>1, <1>4, <3>1, <3>2
  <2>3. \A i \in 1 .. Done(m)' : i \in 1 .. Pending(m) /\ i \in 1 .. Done(m)
    BY <1>5, <1>6
  <2>4. pc'[m] = pc[m]
    BY <1>2 DEF clientVars
  <2>5. ASSUME NEW i \in 1 .. Pending(m)'
        PROVE  /\ Awaits(At(m, i)'.api, pc[m])
               /\ i \in 1 .. Done(m)' /\ At(m, i)'.result = "idRequired" => At(m, i)'.api = "join"
    BY <1>1, <1>6, <2>3 DEF MemberInv, OneRequest, Awaits
  <2> QED
    BY <2>1, <2>2, <2>4, <2>5 DEF OneRequest, Awaits
<1>8. HeartbeatsFollow(m)'
  <2>1. \A i \in 1 .. Pending(m)' :
           At(m, i)'.api = "heartbeat" => At(m, i)' = x
    BY <1>4, <1>6
  <2>2. Pending(m)' = 2 => At(m, 2)' = x
    <3>1. Pending(m)' = 2 => k + 1 = 2
      BY <1>6
    <3> QED
      BY <1>6, <3>1
  <2> QED
    BY <1>1, <1>2, <2>1, <2>2 DEF MemberInv, HeartbeatsFollow, Current, clientVars
<1>9. RunsOnOwnTopics(m)' /\ (Owns(m)' => Owns(m))
  BY <1>2 DEF MemberInv, RunsOnOwnTopics, Subscribed, Owns, clientVars, bounds
<1>10. Owns(m) => memberId[m] # 0 /\ Share(m, assignment[m])
  BY DEF MemberInv, SyncsForMembership, Share
<1>11. /\ MemberInv(m)'
       /\ \A y : Knows(m, y)' => Knows(m, y)
       /\ \A S : Share(m, S)' => Share(m, S)
  BY <1>1, <1>2, <1>3, <1>7, <1>8, <1>9, <1>10, AttachedStep DEF LineMoves, clientVars,
     bounds
<1>12. Typed'
  <2>1. ClientTypes'
    BY <1>2 DEF Typed, ClientTypes, clientVars, groupVars, bounds
  <2> QED
    BY <1>2, <1>3, <2>1 DEF Typed, LinkTypes, GroupTypes, groupVars
<1>13. \A n \in Members \ {m} : Untouched(n)
  BY <1>2, <1>3 DEF Untouched, clientVars
<1> QED
  BY <1>2, <1>11, <1>12, <1>13 DEF ClientEffect, clientVars, bounds

\* The answer to a heartbeat is kept until the loop looks at it.
LEMMA ReceiveHeartbeatStep ==
    ASSUME Typed, NEW m \in Members, MemberInv(m), ReceiveHeartbeat(m)
    PROVE  ClientEffect(m)
<1>1. PICK r \in Responses : /\ r = Head(replies[m]) /\ replies[m] # <<>> /\ r = At(m, 1)
                             /\ r.api = "heartbeat"
                             /\ 1 \in 1 .. Done(m) /\ 1 \in 1 .. Pending(m)
  BY FirstResponse DEF ReceiveHeartbeat, Received
<1>2. r.id \in Nat /\ r.gen \in Nat /\ r.result \in Failures \cup {"ok"}
  BY <1>1, Fields DEF MemberInv, OneRequest
<1> DEFINE x == Request("heartbeat", memberId[m], generationId[m])
<1>3. x \in Requests /\ x.id = memberId[m] /\ x.api = "heartbeat"
  BY Fields, KnownIds DEF Apis
<1> HIDE DEF x
<1>4. PICK e : /\ heartbeatError' = [heartbeatError EXCEPT ![m] = e]
               /\ \/ e = heartbeatError[m]
                  \/ e = [kind |-> r.result, id |-> r.id, gen |-> r.gen] /\ r.result # "ok"
  BY <1>1 DEF ReceiveHeartbeat
<1>5. /\ Takes(m) /\ queue' = queue
      /\ UNCHANGED <<pc, memberId, generationId, assignment, ticking, plan, connected, parked,
                     groupVars, bounds>>
  BY DEF ReceiveHeartbeat
<1>6. /\ LineTaken(m) /\ \A n \in Members \ {m} : LineKept(n)
      /\ replies' \in [Members -> Seq(Responses)]
  BY <1>1, <1>5, TakenLine
<1>7. heartbeatError'[m] = e
  BY <1>4 DEF Typed, ClientTypes
<1>8. \A i \in 1 .. Pending(m)' :
         \E j \in 1 .. Pending(m) : At(m, i)' = At(m, j) /\ (i <= Done(m)' <=> j <= Done(m))
  <2>1. /\ Done(m) \in Nat /\ Pending(m) \in Nat
        /\ Done(m)' = Done(m) - 1 /\ Pending(m)' = Pending(m) - 1
        /\ \A i \in 1 .. Pending(m) - 1 : At(m, i)' = At(m, i + 1)
    BY <1>6, LineTypes DEF LineTaken
  <2>2. \A i \in 1 .. Pending(m)' :
           /\ i + 1 \in 1 .. Pending(m) /\ (i <= Done(m)' <=> i + 1 <= Done(m))
           /\ At(m, i)' = At(m, i + 1)
    BY <2>1
  <2> QED
    BY <2>2
<1>9. /\ Pending(m)' <= 1 /\ Pending(m)' \in Nat
      /\ Done(m) \in Nat /\ Done(m)' \in Nat /\ Done(m)' <= Pending(m)'
  BY <1>6, LineTypes DEF LineTaken, MemberInv, OneRequest
<1>10. OneRequest(m)'
  <2>1. ASSUME NEW i \in 1 .. Pending(m)'
        PROVE  /\ Awaits(At(m, i)'.api, pc[m])
               /\ i \in 1 .. Done(m)' /\ At(m, i)'.result = "idRequired" => At(m, i)'.api = "join"
    <3>1. PICK j \in 1 .. Pending(m) : At(m, i)' = At(m, j) /\ (i <= Done(m)' <=> j <= Done(m))
      BY <1>8
    <3>2. i \in 1 .. Done(m)' => j \in 1 .. Done(m)
      BY <1>9, <3>1
    <3> QED
      BY <3>1, <3>2 DEF MemberInv, OneRequest, Awaits
  <2>2. Pending(m)' # 2 /\ Pending(m)' <= 2
    BY <1>9
  <2> QED
    BY <1>5, <2>1, <2>2 DEF OneRequest, Awaits
<1>11. HeartbeatsFollow(m)'
  <2>1. ASSUME NEW i \in 1 .. Pending(m)', pc[m] \in {"fetching", "running"},
               At(m, i)'.api = "heartbeat"
        PROVE  At(m, i)'.id = memberId[m] /\ At(m, i)'.gen = generationId[m]
    <3>1. PICK j \in 1 .. Pending(m) : At(m, i)' = At(m, j)
      BY <1>8
    <3>2. Current(m, At(m, j))
      BY <2>1, <3>1 DEF MemberInv, HeartbeatsFollow
    <3> QED
      BY <3>1, <3>2 DEF Current
  <2>2. ~(Pending(m)' = 2)
    BY <1>9
  <2>3. pc[m] = "running" /\ e # NoError => e.id = memberId[m] /\ e.gen = generationId[m]
    <3>1. CASE e = heartbeatError[m]
      BY <3>1 DEF MemberInv, HeartbeatsFollow, Current
    <3>2. CASE e = [kind |-> r.result, id |-> r.id, gen |-> r.gen]
      <4>1. pc[m] = "running" => Current(m, At(m, 1))
        BY <1>1 DEF MemberInv, HeartbeatsFollow
      <4> QED
        BY <1>1, <3>2, <4>1 DEF Current
    <3> QED
      BY <1>4, <3>1, <3>2
  <2> QED
    BY <1>5, <1>7, <2>1, <2>2, <2>3 DEF HeartbeatsFollow, Current
<1>12. RunsOnOwnTopics(m)' /\ (Owns(m)' => Owns(m))
  BY <1>5 DEF MemberInv, RunsOnOwnTopics, Subscribed, Owns, bounds
<1>13. Owns(m) => memberId[m] # 0 /\ Share(m, assignment[m])
  BY DEF MemberInv, SyncsForMembership, Share
<1>14. /\ MemberInv(m)'
       /\ \A y : Knows(m, y)' => Knows(m, y)
       /\ \A S : Share(m, S)' => Share(m, S)
  BY <1>3, <1>5, <1>6, <1>10, <1>11, <1>12, <1>13, AttachedStep DEF LineMoves, bounds
<1>15. Typed'
  <2>1. e \in [kind : Failures \cup {"none"}, id : Nat, gen : Nat]
    BY <1>2, <1>4 DEF Typed, ClientTypes
  <2>2. ClientTypes'
    BY <1>4, <1>5, <2>1 DEF Typed, ClientTypes, groupVars, bounds
  <2> QED
    BY <1>5, <1>6, <2>2 DEF Typed, LinkTypes, GroupTypes, groupVars
<1>16. \A n \in Members \ {m} : Untouched(n)
  BY <1>4, <1>5, <1>6 DEF Untouched, Typed, ClientTypes
<1> QED
  BY <1>5, <1>14, <1>15, <1>16 DEF ClientEffect, bounds

\* A member that did not step is as it was.
LEMMA UntouchedKeeps ==
    ASSUME Typed, NEW n \in Members, MemberInv(n), Untouched(n),
           UNCHANGED groupVars, UNCHANGED scenario
    PROVE  /\ MemberInv(n)'
           /\ \A y : Knows(n, y)' => Knows(n, y)
           /\ \A S : Share(n, S)' => Share(n, S)
<1>1. /\ Done(n)' = Done(n) /\ Pending(n)' = Pending(n)
      /\ \A i \in 1 .. Pending(n) : At(n, i)' = At(n, i)
      /\ Done(n) \in Nat /\ Pending(n) \in Nat /\ Done(n) <= Pending(n)
  BY LineTypes DEF Untouched, LineKept
<1>2. /\ (n \in parked' <=> n \in parked)
      /\ pc'[n] = pc[n] /\ memberId'[n] = memberId[n] /\ generationId'[n] = generationId[n]
      /\ assignment'[n] = assignment[n] /\ heartbeatError'[n] = heartbeatError[n]
      /\ plan'[n] = plan[n]
  BY DEF Untouched
<1>3. \A S : Share(n, S)' => Share(n, S)
  <2>1. Owns(n)' <=> Owns(n)
    BY <1>2 DEF Owns
  <2>2. \A i \in 1 .. Done(n) : At(n, i)' = At(n, i)
    BY <1>1
  <2>3. ASSUME NEW S, Share(n, S)'
        PROVE  Share(n, S)
    <3>1. CASE Owns(n)' /\ S = assignment'[n]
      BY <1>2, <2>1, <3>1 DEF Share
    <3>2. CASE \E i \in 1 .. Done(n)' : Answered(n, i, "sync", "ok")' /\ S = At(n, i)'.parts
      <4>1. PICK i \in 1 .. Done(n) : Answered(n, i, "sync", "ok")' /\ S = At(n, i)'.parts
        BY <1>1, <3>2
      <4>2. Answered(n, i, "sync", "ok") /\ S = At(n, i).parts
        BY <1>1, <2>2, <4>1 DEF Answered
      <4> QED
        BY <4>2 DEF Share
    <3> QED
      BY <2>3, <3>1, <3>2 DEF Share
  <2> QED
    BY <2>3
<1>4. \A y : Knows(n, y)' => Knows(n, y)
  BY <1>1, <1>2 DEF Knows
<1>5. OneRequest(n)'
  <2>1. Pending(n)' = 2 => At(n, 1)' = At(n, 1) /\ At(n, 2)' = At(n, 2)
    BY <1>1
  <2> QED
    BY <1>1, <1>2, <2>1 DEF MemberInv, OneRequest
<1>6. SyncsForMembership(n)'
  BY <1>1, <1>2 DEF MemberInv, SyncsForMembership, Current, Owns
<1>7. HeartbeatsFollow(n)'
  <2>1. Pending(n)' = 2 => At(n, 1)' = At(n, 1) /\ At(n, 2)' = At(n, 2)
    BY <1>1
  <2> QED
    BY <1>1, <1>2, <2>1 DEF MemberInv, HeartbeatsFollow, Current
<1>8. ParkedWait(n)'
  <2> SUFFICES ASSUME n \in parked
               PROVE  /\ Done(n)' < Pending(n)'
                      /\ At(n, Done(n) + 1)' = At(n, Done(n) + 1)
    BY <1>2 DEF MemberInv, ParkedWait, groupVars
  <2>1. Done(n) < Pending(n)
    BY DEF MemberInv, ParkedWait
  <2> QED
    BY <1>1, <2>1
<1>9. LearnsTheTruth(n)'
  <2>1. \A i \in 1 .. Done(n) : At(n, i)' = At(n, i) /\ i \in 1 .. Pending(n)
    BY <1>1
  <2>2. ASSUME NEW i \in 1 .. Done(n), Answered(n, i, "join", "ok")'
        PROVE  GoodNews(At(n, i))'
    <3>1. Answered(n, i, "join", "ok")
      BY <2>1, <2>2 DEF Answered
    <3>2. PICK r : r = At(n, i)
      OBVIOUS
    <3>3. GoodNews(r)
      BY <3>1, <3>2 DEF MemberInv, LearnsTheTruth
    <3>4. GoodNews(r)'
      BY <3>3 DEF GoodNews, groupVars
    <3> QED
      BY <2>1, <3>2, <3>4 DEF GoodNews
  <2> QED
    BY <1>1, <2>2 DEF MemberInv, LearnsTheTruth, groupVars
<1>10. LeaderPlans(n)'
  <2>1. \A i \in Done(n) + 1 .. Pending(n) : At(n, i)' = At(n, i)
    BY <1>1
  <2> QED
    BY <1>1, <1>2, <2>1 DEF MemberInv, LeaderPlans, Deals, Subscribed, groupVars
<1>11. SharesAreDealt(n)'
  <2>1. \A S : Share(n, S) =>
            /\ S \subseteq Partitions
            /\ group = "completing" => generationId[n] # generation
            /\ group = "stable" /\ generationId[n] = generation =>
                  memberId[n] \in ids /\ S = target[memberId[n]]
    BY DEF MemberInv, SharesAreDealt
  <2> QED
    BY <1>2, <1>3, <2>1 DEF SharesAreDealt, groupVars
<1>12. RunsOnOwnTopics(n)'
  BY <1>2 DEF MemberInv, RunsOnOwnTopics, Subscribed
<1> QED
  BY <1>3, <1>4, <1>5, <1>6, <1>7, <1>8, <1>9, <1>10, <1>11, <1>12 DEF MemberInv

\* A step of a member keeps the invariant.
LEMMA ClientStep ==
    ASSUME GroupInv, NEW m \in Members, ClientEffect(m)
    PROVE  GroupInv'
<1>1. Typed /\ Typed'
  BY DEF GroupInv, ClientEffect
<1>2. \A n \in Members :
         /\ MemberInv(n)'
         /\ \A y : Knows(n, y)' => Knows(n, y) \/ y = 0
         /\ \A S : Share(n, S)' => Share(n, S) /\ generationId'[n] = generationId[n]
  <2> SUFFICES ASSUME NEW n \in Members
               PROVE  /\ MemberInv(n)'
                      /\ \A y : Knows(n, y)' => Knows(n, y) \/ y = 0
                      /\ \A S : Share(n, S)' => Share(n, S) /\ generationId'[n] = generationId[n]
    OBVIOUS
  <2>1. CASE n = m
    BY <2>1 DEF ClientEffect
  <2>2. CASE n # m
    <3>1. Untouched(n) /\ UNCHANGED groupVars /\ UNCHANGED scenario
      BY <2>2 DEF ClientEffect
    <3>2. MemberInv(n)
      BY DEF GroupInv
    <3>3. generationId'[n] = generationId[n]
      BY <3>1 DEF Untouched
    <3> QED
      BY <1>1, <3>1, <3>2, <3>3, UntouchedKeeps
  <2> QED
    BY <2>1, <2>2
<1>3. TargetDealt'
  <2>1. UNCHANGED <<group, target, ids, leaderId, scenario>>
    BY DEF ClientEffect, groupVars
  <2>2. PICK x : x = leaderId
    OBVIOUS
  <2> SUFFICES ASSUME group = "stable"
               PROVE  \E l \in Members : /\ Deals(target, ids, l)
                                         /\ \A n \in Members : Knows(n, x)' => n = l
    BY <2>1, <2>2 DEF TargetDealt, Deals, Subscribed, Knows
  <2>3. x # 0
    BY <1>1, <2>2 DEF Typed, GroupTypes
  <2>4. PICK l \in Members : /\ Deals(target, ids, l)
                             /\ \A n \in Members : Knows(n, x) => n = l
    BY <2>2 DEF GroupInv, TargetDealt
  <2>5. \A n \in Members : Knows(n, x)' => Knows(n, x)
    BY <1>2, <2>3
  <2> QED
    BY <2>4, <2>5
<1>4. ASSUME NEW k \in Members, NEW n \in Members, k # n
      PROVE  Apart(k, n)'
  <2>1. Apart(k, n)
    BY <1>4 DEF GroupInv
  <2> QED
    BY <1>2, <2>1 DEF Apart
<1> QED
  BY <1>1, <1>2, <1>3, <1>4 DEF GroupInv

-----------------------------------------------------------------------------
(* Steps of the coordinator.                                               *)

\* The coordinator leaves n alone, or answers its first request with b.
Served(n, b) ==
    \/ LineKept(n)
    \/ /\ LineAnswered(n, b) /\ b.api = At(n, Done(n) + 1).api
       /\ b.api # "join" => b.id = At(n, Done(n) + 1).id /\ b.gen = At(n, Done(n) + 1).gen
       /\ b.result = "idRequired" => b.api = "join"
       /\ b.id <= nextId'
       /\ b.api = "join" /\ b.result = "ok" => GoodNews(b)'

\* Nothing that a member was told of the generation that waits for its
\* assignment has changed.
NewsStay ==
    /\ generation <= generation' /\ nextId <= nextId'
    /\ \/ group' # "completing"
       \/ UNCHANGED <<group, generation, ids, leaderId, target>>
       \/ generation < generation'

\* The group waits for its members again, begins a new generation, or is as it was.
Regroups ==
    /\ generation <= generation' /\ nextId <= nextId'
    /\ \/ group' \notin {"completing", "stable"}
       \/ UNCHANGED <<group, generation, ids, leaderId, target>>
       \/ group' = "completing" /\ generation < generation'

\* What is on the line of n after such a step.
LEMMA ServedFrom ==
    ASSUME Typed, NEW n \in Members, NEW b, Served(n, b)
    PROVE  /\ Done(n) \in Nat /\ Pending(n) \in Nat /\ Done(n) <= Pending(n)
           /\ Pending(n)' = Pending(n)
           /\ Done(n)' \in Nat /\ Done(n) <= Done(n)' /\ Done(n)' <= Pending(n)
           /\ \A i \in 1 .. Pending(n) :
                 /\ At(n, i)'.api = At(n, i).api
                 /\ At(n, i).api # "join" =>
                       At(n, i)'.id = At(n, i).id /\ At(n, i)'.gen = At(n, i).gen
                 /\ i <= Done(n) \/ ~(i <= Done(n)') => At(n, i)' = At(n, i)
                 /\ \/ At(n, i)' = At(n, i)
                    \/ At(n, i)' = b /\ LineAnswered(n, b) /\ i = Done(n) + 1
<1>1. /\ Done(n) \in Nat /\ Pending(n) \in Nat /\ Done(n) <= Pending(n)
  BY LineTypes
<1>2. CASE LineKept(n)
  BY <1>1, <1>2 DEF LineKept
<1>3. CASE ~LineKept(n)
  <2>1. PICK k \in Nat : k = Done(n) + 1
    BY <1>1
  <2>2. /\ LineAnswered(n, b) /\ b.api = At(n, k).api
        /\ b.api # "join" => b.id = At(n, k).id /\ b.gen = At(n, k).gen
    BY <1>3, <2>1 DEF Served
  <2>3. /\ Done(n) < Pending(n) /\ Done(n)' = k /\ Pending(n)' = Pending(n)
        /\ \A i \in 1 .. Pending(n) : At(n, i)' = IF i = k THEN b ELSE At(n, i)
    BY <2>1, <2>2 DEF LineAnswered
  <2>4. ASSUME NEW i \in 1 .. Pending(n)
        PROVE  /\ At(n, i)'.api = At(n, i).api
               /\ At(n, i).api # "join" =>
                     At(n, i)'.id = At(n, i).id /\ At(n, i)'.gen = At(n, i).gen
               /\ i <= Done(n) \/ ~(i <= Done(n)') => At(n, i)' = At(n, i)
               /\ \/ At(n, i)' = At(n, i)
                  \/ At(n, i)' = b /\ LineAnswered(n, b) /\ i = Done(n) + 1
    <3>1. CASE i = k
      <4>1. At(n, i)' = b /\ ~(i <= Done(n)) /\ i <= Done(n)'
        BY <1>1, <2>1, <2>3, <3>1
      <4> QED
        BY <2>1, <2>2, <3>1, <4>1
    <3>2. CASE i # k
      BY <2>3, <3>2
    <3> QED
      BY <3>1, <3>2
  <2> QED
    BY <1>1, <2>1, <2>3, <2>4
<1> QED
  BY <1>2, <1>3

\* Good news stay good.
LEMMA OldNews ==
    ASSUME Typed, Typed', NewsStay, NEW r, r.gen \in Nat, GoodNews(r)
    PROVE  GoodNews(r)'
<1>1. generation \in Nat /\ generation' \in Nat /\ nextId \in Nat /\ nextId' \in Nat
  BY DEF Typed, GroupTypes
<1>2. r.id # 0 /\ r.gen <= generation'
  BY <1>1 DEF GoodNews, NewsStay
<1>3. r.id = r.leader => InRoster(r) \subseteq 1 .. nextId'
  <2>1. 1 .. nextId \subseteq 1 .. nextId'
    BY <1>1 DEF NewsStay
  <2> QED
    BY <2>1 DEF GoodNews
<1>4. group' = "completing" /\ r.gen = generation' /\ r.id = leaderId' =>
          r.id = r.leader /\ InRoster(r) = ids'
  <2>1. CASE UNCHANGED <<group, generation, ids, leaderId, target>>
    BY <2>1 DEF GoodNews
  <2>2. CASE generation < generation'
    BY <1>1, <2>2 DEF GoodNews
  <2> QED
    BY <2>1, <2>2 DEF NewsStay
<1> QED
  BY <1>2, <1>3, <1>4 DEF GoodNews, InRoster

\* The coordinator's answers keep what a member relies on.
LEMMA ServedKeeps ==
    ASSUME Typed, Typed', NEW n \in Members, MemberInv(n), NEW b, Served(n, b),
           UNCHANGED clientVars, UNCHANGED scenario, NewsStay
    PROVE  /\ OneRequest(n)' /\ SyncsForMembership(n)' /\ HeartbeatsFollow(n)'
           /\ RunsOnOwnTopics(n)' /\ LearnsTheTruth(n)'
<1>1. /\ Done(n) \in Nat /\ Pending(n) \in Nat /\ Done(n) <= Pending(n)
      /\ Pending(n)' = Pending(n)
      /\ Done(n)' \in Nat /\ Done(n) <= Done(n)' /\ Done(n)' <= Pending(n)
  BY ServedFrom
<1>2. \A i \in 1 .. Pending(n) :
         /\ At(n, i)'.api = At(n, i).api
         /\ At(n, i).api # "join" =>
               At(n, i)'.id = At(n, i).id /\ At(n, i)'.gen = At(n, i).gen
         /\ i <= Done(n) \/ ~(i <= Done(n)') => At(n, i)' = At(n, i)
         /\ \/ At(n, i)' = At(n, i)
            \/ At(n, i)' = b /\ LineAnswered(n, b) /\ i = Done(n) + 1
  BY ServedFrom
<1>3. /\ pc'[n] = pc[n] /\ memberId'[n] = memberId[n] /\ generationId'[n] = generationId[n]
      /\ assignment'[n] = assignment[n] /\ heartbeatError'[n] = heartbeatError[n]
  BY DEF clientVars
<1>4. Pending(n) = 2 => 1 \in 1 .. Pending(n) /\ 2 \in 1 .. Pending(n)
  OBVIOUS
<1>5. ASSUME NEW i \in 1 .. Done(n)'
      PROVE  \/ i \in 1 .. Done(n) /\ At(n, i)' = At(n, i)
             \/ At(n, i)' = b /\ Served(n, b) /\ LineAnswered(n, b) /\ ~LineKept(n)
  <2>1. i \in 1 .. Pending(n)
    BY <1>1
  <2>2. CASE i <= Done(n)
    BY <1>1, <1>2, <2>1, <2>2
  <2>3. CASE ~(i <= Done(n))
    <3>1. Done(n)' # Done(n)
      BY <1>1, <2>3
    <3>2. ~LineKept(n) /\ LineAnswered(n, b)
      BY <3>1 DEF LineKept, Served
    <3>3. Done(n)' = Done(n) + 1
      BY <3>2 DEF LineAnswered
    <3>4. i = Done(n) + 1
      BY <1>1, <2>3, <3>3
    <3>5. At(n, i)' = b
      BY <2>1, <3>2, <3>4 DEF LineAnswered
    <3> QED
      BY <3>2, <3>5
  <2> QED
    BY <2>2, <2>3
<1>6. OneRequest(n)'
  <2>1. \A i \in 1 .. Done(n)' : At(n, i)'.result = "idRequired" => At(n, i)'.api = "join"
    <3>1. \A i \in 1 .. Done(n) : At(n, i).result = "idRequired" => At(n, i).api = "join"
      BY <1>1 DEF MemberInv, OneRequest
    <3> QED
      BY <1>5, <3>1 DEF Served
  <2>2. Pending(n)' = 2 => At(n, 1)'.api # At(n, 2)'.api
    BY <1>1, <1>2, <1>4 DEF MemberInv, OneRequest
  <2> QED
    BY <1>1, <1>2, <1>3, <2>1, <2>2 DEF MemberInv, OneRequest
<1>7. SyncsForMembership(n)'
  BY <1>1, <1>2, <1>3 DEF MemberInv, SyncsForMembership, Current, Owns
<1>8. HeartbeatsFollow(n)'
  <2>1. ASSUME NEW i \in 1 .. Pending(n)', pc[n] \in {"fetching", "running"},
               At(n, i)'.api = "heartbeat"
        PROVE  At(n, i)'.id = memberId[n] /\ At(n, i)'.gen = generationId[n]
    BY <1>1, <1>2, <2>1 DEF MemberInv, HeartbeatsFollow, Current
  <2>2. ASSUME pc[n] = "syncing", Pending(n)' = 2, At(n, 1)'.api = "sync"
        PROVE  At(n, 2)'.id = memberId[n] /\ At(n, 2)'.gen = generationId[n]
    <3>1. Pending(n) = 2 /\ At(n, 1).api = "sync"
      BY <1>1, <1>2, <1>4, <2>2
    <3>2. At(n, 2).id = memberId[n] /\ At(n, 2).gen = generationId[n]
      BY <2>2, <3>1 DEF MemberInv, HeartbeatsFollow, Current
    <3>3. At(n, 2).api # "join"
      BY <1>4, <2>2, <3>1 DEF MemberInv, OneRequest
    <3> QED
      BY <1>2, <1>4, <3>1, <3>2, <3>3
  <2> QED
    BY <1>1, <1>3, <2>1, <2>2 DEF MemberInv, HeartbeatsFollow, Current
<1>9. RunsOnOwnTopics(n)'
  BY <1>3 DEF MemberInv, RunsOnOwnTopics, Subscribed
<1>10. LearnsTheTruth(n)'
  <2>1. \A i \in 1 .. Pending(n)' : At(n, i)'.id <= nextId'
    <3>1. nextId \in Nat /\ nextId' \in Nat /\ nextId <= nextId'
      BY DEF Typed, GroupTypes, NewsStay
    <3>2. ASSUME NEW i \in 1 .. Pending(n)
          PROVE  At(n, i)'.id <= nextId'
      <4>1. CASE At(n, i)' = At(n, i)
        <5>1. At(n, i).id \in Nat
          BY <1>1, LineTypes, Fields
        <5>2. At(n, i).id <= nextId
          BY DEF MemberInv, LearnsTheTruth
        <5> QED
          BY <3>1, <4>1, <5>1, <5>2
      <4>2. CASE At(n, i)' # At(n, i)
        <5>1. At(n, i)' = b /\ ~LineKept(n)
          BY <1>2, <4>2 DEF LineKept
        <5> QED
          BY <5>1 DEF Served
      <4> QED
        BY <4>1, <4>2
    <3> QED
      BY <1>1, <3>2
  <2>2. ASSUME NEW i \in 1 .. Done(n)', Answered(n, i, "join", "ok")'
        PROVE  GoodNews(At(n, i))'
    <3>1. PICK r : r = At(n, i)'
      OBVIOUS
    <3>2. r.api = "join" /\ r.result = "ok"
      BY <2>2, <3>1 DEF Answered
    <3>3. GoodNews(r)'
      <4>1. CASE i \in 1 .. Done(n) /\ At(n, i)' = At(n, i)
        <5>1. r \in Responses
          BY <3>1, <4>1, LineTypes
        <5>2. Answered(n, i, "join", "ok")
          BY <3>1, <3>2, <4>1 DEF Answered
        <5>3. GoodNews(At(n, i))
          BY <4>1, <5>2 DEF MemberInv, LearnsTheTruth
        <5>4. GoodNews(r)
          BY <3>1, <4>1, <5>3
        <5> QED
          BY <5>1, <5>4, OldNews, Fields
      <4>2. CASE At(n, i)' = b /\ Served(n, b) /\ LineAnswered(n, b) /\ ~LineKept(n)
        BY <3>1, <3>2, <4>2 DEF Served
      <4> QED
        BY <1>5, <4>1, <4>2
    <3> QED
      BY <3>1, <3>3 DEF GoodNews
  <2> QED
    BY <1>1, <2>1, <2>2 DEF LearnsTheTruth
<1> QED
  BY <1>6, <1>7, <1>8, <1>9, <1>10

\* Only a response to SyncGroup adds to what a member has a share of.
LEMMA ServedShares ==
    ASSUME Typed, NEW n \in Members, NEW b, Served(n, b), UNCHANGED clientVars
    PROVE  \A S : Share(n, S)' =>
              \/ Share(n, S)
              \/ /\ LineAnswered(n, b) /\ b.api = "sync" /\ b.result = "ok" /\ S = b.parts
<1> SUFFICES ASSUME NEW S, Share(n, S)'
             PROVE  \/ Share(n, S)
                    \/ /\ LineAnswered(n, b) /\ b.api = "sync" /\ b.result = "ok" /\ S = b.parts
  OBVIOUS
<1>1. CASE Owns(n)' /\ S = assignment'[n]
  BY <1>1 DEF Share, Owns, clientVars
<1>2. CASE \E i \in 1 .. Done(n)' : Answered(n, i, "sync", "ok")' /\ S = At(n, i)'.parts
  <2>1. PICK i \in 1 .. Done(n)' : Answered(n, i, "sync", "ok")' /\ S = At(n, i)'.parts
    BY <1>2
  <2>2. i \in 1 .. Pending(n) /\ Done(n) \in Nat
    BY ServedFrom
  <2>3. CASE i <= Done(n)
    <3>1. i \in 1 .. Done(n) /\ At(n, i)' = At(n, i)
      BY <2>2, <2>3, ServedFrom
    <3>2. Answered(n, i, "sync", "ok") /\ S = At(n, i).parts
      BY <2>1, <3>1 DEF Answered
    <3> QED
      BY <3>1, <3>2 DEF Share
  <2>4. CASE ~(i <= Done(n))
    <3>1. Done(n)' \in Nat /\ Done(n) <= Done(n)' /\ Done(n)' # Done(n)
      BY <2>2, <2>4, ServedFrom
    <3>2. LineAnswered(n, b)
      BY <3>1 DEF Served, LineKept
    <3>3. i = Done(n) + 1
      BY <2>2, <2>4, <3>2 DEF LineAnswered
    <3>4. At(n, i)' = b
      BY <2>2, <3>2, <3>3 DEF LineAnswered
    <3> QED
      BY <2>1, <3>2, <3>4 DEF Answered
  <2> QED
    BY <2>3, <2>4
<1> QED
  BY <1>1, <1>2 DEF Share

\* An answer tells of no other id than its own.
LEMMA ServedKnows ==
    ASSUME Typed, NEW n \in Members, NEW b, Served(n, b), UNCHANGED memberId
    PROVE  \A y : Knows(n, y)' => Knows(n, y) \/ (LineAnswered(n, b) /\ y = b.id)
<1>1. Pending(n)' = Pending(n)
  BY ServedFrom
<1>2. \A i \in 1 .. Pending(n) : \/ At(n, i)' = At(n, i)
                                 \/ At(n, i)' = b /\ LineAnswered(n, b)
  BY ServedFrom
<1> QED
  BY <1>1, <1>2 DEF Knows

\* Plans and shares are not affected by a group that forms anew.
LEMMA RegroupKeeps ==
    ASSUME Typed, Typed', NEW n \in Members, MemberInv(n), NEW b, Served(n, b),
           UNCHANGED clientVars, UNCHANGED scenario, Regroups,
           \A S : Share(n, S)' => Share(n, S)
    PROVE  LeaderPlans(n)' /\ SharesAreDealt(n)'
<1>1. /\ generationId[n] \in Nat /\ generationId[n] <= generation
      /\ generation \in Nat /\ generation' \in Nat
  BY KnownIds DEF Typed, GroupTypes
<1>2. /\ memberId'[n] = memberId[n] /\ generationId'[n] = generationId[n] /\ plan' = plan
  BY DEF clientVars
<1>3. LeaderPlans(n)'
  <2> SUFFICES ASSUME NEW i \in Done(n)' + 1 .. Pending(n)',
                      group' = "completing", At(n, i)'.api = "sync",
                      At(n, i)'.gen = generation', At(n, i)'.id = leaderId'
               PROVE  Deals(plan[n], ids', n)
    BY <1>2 DEF LeaderPlans, Deals, Subscribed
  <2>1. /\ i \in 1 .. Pending(n) /\ i \in Done(n) + 1 .. Pending(n) /\ At(n, i)' = At(n, i)
    <3>1. /\ Done(n) \in Nat /\ Pending(n) \in Nat /\ Pending(n)' = Pending(n)
          /\ Done(n)' \in Nat /\ Done(n) <= Done(n)'
      BY ServedFrom
    <3>2. i \in 1 .. Pending(n) /\ i \in Done(n) + 1 .. Pending(n) /\ ~(i <= Done(n)')
      BY <3>1
    <3> QED
      BY <3>2, ServedFrom
  <2>2. At(n, i).gen = generationId[n]
    BY <2>1 DEF MemberInv, SyncsForMembership, Current
  <2>3. UNCHANGED <<group, generation, ids, leaderId, target>>
    BY <1>1, <2>1, <2>2 DEF Regroups
  <2> QED
    BY <2>1, <2>3 DEF MemberInv, LeaderPlans
<1>4. SharesAreDealt(n)'
  <2>1. ASSUME NEW S, Share(n, S)
        PROVE  /\ S \subseteq Partitions
               /\ group' = "completing" => generationId[n] # generation'
               /\ group' = "stable" /\ generationId[n] = generation' =>
                     memberId[n] \in ids' /\ S = target'[memberId[n]]
    <3>1. /\ S \subseteq Partitions
          /\ group = "completing" => generationId[n] # generation
          /\ group = "stable" /\ generationId[n] = generation =>
                memberId[n] \in ids /\ S = target[memberId[n]]
      BY <2>1 DEF MemberInv, SharesAreDealt
    <3> QED
      BY <1>1, <3>1 DEF Regroups
  <2> QED
    BY <1>2, <2>1 DEF SharesAreDealt
<1> QED
  BY <1>3, <1>4

\* A step of the coordinator that hands out no assignment.
LEMMA ServedStep ==
    ASSUME GroupInv, Typed', NEW a, NEW k,
           UNCHANGED clientVars, UNCHANGED scenario, Regroups,
           \A n \in Members :
              /\ Served(n, a[n]) /\ ParkedWait(n)'
              /\ LineAnswered(n, a[n]) => ~(a[n].api = "sync" /\ a[n].result = "ok")
              /\ \A y : Knows(n, y)' => Knows(n, y) \/ (n = k /\ ~(y <= nextId))
    PROVE  GroupInv'
<1>1. Typed /\ \A n \in Members : MemberInv(n)
  BY DEF GroupInv
<1>2. ASSUME NEW n \in Members
      PROVE  MemberInv(n)' /\ \A S : Share(n, S)' => Share(n, S)
  <2>1. Served(n, a[n]) /\ ParkedWait(n)' /\ MemberInv(n)
    BY <1>1
  <2>2. /\ OneRequest(n)' /\ SyncsForMembership(n)' /\ HeartbeatsFollow(n)'
        /\ RunsOnOwnTopics(n)' /\ LearnsTheTruth(n)'
    BY <1>1, <2>1, ServedKeeps DEF Regroups, NewsStay
  <2>3. \A S : Share(n, S)' => Share(n, S)
    BY <1>1, <2>1, ServedShares
  <2>4. LeaderPlans(n)' /\ SharesAreDealt(n)'
    BY <1>1, <2>1, <2>3, RegroupKeeps
  <2> QED
    BY <2>1, <2>2, <2>3, <2>4 DEF MemberInv
<1>3. \A n \in Members : \A y : Knows(n, y) => y <= nextId
  BY <1>1, KnownIds
<1>4. TargetDealt'
  <2> SUFFICES ASSUME group' = "stable"
               PROVE  TargetDealt'
    BY DEF TargetDealt
  <2>1. UNCHANGED <<group, generation, ids, leaderId, target>>
    BY DEF Regroups
  <2>2. PICK x : x = leaderId
    OBVIOUS
  <2>3. x <= nextId
    BY <1>1, <2>1, <2>2 DEF Typed, GroupTypes
  <2>4. PICK l \in Members : /\ Deals(target, ids, l)
                             /\ \A n \in Members : Knows(n, x) => n = l
    BY <2>1, <2>2 DEF GroupInv, TargetDealt
  <2>5. \A n \in Members : Knows(n, x)' => n = l
    BY <2>3, <2>4
  <2>6. Deals(target, ids, l)'
    BY <2>1, <2>4 DEF Deals, Subscribed
  <2> QED
    BY <2>1, <2>2, <2>5, <2>6 DEF TargetDealt, Knows
<1>5. ASSUME NEW m \in Members, NEW n \in Members, m # n
      PROVE  Apart(m, n)'
  <2>1. Apart(m, n)
    BY <1>5 DEF GroupInv
  <2>2. \A x : Knows(m, x)' /\ Knows(n, x)' => x = 0
    BY <1>3, <1>5, <2>1 DEF Apart
  <2>3. generationId' = generationId
    BY DEF clientVars
  <2> QED
    BY <1>2, <2>1, <2>2, <2>3 DEF Apart
<1> QED
  BY <1>2, <1>4, <1>5 DEF GroupInv

\* The types after a step of the coordinator.
LEMMA ServedTypes ==
    ASSUME Typed, UNCHANGED clientVars, UNCHANGED scenario,
           faults' \in 0 .. scenario.faults, leaves' \in 0 .. scenario.leaves,
           LinkTypes', GroupTypes', generation <= generation', nextId <= nextId'
    PROVE  Typed'
<1>1. nextId \in Nat /\ nextId' \in Nat /\ generation \in Nat /\ generation' \in Nat
  BY DEF Typed, GroupTypes
<1>2. /\ 0 .. nextId \subseteq 0 .. nextId' /\ 1 .. nextId \subseteq 1 .. nextId'
      /\ 0 .. generation \subseteq 0 .. generation'
  BY <1>1
<1>3. memberId' \in [Members -> 0 .. nextId'] /\ generationId' \in [Members -> 0 .. generation']
  BY <1>2 DEF Typed, ClientTypes, clientVars
<1>4. \A m \in Members : DOMAIN plan'[m] \subseteq 1 .. nextId'
  BY <1>2 DEF Typed, ClientTypes, clientVars
<1>5. ClientTypes'
  BY <1>3, <1>4 DEF Typed, ClientTypes, clientVars
<1> QED
  BY <1>5 DEF Typed

\* The request that the coordinator looks at.
LEMMA Asked ==
    ASSUME Typed, NEW m \in Members, NEW api, Asks(m, api)
    PROVE  /\ queue[m] # <<>> /\ Done(m) < Pending(m) /\ Done(m) + 1 \in 1 .. Pending(m)
           /\ Done(m) + 1 \in Done(m) + 1 .. Pending(m)
           /\ Head(queue[m]) = At(m, Done(m) + 1)
           /\ Head(queue[m]) \in Requests /\ Head(queue[m]).api = api /\ m \notin parked
           /\ Knows(m, Head(queue[m]).id)
<1>1. /\ queue[m] # <<>> /\ Done(m) < Pending(m) /\ Head(queue[m]) = At(m, Done(m) + 1)
      /\ Head(queue[m]) \in Requests /\ Head(queue[m]).api = api /\ m \notin parked
  BY FirstRequest DEF Asks
<1>2. Done(m) + 1 \in 1 .. Pending(m) /\ Done(m) + 1 \in Done(m) + 1 .. Pending(m)
  BY <1>1, LineTypes
<1> QED
  BY <1>1, <1>2 DEF Knows

\* A request that is still parked waits for the same.
LEMMA ParkedStays ==
    ASSUME Typed, NEW n \in Members, ParkedWait(n), LineKept(n), n \in parked' => n \in parked,
           UNCHANGED <<group, generation, ids>>
    PROVE  ParkedWait(n)'
<1> SUFFICES ASSUME n \in parked
             PROVE  Done(n)' < Pending(n)' /\ At(n, Done(n) + 1)' = At(n, Done(n) + 1)
  BY DEF ParkedWait
<1>1. Done(n) < Pending(n) /\ Done(n) \in Nat /\ Pending(n) \in Nat
  BY LineTypes DEF ParkedWait
<1>2. PICK k \in 1 .. Pending(n) : k = Done(n) + 1
  BY <1>1
<1>3. At(n, k)' = At(n, k) /\ Done(n)' = Done(n) /\ Pending(n)' = Pending(n)
  BY <1>2 DEF LineKept
<1> QED
  BY <1>1, <1>2, <1>3

\* The coordinator answers m and does nothing else, except give out an id.
LEMMA AnswerStep ==
    ASSUME GroupInv, NEW m \in Members, NEW b \in Responses, Asks(m, b.api),
           Answer({m}, [n \in {m} |-> b]),
           b.api # "join" => b.id = Head(queue[m]).id /\ b.gen = Head(queue[m]).gen,
           b.result = "idRequired" => b.api = "join",
           b.id <= nextId', b.api = "join" /\ b.result = "ok" => GoodNews(b)',
           ~(b.api = "sync" /\ b.result = "ok"),
           b.id = Head(queue[m]).id \/ ~(b.id <= nextId),
           UNCHANGED clientVars, UNCHANGED bounds, GroupTypes', nextId <= nextId',
           UNCHANGED <<group, generation, ids, leaderId, target>>
    PROVE  GroupInv'
<1>1. Typed /\ \A n \in Members : MemberInv(n)
  BY DEF GroupInv
<1>2. /\ queue[m] # <<>> /\ Head(queue[m]) = At(m, Done(m) + 1)
      /\ Head(queue[m]).api = b.api /\ Knows(m, Head(queue[m]).id)
  BY <1>1, Asked
<1>3. PICK f : f = [n \in {m} |-> b]
  OBVIOUS
<1>4. /\ LineAnswered(m, b) /\ \A n \in Members \ {m} : LineKept(n)
      /\ queue' \in [Members -> Seq(Requests)] /\ replies' \in [Members -> Seq(Responses)]
      /\ parked' = parked \ {m}
  <2>1. Answer({m}, f) /\ f[m] = b
    BY <1>3
  <2>2. \A n \in {m} : queue[n] # <<>> /\ f[n] \in Responses
    BY <1>2, <2>1
  <2>3. {m} \in SUBSET Members
    OBVIOUS
  <2>4. /\ \A n \in {m} : LineAnswered(n, f[n])
        /\ \A n \in Members \ {m} : LineKept(n)
        /\ queue' \in [Members -> Seq(Requests)] /\ replies' \in [Members -> Seq(Responses)]
    BY <1>1, <2>1, <2>2, <2>3, AnsweredLine DEF Answer
  <2> QED
    BY <2>1, <2>4 DEF Answer
<1>5. Typed'
  <2>1. LinkTypes'
    BY <1>1, <1>4 DEF Typed, LinkTypes
  <2>2. generation <= generation'
    BY <1>1 DEF Typed, GroupTypes
  <2> QED
    BY <1>1, <2>1, <2>2, ServedTypes DEF Typed, ClientTypes, bounds
<1>6. Regroups
  BY <1>1 DEF Regroups, Typed, GroupTypes
<1> DEFINE a == [n \in Members |-> b]
<1>7. ASSUME NEW n \in Members
      PROVE  /\ Served(n, b) /\ ParkedWait(n)'
             /\ \A y : Knows(n, y)' => Knows(n, y) \/ (n = m /\ ~(y <= nextId))
  <2>1. Served(n, b)
    BY <1>2, <1>4 DEF Served
  <2>2. ParkedWait(n)'
    <3>1. CASE n = m
      BY <1>4, <3>1 DEF ParkedWait
    <3>2. CASE n # m
      BY <1>1, <1>4, <3>2, ParkedStays DEF MemberInv
    <3> QED
      BY <3>1, <3>2
  <2>3. UNCHANGED memberId
    BY DEF clientVars
  <2>4. \A y : Knows(n, y)' => Knows(n, y) \/ (n = m /\ ~(y <= nextId))
    <3>1. CASE n = m
      BY <1>1, <1>2, <2>1, <2>3, <3>1, ServedKnows
    <3>2. CASE n # m
      <4>1. LineKept(n)
        BY <1>4, <3>2
      <4>2. ~LineAnswered(n, b)
        BY <1>1, <4>1, LineTypes DEF LineKept, LineAnswered
      <4> QED
        BY <1>1, <2>1, <2>3, <4>2, ServedKnows
    <3> QED
      BY <3>1, <3>2
  <2> QED
    BY <2>1, <2>2, <2>4
<1>8. \A n \in Members : a[n] = b
  OBVIOUS
<1> HIDE DEF a
<1> QED
  BY <1>5, <1>6, <1>7, <1>8, ServedStep DEF bounds

\* A response without data.
LEMMA PlainResponse ==
    ASSUME Typed, NEW m \in Members, queue[m] # <<>>, NEW v \in Failures \cup {"ok", "idRequired"},
           v = "ok" => Head(queue[m]).api \notin {"join", "sync"}
    PROVE  /\ Plain(m, v) \in Responses /\ Plain(m, v).api = Head(queue[m]).api
           /\ Plain(m, v).id = Head(queue[m]).id /\ Plain(m, v).gen = Head(queue[m]).gen
           /\ Plain(m, v).result = v
<1>1. Head(queue[m]) \in Requests
  BY FirstRequest
<1> QED
  BY <1>1, Fields DEF Plain, Responses

\* A member that asks without an id gets one.
LEMMA JoinWithoutIdStep ==
    ASSUME GroupInv, NEW m \in Members, JoinWithoutId(m)
    PROVE  GroupInv'
<1>1. Typed /\ nextId \in Nat
  BY DEF GroupInv, Typed, GroupTypes
<1>2. /\ Asks(m, "join") /\ Head(queue[m]).id = 0
      /\ nextId' = nextId + 1 /\ pendingIds' = pendingIds \cup {nextId + 1}
      /\ UNCHANGED <<clientVars, group, generation, ids, joined, leaderId, target, bounds>>
  BY DEF JoinWithoutId
<1>3. queue[m] # <<>> /\ Head(queue[m]).api = "join" /\ Head(queue[m]) \in Requests
  BY <1>1, <1>2, Asked
<1>4. PICK b : b = [Plain(m, "idRequired") EXCEPT !.id = nextId + 1]
  OBVIOUS
<1>5. b \in Responses /\ b.api = "join" /\ b.id = nextId + 1 /\ b.result = "idRequired"
  BY <1>1, <1>3, <1>4, Fields DEF Plain, Responses
<1>6. Answer({m}, [n \in {m} |-> b])
  BY <1>4 DEF JoinWithoutId
<1>7. GroupTypes'
  BY <1>1, <1>2 DEF Typed, GroupTypes
<1>8. b.id <= nextId' /\ nextId <= nextId' /\ ~(b.id <= nextId)
  BY <1>1, <1>2, <1>5
<1> QED
  BY <1>2, <1>5, <1>6, <1>7, <1>8, AnswerStep

\* A response without data that leaves the group alone.
LEMMA PlainStep ==
    ASSUME GroupInv, NEW m \in Members, NEW api, Asks(m, api), NEW v \in Failures \cup {"ok"},
           v = "ok" => api \notin {"join", "sync"},
           Answer({m}, [n \in {m} |-> Plain(m, v)]), UNCHANGED <<clientVars, groupVars, bounds>>
    PROVE  GroupInv'
<1>1. Typed /\ MemberInv(m) /\ nextId \in Nat
  BY DEF GroupInv, Typed, GroupTypes
<1>2. queue[m] # <<>> /\ Head(queue[m]).api = api /\ Knows(m, Head(queue[m]).id)
  BY <1>1, Asked
<1>3. PICK b \in Responses :
         /\ b = Plain(m, v) /\ b.api = api /\ b.id = Head(queue[m]).id
         /\ b.gen = Head(queue[m]).gen /\ b.result = v
  BY <1>1, <1>2, PlainResponse
<1>4. Answer({m}, [n \in {m} |-> b])
  BY <1>3
<1>5. b.id <= nextId' /\ nextId <= nextId'
  BY <1>1, <1>2, <1>3, KnownIds DEF groupVars
<1>6. GroupTypes'
  BY <1>1 DEF Typed, GroupTypes, groupVars
<1>7. v # "idRequired"
  BY DEF Failures
<1> QED
  BY <1>3, <1>4, <1>5, <1>6, <1>7, AnswerStep DEF groupVars

\* What a member learns of the generation that is there.
LEMMA JoinedResponse ==
    ASSUME GroupTypes', NEW i \in Nat, i # 0, NEW g, g = generation', NEW l, l = leaderId',
           NEW all, all = ids', i <= nextId',
           NEW b, b = Joined(i, g, l, all)
    PROVE  /\ b \in Responses /\ b.api = "join" /\ b.result = "ok" /\ b.id = i
           /\ GoodNews(b)'
<1>1. /\ ids' \subseteq 1 .. nextId' /\ generation' \in Nat /\ leaderId' \in Nat
  BY DEF GroupTypes
<1>2. all \subseteq 1 .. nextId' /\ nextId' \in Nat
  BY <1>1 DEF GroupTypes
<1>3. PICK s \in Seq(Nat) : s = Roster(all) /\ {s[j] : j \in 1 .. Len(s)} = all
  BY <1>2, RosterOfIds
<1> QED
  BY <1>1, <1>2, <1>3 DEF Joined, Responses, GoodNews, InRoster

\* A JoinGroup that need not wait.
LEMMA JoinAnsweredStep ==
    ASSUME GroupInv, NEW m \in Members, JoinAnswered(m)
    PROVE  GroupInv'
<1>1. Typed /\ MemberInv(m) /\ nextId \in Nat
  BY DEF GroupInv, Typed, GroupTypes
<1>2. PICK i : i = Head(queue[m]).id
  OBVIOUS
<1>3. /\ Asks(m, "join") /\ i # 0 /\ UNCHANGED <<clientVars, groupVars, bounds>>
      /\ \/ Answer({m}, [n \in {m} |-> Plain(m, "unknown")])
         \/ i \in ids /\ Answer({m}, [n \in {m} |-> Joined(i, generation, leaderId, ids)])
  BY <1>2 DEF JoinAnswered
<1>4. CASE Answer({m}, [n \in {m} |-> Plain(m, "unknown")])
  BY <1>3, <1>4, PlainStep DEF Failures
<1>5. CASE i \in ids /\ Answer({m}, [n \in {m} |-> Joined(i, generation, leaderId, ids)])
  <2>1. GroupTypes'
    BY <1>1, <1>3 DEF Typed, GroupTypes, groupVars
  <2>2. Knows(m, i) /\ i \in Nat /\ i <= nextId /\ nextId' = nextId
    BY <1>1, <1>2, <1>3, Asked, KnownIds DEF groupVars
  <2>3. PICK b : b = Joined(i, generation, leaderId, ids)
    OBVIOUS
  <2>4. PICK g, l, all : g = generation /\ l = leaderId /\ all = ids
    OBVIOUS
  <2>5. /\ b \in Responses /\ b.api = "join" /\ b.result = "ok" /\ b.id = i
        /\ GoodNews(b)'
    <3>1. g = generation' /\ l = leaderId' /\ all = ids' /\ b = Joined(i, g, l, all)
      BY <1>3, <2>3, <2>4 DEF groupVars
    <3>2. i <= nextId' /\ i # 0
      BY <1>3, <2>2
    <3> QED
      BY <2>1, <2>2, <3>1, <3>2, JoinedResponse
  <2>6. Answer({m}, [n \in {m} |-> b])
    BY <1>5, <2>3
  <2>7. b.id <= nextId' /\ nextId <= nextId'
    BY <1>1, <2>2, <2>5
  <2> QED
    BY <1>2, <1>3, <2>1, <2>5, <2>6, <2>7, AnswerStep DEF groupVars
<1> QED
  BY <1>3, <1>4, <1>5

\* A heartbeat is answered at once.
LEMMA HeartbeatArrivesStep ==
    ASSUME GroupInv, NEW m \in Members, HeartbeatArrives(m)
    PROVE  GroupInv'
<1>1. PICK v \in Failures \cup {"ok"} : v = Verdict(Head(queue[m]).id, Head(queue[m]).gen)
  BY DEF Verdict, Failures
<1>2. /\ Asks(m, "heartbeat") /\ Answer({m}, [n \in {m} |-> Plain(m, v)])
      /\ UNCHANGED <<clientVars, groupVars, bounds>>
  BY <1>1 DEF HeartbeatArrives
<1>3. "heartbeat" \notin {"join", "sync"}
  OBVIOUS
<1> QED
  BY <1>2, <1>3, PlainStep, Zenon

\* The committed offsets have nothing to do with the membership.
LEMMA OffsetFetchArrivesStep ==
    ASSUME GroupInv, NEW m \in Members, OffsetFetchArrives(m)
    PROVE  GroupInv'
<1>1. /\ Asks(m, "offsets") /\ Answer({m}, [n \in {m} |-> Plain(m, "ok")])
      /\ UNCHANGED <<clientVars, groupVars, bounds>>
  BY DEF OffsetFetchArrives
<1>2. "ok" \in Failures \cup {"ok"} /\ "offsets" \notin {"join", "sync"}
  OBVIOUS
<1> QED
  BY <1>1, <1>2, PlainStep, Zenon

\* A parked request is there.
LEMMA ParkedRequest ==
    ASSUME GroupInv, NEW n \in parked
    PROVE  /\ n \in Members /\ queue[n] # <<>> /\ Head(queue[n]) \in Requests
           /\ Head(queue[n]) = At(n, Done(n) + 1) /\ Knows(n, Head(queue[n]).id)
           /\ Head(queue[n]).id \in ids
           /\ \/ Head(queue[n]).api = "join" /\ group = "preparing" /\ n \in Joining
              \/ /\ Head(queue[n]).api = "sync" /\ group = "completing" /\ n \in Syncing
                 /\ Head(queue[n]).gen = generation
<1>1. Typed /\ n \in Members /\ MemberInv(n)
  BY DEF GroupInv, Typed, LinkTypes
<1>2. queue[n] # <<>>
  <2>1. Done(n) < Pending(n)
    BY <1>1 DEF MemberInv, ParkedWait
  <2>2. PICK r \in Seq(Responses) : r = replies[n]
    BY <1>1 DEF Typed, LinkTypes
  <2>3. Count(<<>>, r) = Len(r) /\ Len(r) \in Nat
    BY DEF Count
  <2> QED
    BY <2>1, <2>2, <2>3 DEF Done, Pending
<1>3. /\ Head(queue[n]) \in Requests /\ Head(queue[n]) = At(n, Done(n) + 1)
      /\ Done(n) + 1 \in 1 .. Pending(n)
  BY <1>1, <1>2, FirstRequest, LineTypes
<1>4. Knows(n, Head(queue[n]).id)
  BY <1>3 DEF Knows
<1>5. /\ Head(queue[n]).id \in ids
      /\ \/ Head(queue[n]).api = "join" /\ group = "preparing"
         \/ /\ Head(queue[n]).api = "sync" /\ group = "completing"
            /\ Head(queue[n]).gen = generation
  BY <1>1, <1>3 DEF MemberInv, ParkedWait
<1> QED
  BY <1>1, <1>2, <1>3, <1>4, <1>5 DEF Joining, Syncing

\* The members of a group in which somebody joins or leaves have to join again.
LEMMA RegroupStep ==
    ASSUME GroupInv, NEW ms \in SUBSET Members, NEW v \in [ms -> Failures \cup {"ok"}],
           \A n \in ms : /\ queue[n] # <<>>
                         /\ v[n] = "ok" => Head(queue[n]).api \notin {"join", "sync"},
           queue' = [n \in Members |-> IF n \in ms THEN Tail(queue[n]) ELSE queue[n]],
           replies' = [n \in Members |-> IF n \in ms THEN Append(replies[n], Plain(n, v[n]))
                                                     ELSE replies[n]],
           \A n \in parked' : /\ n \in Members \ ms /\ queue[n] # <<>>
                              /\ Head(queue[n]).api = "join" /\ Head(queue[n]).id \in ids'
                              /\ group' = "preparing",
           group' \notin {"completing", "stable"}, GroupTypes',
           faults' \in 0 .. scenario.faults,
           UNCHANGED clientVars, UNCHANGED <<generation, nextId, scenario, leaves>>
    PROVE  GroupInv'
<1>1. Typed /\ \A n \in Members : MemberInv(n)
  BY DEF GroupInv
<1>2. PICK f : f = [n \in ms |-> Plain(n, v[n])]
  OBVIOUS
<1>3. ASSUME NEW n \in ms
      PROVE  /\ f[n] \in Responses /\ f[n].api = Head(queue[n]).api
             /\ f[n].id = Head(queue[n]).id /\ f[n].gen = Head(queue[n]).gen
             /\ f[n].result = v[n] /\ v[n] # "idRequired" /\ n \in Members
             /\ Head(queue[n]) = At(n, Done(n) + 1) /\ Knows(n, f[n].id)
  <2>1. n \in Members /\ v[n] \in Failures \cup {"ok"} /\ f[n] = Plain(n, v[n])
    BY <1>2
  <2>2. v[n] # "idRequired" /\ v[n] \in Failures \cup {"ok", "idRequired"}
    BY <2>1 DEF Failures
  <2>3. /\ Plain(n, v[n]) \in Responses /\ Plain(n, v[n]).api = Head(queue[n]).api
        /\ Plain(n, v[n]).id = Head(queue[n]).id /\ Plain(n, v[n]).gen = Head(queue[n]).gen
        /\ Plain(n, v[n]).result = v[n]
    BY <1>1, <2>1, <2>2, PlainResponse
  <2>4. Head(queue[n]) = At(n, Done(n) + 1) /\ Done(n) + 1 \in 1 .. Pending(n)
    BY <1>1, <2>1, FirstRequest, LineTypes
  <2> QED
    BY <2>1, <2>2, <2>3, <2>4 DEF Knows
<1>4. /\ \A n \in ms : LineAnswered(n, f[n])
      /\ \A n \in Members \ ms : LineKept(n)
      /\ queue' \in [Members -> Seq(Requests)] /\ replies' \in [Members -> Seq(Responses)]
  <2>1. replies' = [n \in Members |-> IF n \in ms THEN Append(replies[n], f[n])
                                                  ELSE replies[n]]
    BY <1>2
  <2>2. \A n \in ms : queue[n] # <<>> /\ f[n] \in Responses
    BY <1>3
  <2> QED
    BY <1>1, <2>1, <2>2, AnsweredLine
<1>5. Typed'
  <2>1. LinkTypes'
    BY <1>4 DEF LinkTypes
  <2>2. generation <= generation' /\ nextId <= nextId' /\ leaves' \in 0 .. scenario.leaves
    BY <1>1 DEF Typed, ClientTypes, GroupTypes
  <2> QED
    BY <1>1, <2>1, <2>2, ServedTypes
<1>6. Regroups
  BY <1>1 DEF Regroups, Typed, GroupTypes
<1>7. ASSUME NEW n \in Members, NEW b, n \in ms => b = f[n]
      PROVE  /\ Served(n, b) /\ ParkedWait(n)'
             /\ LineAnswered(n, b) => ~(b.api = "sync" /\ b.result = "ok")
             /\ \A y : Knows(n, y)' => Knows(n, y)
  <2>1. UNCHANGED memberId /\ nextId' = nextId
    BY DEF clientVars
  <2>2. CASE n \in ms
    <3>1. Served(n, b)
      <4>1. b.id <= nextId'
        BY <1>1, <1>3, <1>7, <2>1, <2>2, KnownIds
      <4>2. LineAnswered(n, b)
        BY <1>4, <1>7, <2>2
      <4>3. ~(b.api = "join" /\ b.result = "ok")
        BY <1>3, <1>7, <2>2
      <4> QED
        BY <1>3, <1>7, <2>2, <4>1, <4>2, <4>3 DEF Served
    <3>2. \A y : Knows(n, y)' => Knows(n, y)
      BY <1>1, <1>3, <1>7, <2>1, <2>2, <3>1, ServedKnows
    <3>3. ParkedWait(n)'
      BY <2>2 DEF ParkedWait
    <3> QED
      BY <1>3, <1>7, <2>2, <3>1, <3>2, <3>3
  <2>3. CASE n \notin ms
    <3>1. LineKept(n) /\ Served(n, b)
      BY <1>4, <2>3 DEF Served
    <3>2. ~LineAnswered(n, b)
      BY <1>1, <3>1, LineTypes DEF LineKept, LineAnswered
    <3>3. \A y : Knows(n, y)' => Knows(n, y)
      BY <1>1, <2>1, <3>1, <3>2, ServedKnows
    <3>4. ParkedWait(n)'
      <4> SUFFICES ASSUME n \in parked'
                   PROVE  /\ Done(n)' < Pending(n)' /\ At(n, Done(n) + 1)'.api = "join"
                          /\ At(n, Done(n) + 1)'.id \in ids' /\ group' = "preparing"
        BY DEF ParkedWait
      <4>1. /\ Done(n) < Pending(n) /\ Head(queue[n]) = At(n, Done(n) + 1)
            /\ Done(n) \in Nat /\ Pending(n) \in Nat
        BY <1>1, FirstRequest, LineTypes
      <4>2. PICK j \in 1 .. Pending(n) : j = Done(n) + 1
        BY <4>1
      <4>3. At(n, j)' = At(n, j) /\ Done(n)' = Done(n) /\ Pending(n)' = Pending(n)
        BY <3>1, <4>2 DEF LineKept
      <4>4. Head(queue[n]).api = "join" /\ Head(queue[n]).id \in ids' /\ group' = "preparing"
        OBVIOUS
      <4> QED
        BY <4>1, <4>2, <4>3, <4>4
    <3> QED
      BY <3>1, <3>2, <3>3, <3>4
  <2> QED
    BY <2>2, <2>3
<1>8. PICK a : \A n \in Members : n \in ms => a[n] = f[n]
  BY Zenon
<1>9. \A n \in Members :
         /\ Served(n, a[n]) /\ ParkedWait(n)'
         /\ LineAnswered(n, a[n]) => ~(a[n].api = "sync" /\ a[n].result = "ok")
         /\ \A y : Knows(n, y)' => Knows(n, y)
  BY <1>7, <1>8
<1>10. UNCHANGED clientVars /\ UNCHANGED scenario
  OBVIOUS
<1> QED
  BY <1>5, <1>6, <1>9, <1>10, ServedStep

\* A JoinGroup makes the group wait for all its members.
LEMMA JoinParkedStep ==
    ASSUME GroupInv, NEW m \in Members, JoinParked(m)
    PROVE  GroupInv'
<1>1. Typed
  BY DEF GroupInv
<1>2. PICK i : i = Head(queue[m]).id
  OBVIOUS
<1>3. /\ Asks(m, "join") /\ i \in ids \cup pendingIds
      /\ ids' = ids \cup {i} /\ pendingIds' = pendingIds \ {i}
      /\ joined' = (IF group = "preparing" THEN joined ELSE {}) \cup {i}
      /\ group' = "preparing" /\ parked' = (parked \ Syncing) \cup {m}
      /\ UNCHANGED <<clientVars, generation, leaderId, target, nextId, bounds>>
  BY <1>2 DEF JoinParked
<1>4. queue[m] # <<>> /\ Head(queue[m]).api = "join" /\ m \notin parked
  BY <1>1, <1>3, Asked
<1>5. GroupTypes'
  BY <1>1, <1>3 DEF Typed, GroupTypes
<1>6. PICK ms : ms = Syncing
  OBVIOUS
<1>7. ms \in SUBSET Members /\ ms \subseteq parked
  BY <1>1, <1>6 DEF Syncing, Typed, LinkTypes
<1>8. PICK v \in [ms -> Failures \cup {"ok"}] : v = [n \in ms |-> "rebalance"]
  BY DEF Failures
<1>9. \A n \in ms : /\ queue[n] # <<>>
                    /\ v[n] = "ok" => Head(queue[n]).api \notin {"join", "sync"}
  BY <1>7, <1>8, ParkedRequest
<1>10. /\ queue' = [n \in Members |-> IF n \in ms THEN Tail(queue[n]) ELSE queue[n]]
       /\ replies' = [n \in Members |-> IF n \in ms THEN Append(replies[n], Plain(n, v[n]))
                                                    ELSE replies[n]]
  BY <1>6, <1>8 DEF JoinParked
<1>11. ASSUME NEW n \in parked'
       PROVE  /\ n \in Members \ ms /\ queue[n] # <<>>
              /\ Head(queue[n]).api = "join" /\ Head(queue[n]).id \in ids'
              /\ group' = "preparing"
  <2>1. CASE n = m
    BY <1>2, <1>3, <1>4, <1>7, <2>1
  <2>2. CASE n \in parked \ Syncing
    BY <1>3, <1>6, <2>2, ParkedRequest
  <2> QED
    BY <1>3, <2>1, <2>2
<1>12. group' \notin {"completing", "stable"} /\ faults' \in 0 .. scenario.faults
       /\ UNCHANGED <<generation, nextId, scenario, leaves>> /\ UNCHANGED clientVars
  BY <1>1, <1>3 DEF Typed, ClientTypes, bounds
<1> QED
  BY <1>5, <1>7, <1>8, <1>9, <1>10, <1>11, <1>12, RegroupStep

\* The types of the group once i is gone.
LEMMA RemoveTypes ==
    ASSUME Typed, NEW i, Remove(i), UNCHANGED <<generation, pendingIds, leaderId, nextId>>
    PROVE  /\ GroupTypes' /\ ids' = ids \ {i} /\ group' \notin {"completing", "stable"}
           /\ ids' # {} => group' = "preparing"
  BY DEF Remove, Typed, GroupTypes

\* A member leaves.
LEMMA LeaveArrivesStep ==
    ASSUME GroupInv, NEW m \in Members, LeaveArrives(m)
    PROVE  GroupInv'
<1>1. Typed
  BY DEF GroupInv
<1>2. PICK i : i = Head(queue[m]).id
  OBVIOUS
<1>3. PICK ms : ms = {m} \cup IF i \in ids THEN Syncing ELSE {}
  OBVIOUS
<1>4. /\ Asks(m, "leave")
      /\ IF i \in ids THEN Remove(i) ELSE UNCHANGED <<ids, joined, group>>
      /\ Answer(ms, [n \in ms |-> Plain(n, IF n = m THEN "ok" ELSE "rebalance")])
      /\ UNCHANGED <<clientVars, generation, pendingIds, leaderId, target, nextId, bounds>>
  BY <1>2, <1>3 DEF LeaveArrives
<1>5. /\ queue[m] # <<>> /\ Head(queue[m]).api = "leave" /\ m \notin parked
      /\ Knows(m, i)
  BY <1>1, <1>2, <1>4, Asked
<1>6. CASE i \notin ids
  <2>1. ms = {m}
    BY <1>3, <1>6
  <2>2. [n \in {m} |-> Plain(n, IF n = m THEN "ok" ELSE "rebalance")]
           = [n \in {m} |-> Plain(m, "ok")]
    OBVIOUS
  <2>3. Answer({m}, [n \in {m} |-> Plain(m, "ok")])
    BY <1>4, <2>1, <2>2
  <2>4. UNCHANGED <<clientVars, groupVars, bounds>>
    BY <1>4, <1>6 DEF groupVars
  <2>5. "ok" \in Failures \cup {"ok"} /\ "leave" \notin {"join", "sync"}
    OBVIOUS
  <2> QED
    BY <1>4, <2>3, <2>4, <2>5, PlainStep, Zenon
<1>7. CASE i \in ids
  <2>1. /\ GroupTypes' /\ ids' = ids \ {i} /\ group' \notin {"completing", "stable"}
        /\ ids' # {} => group' = "preparing"
    BY <1>1, <1>4, <1>7, RemoveTypes
  <2>2. ms = {m} \cup Syncing /\ Syncing \subseteq parked /\ ms \in SUBSET Members
    BY <1>1, <1>3, <1>7 DEF Syncing, Typed, LinkTypes
  <2>3. PICK v \in [ms -> Failures \cup {"ok"}] :
           v = [n \in ms |-> IF n = m THEN "ok" ELSE "rebalance"]
    BY DEF Failures
  <2>4. \A n \in ms : /\ queue[n] # <<>>
                      /\ v[n] = "ok" => Head(queue[n]).api \notin {"join", "sync"}
    BY <1>5, <2>2, <2>3, ParkedRequest
  <2>5. /\ queue' = [n \in Members |-> IF n \in ms THEN Tail(queue[n]) ELSE queue[n]]
        /\ replies' = [n \in Members |-> IF n \in ms THEN Append(replies[n], Plain(n, v[n]))
                                                     ELSE replies[n]]
        /\ parked' = parked \ ms
    BY <1>4, <2>3 DEF Answer
  <2>6. ASSUME NEW n \in parked'
        PROVE  /\ n \in Members \ ms /\ queue[n] # <<>>
               /\ Head(queue[n]).api = "join" /\ Head(queue[n]).id \in ids'
               /\ group' = "preparing"
    <3>1. n \in parked \ ms /\ n # m
      BY <2>2, <2>5
    <3>2. /\ n \in Members \ ms /\ queue[n] # <<>> /\ Head(queue[n]).api = "join"
          /\ Head(queue[n]).id \in ids /\ Knows(n, Head(queue[n]).id)
      BY <2>2, <3>1, ParkedRequest
    <3>3. Head(queue[n]).id # i
      <4>1. Apart(m, n)
        BY <3>1, <3>2 DEF GroupInv
      <4>2. i # 0
        BY <1>1, <1>7 DEF Typed, GroupTypes
      <4> QED
        BY <1>5, <3>2, <4>1, <4>2 DEF Apart
    <3> QED
      BY <2>1, <3>2, <3>3
  <2>7. /\ faults' \in 0 .. scenario.faults /\ UNCHANGED clientVars
        /\ UNCHANGED <<generation, nextId, scenario, leaves>>
    BY <1>1, <1>4 DEF Typed, ClientTypes, bounds
  <2>8. GroupTypes' /\ group' \notin {"completing", "stable"}
    BY <2>1
  <2>9. /\ queue' = [n \in Members |-> IF n \in ms THEN Tail(queue[n]) ELSE queue[n]]
        /\ replies' = [n \in Members |-> IF n \in ms THEN Append(replies[n], Plain(n, v[n]))
                                                     ELSE replies[n]]
    BY <2>5
  <2>10. ms \in SUBSET Members /\ v \in [ms -> Failures \cup {"ok"}]
    BY <2>2, <2>3
  <2> QED
    BY <2>4, <2>6, <2>7, <2>8, <2>9, <2>10, RegroupStep
<1> QED
  BY <1>6, <1>7

\* A session is over.
LEMMA ExpireStep ==
    ASSUME GroupInv, NEW i, Expire(i)
    PROVE  GroupInv'
<1>1. Typed
  BY DEF GroupInv
<1>2. PICK ms : ms = Syncing
  OBVIOUS
<1>3. /\ i \in ids /\ \A n \in parked : Head(queue[n]).id # i
      /\ faults' = faults \/ (faults > 0 /\ faults' = faults - 1)
      /\ Remove(i) /\ Answer(ms, [n \in ms |-> Plain(n, "rebalance")])
      /\ UNCHANGED <<clientVars, generation, pendingIds, leaderId, target, nextId, scenario,
                     leaves>>
  BY <1>2 DEF Expire
<1>4. /\ GroupTypes' /\ ids' = ids \ {i} /\ group' \notin {"completing", "stable"}
      /\ ids' # {} => group' = "preparing"
  BY <1>1, <1>3, RemoveTypes
<1>5. ms \subseteq parked /\ ms \in SUBSET Members
  BY <1>1, <1>2 DEF Syncing, Typed, LinkTypes
<1>6. PICK v \in [ms -> Failures \cup {"ok"}] : v = [n \in ms |-> "rebalance"]
  BY DEF Failures
<1>7. \A n \in ms : /\ queue[n] # <<>>
                    /\ v[n] = "ok" => Head(queue[n]).api \notin {"join", "sync"}
  BY <1>5, <1>6, ParkedRequest
<1>8. /\ queue' = [n \in Members |-> IF n \in ms THEN Tail(queue[n]) ELSE queue[n]]
      /\ replies' = [n \in Members |-> IF n \in ms THEN Append(replies[n], Plain(n, v[n]))
                                                   ELSE replies[n]]
      /\ parked' = parked \ ms
  BY <1>3, <1>6 DEF Answer
<1>9. ASSUME NEW n \in parked'
      PROVE  /\ n \in Members \ ms /\ queue[n] # <<>>
             /\ Head(queue[n]).api = "join" /\ Head(queue[n]).id \in ids'
             /\ group' = "preparing"
  <2>1. n \in parked \ ms
    BY <1>8
  <2>2. /\ n \in Members \ ms /\ queue[n] # <<>> /\ Head(queue[n]).api = "join"
        /\ Head(queue[n]).id \in ids
    BY <1>2, <2>1, ParkedRequest
  <2> QED
    BY <1>3, <1>4, <2>1, <2>2
<1>10. faults' \in 0 .. scenario.faults
  BY <1>1, <1>3, GroupAssumption DEF Typed, ClientTypes
<1> QED
  BY <1>3, <1>4, <1>5, <1>6, <1>7, <1>8, <1>9, <1>10, RegroupStep

\* All members have joined: they learn of a new generation.
LEMMA JoinCompletesStep ==
    ASSUME GroupInv, JoinCompletes
    PROVE  GroupInv'
<1>1. Typed /\ generation \in Nat /\ nextId \in Nat
  BY DEF GroupInv, Typed, GroupTypes
<1>2. /\ group = "preparing" /\ ids # {} /\ group' = "completing"
      /\ generation' = generation + 1
      /\ leaderId' \in IF leaderId \in ids THEN {leaderId} ELSE ids
      /\ joined' = {}
      /\ UNCHANGED <<clientVars, ids, pendingIds, target, nextId, bounds>>
  BY DEF JoinCompletes
<1>3. PICK ms, f : /\ ms = Joining
                   /\ f = [m \in ms |-> Joined(Head(queue[m]).id, generation + 1, leaderId', ids)]
  OBVIOUS
<1>4. Answer(ms, f)
  BY <1>3 DEF JoinCompletes
<1>5. ms \subseteq parked /\ ms \in SUBSET Members
  BY <1>1, <1>3 DEF Joining, Typed, LinkTypes
<1>6. GroupTypes'
  BY <1>1, <1>2 DEF Typed, GroupTypes
<1>7. PICK g, l, all : g = generation' /\ l = leaderId' /\ all = ids'
  OBVIOUS
<1>8. ASSUME NEW n \in ms
      PROVE  /\ f[n] \in Responses /\ f[n].api = "join" /\ f[n].result = "ok"
             /\ GoodNews(f[n])' /\ f[n].id = Head(queue[n]).id /\ f[n].id <= nextId
             /\ queue[n] # <<>> /\ Head(queue[n]) = At(n, Done(n) + 1)
             /\ Head(queue[n]).api = "join" /\ Knows(n, f[n].id)
  <2>1. PICK i, b : i = Head(queue[n]).id /\ b = f[n]
    OBVIOUS
  <2>2. /\ queue[n] # <<>> /\ Head(queue[n]) = At(n, Done(n) + 1)
        /\ Head(queue[n]).api = "join" /\ Knows(n, i) /\ i \in ids
    BY <1>3, <1>5, <2>1, ParkedRequest DEF Joining
  <2>3. i \in Nat /\ i # 0 /\ i <= nextId
    BY <1>1, <2>2 DEF Typed, GroupTypes
  <2>4. b = Joined(i, g, l, all)
    BY <1>2, <1>3, <1>7, <2>1
  <2>5. i <= nextId'
    BY <1>2, <2>3
  <2>6. /\ b \in Responses /\ b.api = "join" /\ b.result = "ok" /\ b.id = i
        /\ GoodNews(b)'
    BY <1>6, <1>7, <2>3, <2>4, <2>5, JoinedResponse
  <2> QED
    BY <2>1, <2>2, <2>3, <2>6
<1>9. /\ \A n \in ms : LineAnswered(n, f[n])
      /\ \A n \in Members \ ms : LineKept(n)
      /\ queue' \in [Members -> Seq(Requests)] /\ replies' \in [Members -> Seq(Responses)]
      /\ parked' = parked \ ms
  <2>1. \A n \in ms : queue[n] # <<>> /\ f[n] \in Responses
    BY <1>8
  <2>2. /\ queue' = [n \in Members |-> IF n \in ms THEN Tail(queue[n]) ELSE queue[n]]
        /\ replies' = [n \in Members |-> IF n \in ms THEN Append(replies[n], f[n])
                                                     ELSE replies[n]]
        /\ parked' = parked \ ms
    BY <1>4 DEF Answer
  <2> QED
    BY <1>1, <1>5, <2>1, <2>2, AnsweredLine
<1>10. parked' = {}
  BY <1>2, <1>3, <1>9, ParkedRequest
<1>11. Typed'
  <2>1. LinkTypes'
    BY <1>9, <1>10 DEF LinkTypes
  <2>2. /\ generation <= generation' /\ nextId <= nextId' /\ UNCHANGED scenario
        /\ faults' \in 0 .. scenario.faults /\ leaves' \in 0 .. scenario.leaves
        /\ UNCHANGED clientVars
    BY <1>1, <1>2 DEF Typed, ClientTypes, bounds
  <2> QED
    BY <1>1, <1>6, <2>1, <2>2, ServedTypes
<1>12. Regroups
  BY <1>1, <1>2 DEF Regroups
<1>13. ASSUME NEW n \in Members, NEW b, n \in ms => b = f[n]
       PROVE  /\ Served(n, b) /\ ParkedWait(n)'
              /\ LineAnswered(n, b) => ~(b.api = "sync" /\ b.result = "ok")
              /\ \A y : Knows(n, y)' => Knows(n, y)
  <2>1. UNCHANGED memberId /\ nextId' = nextId
    BY <1>2 DEF clientVars
  <2>2. ParkedWait(n)'
    BY <1>10 DEF ParkedWait
  <2>3. CASE n \in ms
    <3>1. /\ b.api = "join" /\ b.result = "ok" /\ GoodNews(b)' /\ b.id <= nextId'
          /\ Head(queue[n]) = At(n, Done(n) + 1) /\ Head(queue[n]).api = "join"
          /\ Knows(n, b.id) /\ LineAnswered(n, b)
      <4>1. PICK c : c = f[n]
        OBVIOUS
      <4>2. GoodNews(c)' /\ c = b
        BY <1>8, <1>13, <2>3, <4>1 DEF GoodNews
      <4> QED
        BY <1>8, <1>9, <1>13, <2>1, <2>3, <4>2
    <3>2. Served(n, b)
      BY <3>1 DEF Served
    <3>3. \A y : Knows(n, y)' => Knows(n, y)
      BY <1>1, <2>1, <3>1, <3>2, ServedKnows
    <3> QED
      BY <2>2, <3>1, <3>2, <3>3
  <2>4. CASE n \notin ms
    <3>1. LineKept(n) /\ Served(n, b)
      BY <1>9, <2>4 DEF Served
    <3>2. ~LineAnswered(n, b)
      BY <1>1, <3>1, LineTypes DEF LineKept, LineAnswered
    <3>3. \A y : Knows(n, y)' => Knows(n, y)
      BY <1>1, <2>1, <3>1, <3>2, ServedKnows
    <3> QED
      BY <2>2, <3>1, <3>2, <3>3
  <2> QED
    BY <2>3, <2>4
<1>14. PICK a : \A n \in Members : n \in ms => a[n] = f[n]
  BY Zenon
<1>15. UNCHANGED clientVars /\ UNCHANGED scenario
  BY <1>2 DEF bounds
<1> QED
  BY <1>11, <1>12, <1>13, <1>14, <1>15, ServedStep

\* The assignment of a stable group is handed out.
LEMMA DealtStep ==
    ASSUME GroupInv, Typed', NEW a, NEW l \in Members,
           UNCHANGED clientVars, UNCHANGED <<scenario, generation, ids, leaderId, nextId>>,
           group' = "stable", Deals(target', ids, l),
           group = "completing" \/ (group = "stable" /\ target' = target),
           \A n \in Members : Knows(n, leaderId) => n = l,
           \A n \in Members :
              /\ Served(n, a[n]) /\ ParkedWait(n)'
              /\ LineAnswered(n, a[n]) =>
                    /\ Knows(n, a[n].id)
                    /\ a[n].api = "sync" /\ a[n].result = "ok" =>
                          /\ generationId[n] = generation /\ memberId[n] \in ids
                          /\ a[n].parts = target'[memberId[n]]
    PROVE  GroupInv'
<1>1. Typed /\ \A n \in Members : MemberInv(n)
  BY DEF GroupInv
<1>2. NewsStay
  BY <1>1 DEF NewsStay, Typed, GroupTypes
<1>3. /\ DOMAIN target' = ids /\ \A x \in ids : target'[x] \subseteq Partitions
      /\ \A x, y \in ids : x # y => target'[x] \cap target'[y] = {}
  BY <1>1, FiniteTopics DEF Deals
<1>4. ASSUME NEW n \in Members, NEW S, Share(n, S)'
      PROVE  \/ /\ Share(n, S) /\ S \subseteq Partitions
                /\ generationId[n] = generation =>
                      memberId[n] \in ids /\ S = target'[memberId[n]]
             \/ /\ generationId[n] = generation /\ memberId[n] \in ids
                /\ S = target'[memberId[n]]
  <2>1. CASE Share(n, S)
    BY <1>1, <2>1 DEF MemberInv, SharesAreDealt
  <2>2. CASE ~Share(n, S)
    <3>1. Served(n, a[n]) /\ UNCHANGED clientVars
      OBVIOUS
    <3>2. /\ LineAnswered(n, a[n]) /\ a[n].api = "sync" /\ a[n].result = "ok"
          /\ S = a[n].parts
      BY <1>1, <1>4, <2>2, <3>1, ServedShares
    <3> QED
      BY <3>2
  <2> QED
    BY <2>1, <2>2
<1>5. \A n \in Members : \A y : Knows(n, y)' => Knows(n, y)
  <2> SUFFICES ASSUME NEW n \in Members
               PROVE  \A y : Knows(n, y)' => Knows(n, y)
    OBVIOUS
  <2>1. /\ Served(n, a[n]) /\ UNCHANGED memberId
        /\ LineAnswered(n, a[n]) => Knows(n, a[n].id)
    BY DEF clientVars
  <2> QED
    BY <1>1, <2>1, ServedKnows
<1>6. generationId' = generationId /\ memberId' = memberId
  BY DEF clientVars
<1>7. ASSUME NEW n \in Members
      PROVE  MemberInv(n)'
  <2>1. Served(n, a[n]) /\ ParkedWait(n)' /\ MemberInv(n)
    BY <1>1
  <2>2. /\ OneRequest(n)' /\ SyncsForMembership(n)' /\ HeartbeatsFollow(n)'
        /\ RunsOnOwnTopics(n)' /\ LearnsTheTruth(n)'
    BY <1>1, <1>2, <2>1, ServedKeeps
  <2>3. LeaderPlans(n)'
    BY DEF LeaderPlans
  <2>4. SharesAreDealt(n)'
    BY <1>3, <1>4, <1>6 DEF SharesAreDealt
  <2> QED
    BY <2>1, <2>2, <2>3, <2>4 DEF MemberInv
<1>8. TargetDealt'
  <2>1. Deals(target, ids, l)'
    BY DEF Deals, Subscribed
  <2>2. PICK x : x = leaderId
    OBVIOUS
  <2>3. \A n \in Members : Knows(n, x)' => n = l
    BY <1>5, <2>2
  <2> QED
    BY <2>1, <2>2, <2>3 DEF TargetDealt, Knows
<1>9. ASSUME NEW m \in Members, NEW n \in Members, m # n
      PROVE  Apart(m, n)'
  <2>1. Apart(m, n)
    BY <1>9 DEF GroupInv
  <2>2. \A x : Knows(m, x)' /\ Knows(n, x)' => x = 0
    BY <1>5, <2>1 DEF Apart
  <2>3. ASSUME NEW S, NEW T, Share(m, S)', Share(n, T)', generationId[m] = generationId[n]
        PROVE  S \cap T = {}
    <3>1. CASE generationId[m] = generation
      <4>1. /\ memberId[m] \in ids /\ S = target'[memberId[m]]
            /\ memberId[n] \in ids /\ T = target'[memberId[n]]
        BY <1>4, <2>3, <3>1
      <4>2. memberId[m] # memberId[n]
        <5>1. Knows(m, memberId[m]) /\ Knows(n, memberId[n])
          BY DEF Knows
        <5>2. memberId[m] # 0
          BY <1>1, <4>1 DEF Typed, GroupTypes
        <5> QED
          BY <2>1, <5>1, <5>2 DEF Apart
      <4> QED
        BY <1>3, <4>1, <4>2
    <3>2. CASE generationId[m] # generation
      <4>1. Share(m, S) /\ Share(n, T)
        BY <1>4, <2>3, <3>2
      <4> QED
        BY <2>1, <2>3, <4>1 DEF Apart
    <3> QED
      BY <3>1, <3>2
  <2> QED
    BY <1>6, <2>2, <2>3 DEF Apart
<1> QED
  BY <1>7, <1>8, <1>9 DEF GroupInv

\* The members ms, who wait for it or ask for it, are given their assignment.
LEMMA HandOutStep ==
    ASSUME GroupInv, NEW ms \in SUBSET Members, NEW f, NEW l \in Members, Answer(ms, f),
           \A n \in ms : /\ queue[n] # <<>> /\ Head(queue[n]).api = "sync"
                         /\ Head(queue[n]).id \in ids /\ Head(queue[n]).gen = generation
                         /\ f[n] = Assigned(n, target'[Head(queue[n]).id]),
           group' = "stable", Deals(target', ids, l), parked' = {},
           group = "completing" \/ (group = "stable" /\ target' = target),
           \A n \in Members : Knows(n, leaderId) => n = l,
           UNCHANGED <<clientVars, generation, ids, pendingIds, joined, leaderId, nextId,
                       bounds>>
    PROVE  GroupInv'
<1>1. Typed /\ \A n \in Members : MemberInv(n)
  BY DEF GroupInv
<1>2. ASSUME NEW n \in ms
      PROVE  /\ f[n] \in Responses /\ f[n].api = "sync" /\ f[n].result = "ok"
             /\ f[n].id = Head(queue[n]).id /\ f[n].gen = Head(queue[n]).gen
             /\ Head(queue[n]) = At(n, Done(n) + 1) /\ Knows(n, f[n].id)
             /\ generationId[n] = generation /\ memberId[n] \in ids
             /\ f[n].parts = target'[memberId[n]] /\ f[n].id <= nextId
  <2>1. PICK r : r = Head(queue[n])
    OBVIOUS
  <2>2. /\ r \in Requests /\ r = At(n, Done(n) + 1) /\ r.api = "sync"
        /\ Done(n) + 1 \in 1 .. Pending(n) /\ n \in Members
        /\ r.id \in ids /\ r.gen = generation
    BY <1>1, <2>1, FirstRequest, LineTypes
  <2>3. r.id = memberId[n] /\ r.gen = generationId[n]
    BY <1>1, <2>2 DEF MemberInv, SyncsForMembership, Current
  <2>4. target'[r.id] \subseteq Partitions
    BY <1>1, <2>2, FiniteTopics DEF Deals
  <2>5. /\ f[n] = Assigned(n, target'[r.id]) /\ r.id \in Nat /\ r.gen \in Nat
        /\ r.id <= nextId
    BY <1>1, <2>1, <2>2, Fields DEF Typed, GroupTypes
  <2>6. /\ f[n] \in Responses /\ f[n].api = "sync" /\ f[n].result = "ok"
        /\ f[n].id = r.id /\ f[n].gen = r.gen /\ f[n].parts = target'[r.id]
    BY <2>1, <2>4, <2>5 DEF Assigned, Responses
  <2> QED
    BY <2>1, <2>2, <2>3, <2>5, <2>6 DEF Knows
<1>3. /\ \A n \in ms : LineAnswered(n, f[n])
      /\ \A n \in Members \ ms : LineKept(n)
      /\ queue' \in [Members -> Seq(Requests)] /\ replies' \in [Members -> Seq(Responses)]
  <2>1. \A n \in ms : queue[n] # <<>> /\ f[n] \in Responses
    BY <1>2
  <2>2. /\ queue' = [n \in Members |-> IF n \in ms THEN Tail(queue[n]) ELSE queue[n]]
        /\ replies' = [n \in Members |-> IF n \in ms THEN Append(replies[n], f[n])
                                                     ELSE replies[n]]
    BY DEF Answer
  <2> QED
    BY <1>1, <2>1, <2>2, AnsweredLine
<1>4. Typed'
  <2>1. LinkTypes'
    BY <1>3 DEF LinkTypes
  <2>2. /\ generation <= generation' /\ nextId <= nextId' /\ UNCHANGED scenario
        /\ faults' \in 0 .. scenario.faults /\ leaves' \in 0 .. scenario.leaves
        /\ UNCHANGED clientVars
    BY <1>1 DEF Typed, ClientTypes, GroupTypes, bounds
  <2>3. GroupTypes'
    BY <1>1 DEF Typed, GroupTypes
  <2> QED
    BY <1>1, <2>1, <2>2, <2>3, ServedTypes
<1>5. ASSUME NEW n \in Members, NEW b, n \in ms => b = f[n]
      PROVE  /\ Served(n, b) /\ ParkedWait(n)'
             /\ LineAnswered(n, b) =>
                   /\ Knows(n, b.id)
                   /\ b.api = "sync" /\ b.result = "ok" =>
                         /\ generationId[n] = generation /\ memberId[n] \in ids
                         /\ b.parts = target'[memberId[n]]
  <2>1. ParkedWait(n)'
    BY DEF ParkedWait
  <2>2. CASE n \in ms
    BY <1>2, <1>3, <1>5, <2>1, <2>2 DEF Served
  <2>3. CASE n \notin ms
    <3>1. LineKept(n) /\ Served(n, b)
      BY <1>3, <2>3 DEF Served
    <3>2. ~LineAnswered(n, b)
      BY <1>1, <3>1, LineTypes DEF LineKept, LineAnswered
    <3> QED
      BY <2>1, <3>1, <3>2
  <2> QED
    BY <2>2, <2>3
<1>6. PICK a : \A n \in Members : n \in ms => a[n] = f[n]
  BY Zenon
<1>7. UNCHANGED clientVars /\ UNCHANGED <<scenario, generation, ids, leaderId, nextId>>
  BY DEF bounds
<1>8. \A n \in Members :
         /\ Served(n, a[n]) /\ ParkedWait(n)'
         /\ LineAnswered(n, a[n]) =>
               /\ Knows(n, a[n].id)
               /\ a[n].api = "sync" /\ a[n].result = "ok" =>
                     /\ generationId[n] = generation /\ memberId[n] \in ids
                     /\ a[n].parts = target'[memberId[n]]
  BY <1>5, <1>6
<1> QED
  BY <1>4, <1>7, <1>8, DealtStep

\* A SyncGroup is refused, waits for the leader, or is answered.
LEMMA SyncArrivesStep ==
    ASSUME GroupInv, NEW m \in Members, SyncArrives(m)
    PROVE  GroupInv'
<1>1. Typed /\ MemberInv(m)
  BY DEF GroupInv
<1>2. PICK r, v : r = Head(queue[m]) /\ v = Verdict(r.id, r.gen)
  OBVIOUS
<1>3. /\ Asks(m, "sync")
      /\ UNCHANGED <<clientVars, generation, ids, pendingIds, joined, leaderId, nextId,
                     bounds>>
  BY DEF SyncArrives
<1>4. /\ \/ /\ v # "ok" /\ Answer({m}, [n \in {m} |-> Plain(m, v)])
            /\ UNCHANGED <<group, target>>
         \/ /\ v = "ok" /\ group = "stable"
            /\ Answer({m}, [n \in {m} |-> Assigned(m, target[r.id])])
            /\ UNCHANGED <<group, target>>
         \/ /\ v = "ok" /\ group = "completing" /\ r.id # leaderId
            /\ parked' = parked \cup {m}
            /\ UNCHANGED <<group, target, queue, replies>>
         \/ /\ v = "ok" /\ group = "completing" /\ r.id = leaderId
            /\ group' = "stable"
            /\ target' = plan[m]
            /\ Answer(Syncing \cup {m}, [n \in Syncing \cup {m} |->
                   Assigned(n, plan[m][Head(queue[n]).id])])
  BY <1>2 DEF SyncArrives
<1>5. /\ queue[m] # <<>> /\ r \in Requests /\ r = At(m, Done(m) + 1) /\ r.api = "sync"
      /\ Done(m) + 1 \in 1 .. Pending(m) /\ Done(m) + 1 \in Done(m) + 1 .. Pending(m)
      /\ Knows(m, r.id) /\ m \notin parked /\ Done(m) < Pending(m)
  BY <1>1, <1>2, <1>3, Asked
<1>6. v = "ok" => r.id \in ids /\ r.gen = generation
  BY <1>2 DEF Verdict
<1>7. CASE v # "ok" /\ Answer({m}, [n \in {m} |-> Plain(m, v)]) /\ UNCHANGED <<group, target>>
  <2>1. v \in Failures \cup {"ok"}
    BY <1>2 DEF Verdict, Failures
  <2>2. UNCHANGED <<clientVars, groupVars, bounds>>
    BY <1>3, <1>7 DEF groupVars
  <2> QED
    BY <1>3, <1>7, <2>1, <2>2, PlainStep
<1>8. CASE /\ v = "ok" /\ group = "stable"
           /\ Answer({m}, [n \in {m} |-> Assigned(m, target[r.id])])
           /\ UNCHANGED <<group, target>>
  <2>1. PICK f, ms : f = [n \in {m} |-> Assigned(m, target[r.id])] /\ ms = {m}
    OBVIOUS
  <2>2. PICK l \in Members : /\ Deals(target, ids, l)
                             /\ \A n \in Members : Knows(n, leaderId) => n = l
    BY <1>8 DEF GroupInv, TargetDealt
  <2>3. \A n \in ms : /\ queue[n] # <<>> /\ Head(queue[n]).api = "sync"
                      /\ Head(queue[n]).id \in ids /\ Head(queue[n]).gen = generation
                      /\ f[n] = Assigned(n, target'[Head(queue[n]).id])
    BY <1>2, <1>5, <1>6, <1>8, <2>1
  <2>4. parked' = {}
    <3>1. parked = {}
      BY <1>8, ParkedRequest
    <3>2. parked' = parked \ {m}
      BY <1>8 DEF Answer
    <3> QED
      BY <3>1, <3>2
  <2>5. group' = "stable" /\ Deals(target', ids, l) /\ group = "stable" /\ target' = target
    BY <1>8, <2>2
  <2>6. Answer(ms, f) /\ ms \in SUBSET Members
    BY <1>8, <2>1
  <2> QED
    BY <1>3, <2>2, <2>3, <2>4, <2>5, <2>6, HandOutStep
<1>9. CASE /\ v = "ok" /\ group = "completing" /\ r.id # leaderId
           /\ parked' = parked \cup {m}
           /\ UNCHANGED <<group, target, queue, replies>>
  <2>1. \A n \in Members : LineKept(n)
    BY <1>9, KeptLine
  <2>2. LinkTypes' /\ GroupTypes'
    BY <1>1, <1>3, <1>9 DEF Typed, LinkTypes, GroupTypes
  <2>3. /\ generation <= generation' /\ nextId <= nextId' /\ UNCHANGED scenario
        /\ faults' \in 0 .. scenario.faults /\ leaves' \in 0 .. scenario.leaves
        /\ UNCHANGED clientVars
    BY <1>1, <1>3 DEF Typed, ClientTypes, GroupTypes, bounds
  <2>4. Typed'
    BY <1>1, <2>2, <2>3, ServedTypes
  <2>5. Regroups
    BY <1>3, <1>9, <2>3 DEF Regroups
  <2>6. ASSUME NEW n \in Members, NEW b
        PROVE  /\ Served(n, b) /\ ParkedWait(n)' /\ ~LineAnswered(n, b)
               /\ \A y : Knows(n, y)' => Knows(n, y)
    <3>1. LineKept(n) /\ Served(n, b)
      BY <2>1 DEF Served
    <3>2. ~LineAnswered(n, b)
      BY <1>1, <3>1, LineTypes DEF LineKept, LineAnswered
    <3>3. \A y : Knows(n, y)' => Knows(n, y)
      BY <1>1, <1>3, <3>1, <3>2, ServedKnows DEF clientVars
    <3>4. ParkedWait(n)'
      <4>1. CASE n = m
        <5>1. PICK j \in 1 .. Pending(m) : j = Done(m) + 1 /\ At(m, j) = r
          BY <1>5
        <5>2. At(m, j)' = r /\ Done(m)' = Done(m) /\ Pending(m)' = Pending(m)
          BY <3>1, <4>1, <5>1 DEF LineKept
        <5> QED
          BY <1>3, <1>5, <1>6, <1>9, <4>1, <5>1, <5>2 DEF ParkedWait
      <4>2. CASE n # m
        <5>1. MemberInv(n)
          BY DEF GroupInv
        <5>2. n \in parked' => n \in parked
          BY <1>9, <4>2
        <5>3. UNCHANGED <<group, generation, ids>>
          BY <1>3, <1>9
        <5> QED
          BY <1>1, <3>1, <5>1, <5>2, <5>3, ParkedStays DEF MemberInv
      <4> QED
        BY <4>1, <4>2
    <3> QED
      BY <3>1, <3>2, <3>3, <3>4
  <2>7. PICK a : a = [n \in Members |-> r]
    OBVIOUS
  <2> QED
    BY <2>3, <2>4, <2>5, <2>6, ServedStep
<1>10. CASE /\ v = "ok" /\ group = "completing" /\ r.id = leaderId
            /\ group' = "stable"
            /\ target' = plan[m]
            /\ Answer(Syncing \cup {m}, [n \in Syncing \cup {m} |->
                   Assigned(n, plan[m][Head(queue[n]).id])])
  <2>1. PICK ms : ms = Syncing \cup {m}
    OBVIOUS
  <2>2. PICK f : f = [n \in ms |-> Assigned(n, plan[m][Head(queue[n]).id])]
    OBVIOUS
  <2>3. ms \subseteq parked \cup {m} /\ ms \in SUBSET Members /\ Syncing \subseteq parked
    BY <1>1, <2>1 DEF Syncing, Typed, LinkTypes
  <2>4. Answer(ms, f)
    BY <1>10, <2>1, <2>2
  <2>5. ASSUME NEW n \in ms
        PROVE  /\ queue[n] # <<>> /\ Head(queue[n]).api = "sync"
               /\ Head(queue[n]).id \in ids /\ Head(queue[n]).gen = generation
               /\ f[n] = Assigned(n, target'[Head(queue[n]).id])
    <3>1. f[n] = Assigned(n, target'[Head(queue[n]).id])
      BY <1>10, <2>2
    <3>2. CASE n = m
      BY <1>2, <1>5, <1>6, <1>10, <3>1, <3>2
    <3>3. CASE n \in parked
      BY <1>10, <3>1, <3>3, ParkedRequest
    <3> QED
      BY <2>3, <3>2, <3>3
  <2>6. Deals(target', ids, m)
    BY <1>1, <1>5, <1>6, <1>10 DEF MemberInv, LeaderPlans
  <2>7. \A n \in Members : Knows(n, leaderId) => n = m
    <3>1. leaderId # 0
      BY <1>1, <1>10 DEF Typed, GroupTypes
    <3>2. Knows(m, leaderId)
      BY <1>5, <1>10
    <3> QED
      BY <3>1, <3>2 DEF GroupInv, Apart
  <2>8. parked' = {}
    <3>1. parked \subseteq Syncing
      BY <1>10, ParkedRequest
    <3>2. parked' = parked \ ms
      BY <2>4 DEF Answer
    <3> QED
      BY <2>1, <3>1, <3>2
  <2> QED
    BY <1>3, <1>10, <2>3, <2>4, <2>5, <2>6, <2>7, <2>8, HandOutStep
<1> QED
  BY <1>4, <1>7, <1>8, <1>9, <1>10

-----------------------------------------------------------------------------
(* The invariant.                                                          *)

\* Nobody has anything in the beginning.
LEMMA InitInv == Init => GroupInv
<1> SUFFICES ASSUME Init
             PROVE  GroupInv
  OBVIOUS
<1> USE DEF Init
<1>1. /\ scenario.faults \in Nat /\ scenario.leaves \in Nat
  BY GroupAssumption
<1>2. ClientTypes
  BY <1>1 DEF ClientTypes, Stages, NoError
<1>3. LinkTypes /\ GroupTypes
  BY DEF LinkTypes, GroupTypes
<1>4. \A m \in Members : /\ Done(m) = 0 /\ Pending(m) = 0 /\ pc[m] = "starting"
                         /\ memberId[m] = 0
  BY DEF Done, Pending, Count
<1>5. ASSUME NEW m \in Members
      PROVE  MemberInv(m) /\ \A S : ~Share(m, S)
  <2>1. /\ Done(m) = 0 /\ Pending(m) = 0 /\ pc[m] = "starting"
        /\ memberId[m] = 0 /\ parked = {}
    BY <1>4
  <2>2. \A S : ~Share(m, S)
    BY <2>1 DEF Share, Owns
  <2>3. OneRequest(m) /\ SyncsForMembership(m) /\ HeartbeatsFollow(m)
    BY <2>1 DEF OneRequest, SyncsForMembership, HeartbeatsFollow, Owns
  <2>4. ParkedWait(m) /\ LearnsTheTruth(m) /\ LeaderPlans(m) /\ RunsOnOwnTopics(m)
    BY <2>1 DEF ParkedWait, LearnsTheTruth, LeaderPlans, RunsOnOwnTopics
  <2> QED
    BY <2>2, <2>3, <2>4 DEF MemberInv, SharesAreDealt
<1>6. ASSUME NEW m \in Members, NEW n \in Members
      PROVE  Apart(m, n)
  <2>1. \A x : Knows(m, x) => x = 0
    BY <1>4 DEF Knows
  <2> QED
    BY <1>5, <2>1 DEF Apart
<1>7. TargetDealt
  BY DEF TargetDealt
<1> QED
  BY <1>2, <1>3, <1>5, <1>6, <1>7 DEF GroupInv, Typed

\* Every step of a member or the coordinator keeps it.
LEMMA InvStep == GroupInv /\ [Next]_vars => GroupInv'
<1> SUFFICES ASSUME GroupInv, [Next]_vars
             PROVE  GroupInv'
  OBVIOUS
<1>1. Typed /\ \A m \in Members : MemberInv(m)
  BY DEF GroupInv
<1>2. ASSUME NEW m \in Members,
             \/ Start(m) \/ ReceiveJoin(m) \/ ReceiveMemberId(m) \/ JoinOrSyncFails(m)
             \/ ReceiveSync(m) \/ ReceiveOffsets(m)
             \/ Heartbeat(m) \/ ReceiveHeartbeat(m) \/ HandleLastHeartbeat(m)
             \/ LeaveGroup(m) \/ ReceiveLeave(m) \/ ConnectionLost(m)
      PROVE  GroupInv'
  <2>1. MemberInv(m)
    BY <1>1
  <2>2. ClientEffect(m)
    BY <1>1, <1>2, <2>1, StartStep, ReceiveJoinStep, ReceiveMemberIdStep,
       JoinOrSyncFailsStep,
       ReceiveSyncStep, ReceiveOffsetsStep, HeartbeatStep, ReceiveHeartbeatStep,
       HandleLastHeartbeatStep, LeaveGroupStep, ReceiveLeaveStep, ConnectionLostStep
  <2> QED
    BY <2>2, ClientStep
<1>3. ASSUME NEW m \in Members,
             \/ JoinWithoutId(m) \/ JoinAnswered(m) \/ JoinParked(m) \/ SyncArrives(m)
             \/ HeartbeatArrives(m) \/ OffsetFetchArrives(m) \/ LeaveArrives(m)
      PROVE  GroupInv'
  BY <1>3, JoinWithoutIdStep, JoinAnsweredStep, JoinParkedStep, SyncArrivesStep,
     HeartbeatArrivesStep, OffsetFetchArrivesStep, LeaveArrivesStep
<1>4. ASSUME NEW i \in ids, Expire(i)
      PROVE  GroupInv'
  BY <1>4, ExpireStep
<1>5. CASE UNCHANGED vars
  <2>1. UNCHANGED <<clientVars, linkVars, groupVars, bounds>>
    BY <1>5 DEF vars
  <2>2. /\ UNCHANGED <<pc, memberId, generationId, assignment, ticking, heartbeatError, plan,
                       connected>>
        /\ UNCHANGED <<queue, parked, replies>>
        /\ UNCHANGED groupVars /\ UNCHANGED <<scenario, faults, leaves>>
    BY <2>1 DEF clientVars, linkVars, bounds
  <2>3. \A n \in Members : LineKept(n)
    BY <2>2, KeptLine
  <2>4. Typed'
    BY <1>1, <2>2 DEF Typed, ClientTypes, LinkTypes, GroupTypes, groupVars
  <2>5. ASSUME NEW m \in Members
        PROVE  GroupInv'
    <3>1. \A n \in Members : Untouched(n)
      BY <2>2, <2>3 DEF Untouched
    <3>2. /\ MemberInv(m)'
          /\ \A y : Knows(m, y)' => Knows(m, y)
          /\ \A S : Share(m, S)' => Share(m, S)
      BY <1>1, <2>2, <3>1, UntouchedKeeps
    <3>3. ClientEffect(m)
      BY <2>2, <2>4, <3>1, <3>2 DEF ClientEffect
    <3> QED
      BY <3>3, ClientStep
  <2>6. CASE Members = {}
    <3>1. TargetDealt'
      BY <2>2, <2>6 DEF GroupInv, TargetDealt, groupVars
    <3> QED
      BY <2>4, <2>6, <3>1 DEF GroupInv
  <2> QED
    BY <2>5, <2>6
<1> QED
  BY <1>2, <1>3, <1>4, <1>5, JoinCompletesStep DEF Next

\* The inductive invariant holds in every reachable state, for every set of
\* members and any subscriptions.
THEOREM Invariant == Spec => []GroupInv
<1> QED
  BY InitInv, InvStep, PTL DEF Spec

\* Every variable has its type in every reachable state: a member has at most
\* one request besides a heartbeat on its way.
THEOREM TypeCorrect == Spec => []TypeOK
<1>1. GroupInv => TypeOK
  <2> SUFFICES ASSUME GroupInv
               PROVE  TypeOK
    OBVIOUS
  <2>1. ClientTypes /\ LinkTypes /\ GroupTypes
    BY DEF GroupInv, Typed
  <2>2. \A m \in Members : heartbeatError[m].kind \in Failures \cup {"none"}
    BY <2>1 DEF ClientTypes
  <2>3. ASSUME NEW m \in Members
        PROVE  Len(queue[m]) + Len(replies[m]) <= 2
    <3>1. PICK q \in Seq(Requests), r \in Seq(Responses) : q = queue[m] /\ r = replies[m]
      BY <2>1 DEF LinkTypes
    <3>2. Count(q, r) <= 2
      BY <3>1 DEF GroupInv, MemberInv, OneRequest, Pending
    <3>3. Len(q) + Len(r) <= 2
      BY <3>2 DEF Count
    <3> QED
      BY <3>1, <3>3, Zenon
  <2> QED
    BY <2>1, <2>2, <2>3 DEF TypeOK, ClientTypes, LinkTypes, GroupTypes, Stages
<1> QED
  BY <1>1, Invariant, PTL

\* Two members of the same generation never own the same partition.
THEOREM OwnersStayDisjoint == Spec => []OwnersDisjoint
<1>1. GroupInv => OwnersDisjoint
  BY DEF GroupInv, Apart, Share, OwnersDisjoint
<1> QED
  BY <1>1, Invariant, PTL

\* A member that has joined acts on no heartbeat error of an earlier membership.
THEOREM ErrorsAreCurrent == Spec => []HeartbeatErrorsAreCurrent
<1>1. GroupInv => HeartbeatErrorsAreCurrent
  BY DEF GroupInv, MemberInv, HeartbeatsFollow, Current, HeartbeatErrorsAreCurrent
<1> QED
  BY <1>1, Invariant, PTL

\* A settled group reads the topics of its leader, no more and no less, and every
\* member only topics of its own.
THEOREM SettledGroupReadsLeadersTopics == Spec => []SettledReadsLeadersTopics
<1>1. GroupInv => SettledReadsLeadersTopics
  <2> SUFFICES ASSUME GroupInv, NEW leader \in Alive, Settled, group = "stable",
                      memberId[leader] = leaderId, ids = {memberId[m] : m \in Alive}
               PROVE  /\ UNION {assignment[m] : m \in Alive} = Subscribed(leader)
                      /\ \A m \in Alive : assignment[m] \subseteq Subscribed(m)
    BY DEF SettledReadsLeadersTopics
  <2>1. PICK l \in Members : /\ Deals(target, ids, l)
                             /\ \A m \in Members : Knows(m, leaderId) => m = l
    BY DEF GroupInv, TargetDealt
  <2>2. l = leader
    BY <2>1 DEF Knows, Alive
  <2>3. \A m \in Alive : assignment[m] = target[memberId[m]]
    <3>1. ASSUME NEW m \in Alive
          PROVE  assignment[m] = target[memberId[m]]
      <4>1. m \in Members /\ pc[m] = "running" /\ generationId[m] = generation
        BY DEF Alive, Settled
      <4>2. Share(m, assignment[m])
        BY <4>1 DEF Share, Owns
      <4> QED
        BY <4>1, <4>2 DEF GroupInv, MemberInv, SharesAreDealt
    <3> QED
      BY <3>1
  <2>4. \A m \in Alive : assignment[m] \subseteq Subscribed(m)
    BY DEF Alive, GroupInv, MemberInv, RunsOnOwnTopics
  <2>5. UNION {assignment[m] : m \in Alive} \subseteq Subscribed(leader)
    BY <2>1, <2>2, <2>3 DEF Deals
  <2>6. ASSUME NEW p \in Subscribed(leader)
        PROVE  p \in UNION {assignment[m] : m \in Alive}
    <3>1. PICK x \in ids : p \in target[x]
      BY <2>1, <2>2 DEF Deals
    <3>2. PICK m \in Alive : x = memberId[m]
      BY <3>1
    <3> QED
      BY <2>3, <3>1, <3>2
  <2> QED
    BY <2>4, <2>5, <2>6
<1> QED
  BY <1>1, Invariant, PTL
=============================================================================
