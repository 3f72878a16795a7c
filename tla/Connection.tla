---------------------------- MODULE Connection ----------------------------
(***************************************************************************)
(* One Connection of src/connection.ts: requests multiplexed over a        *)
(* socket, matched to their responses by a correlation id, with a timer    *)
(* per request, and the socket replaced by connect() when it has broken.   *)
(*                                                                         *)
(* Sockets are numbered; `socket` is the current one.  The code's          *)
(* listeners, continuations and timers interleave freely, except that a    *)
(* destroyed socket emits its 'close' event before a socket opened after   *)
(* it can connect.  The broker is external: it answers each request at     *)
(* most once, in any order.  A response is a frame of two units, its       *)
(* length with the correlation id and its body; a 'data' event delivers    *)
(* any number of units.                                                    *)
(***************************************************************************)
EXTENDS Naturals, Sequences, FiniteSets, Functions

CONSTANTS
    Requests,       \* calls of sendRequest()
    MaxId,          \* the largest int32
    MaxSockets      \* bound on the calls of connect()

ASSUME BoundsAssumption == MaxId \in Nat /\ MaxSockets \in Nat

VARIABLES
    pc,         \* pc[r]: "new", "waiting", "resolved" or "rejected"
    id,         \* id[r]: the correlation id of r
    on,         \* on[r]: the socket r was written to
    timer,      \* the requests whose setTimeout is pending
    unwritten,  \* the requests whose write will call back with an error
    result,     \* history: the requests whose response resolved r
    socket,     \* this.socket, 0 for the one that never connects
    state,      \* state[k]: the state of socket k
    listening,  \* the sockets that still have our listeners
    connecting, \* the sockets whose connect() has not settled
    queue,      \* this.queue: correlation id -> request
    lastCorrelationId,
    chunks,     \* this.chunks, concatenated
    inbox,      \* external: the requests the broker has not answered
    wire,       \* external: the units on their way to the client
    forgotten   \* history: requests that were in the queue connect() threw away

requestVars == <<pc, id, on, timer, unwritten, result>>
socketVars == <<socket, state, listening, connecting>>
vars == <<requestVars, socketVars, queue, lastCorrelationId, chunks, inbox,
          wire, forgotten>>

Sockets == 1..MaxSockets
EmptyQueue == [i \in {} |-> 0]
Frame(r) == <<[request |-> r, id |-> id[r], part |-> "head"],
              [request |-> r, id |-> id[r], part |-> "body"]>>

Units == [request : Requests, id : 0..MaxId, part : {"head", "body"}]

TypeOK ==
    /\ pc \in [Requests -> {"new", "waiting", "resolved", "rejected"}]
    /\ id \in [Requests -> 0..MaxId]
    /\ on \in [Requests -> 0..MaxSockets]
    /\ timer \cup unwritten \subseteq {r \in Requests : pc[r] # "new"}
    /\ result \in [Requests -> SUBSET Requests]
    /\ socket \in 0..MaxSockets
    /\ state \in [Sockets -> {"none", "opening", "open", "ended", "destroyed", "closed"}]
    /\ listening \cup connecting \subseteq Sockets
    /\ \A i \in DOMAIN queue : /\ queue[i] \in Requests /\ id[queue[i]] = i
                               /\ i < lastCorrelationId
    /\ lastCorrelationId \in Nat
    /\ chunks \in Seq(Units) /\ wire \in Seq(Units)
    /\ inbox \cup forgotten \subseteq Requests

\* The connection is new, or has used up all its correlation ids but one.
Init ==
    /\ pc = [r \in Requests |-> "new"]
    /\ id = [r \in Requests |-> 0]
    /\ on = [r \in Requests |-> 0]
    /\ timer = {} /\ unwritten = {}
    /\ result = [r \in Requests |-> {}]
    /\ socket = 0
    /\ state = [k \in Sockets |-> "none"]
    /\ listening = {} /\ connecting = {}
    /\ queue = EmptyQueue
    /\ lastCorrelationId \in {0, MaxId}
    /\ chunks = <<>> /\ inbox = {} /\ wire = <<>>
    /\ forgotten = {}

\* Promises settle once: what comes later has no effect.
Settle(rs, outcome) ==
    pc' = [r \in Requests |-> IF r \in rs /\ pc[r] = "waiting" THEN outcome
                                                              ELSE pc[r]]

\* isConnected(): neither pending nor destroyed; an ended socket still is.
IsConnected == socket # 0 /\ state[socket] \in {"open", "ended"}

-----------------------------------------------------------------------------
(* connect() and disconnect().                                             *)

\* Mutant: what was left of the old stream stays.
ConnectKeepsChunks ==
    /\ queue' = EmptyQueue
    /\ UNCHANGED chunks

\* connect() starts over with an empty queue and an empty buffer.
ResetStream ==
    /\ queue' = EmptyQueue
    /\ chunks' = <<>>

\* Broker.ensureConnected: connect() is called on a socket that has broken.
Connect ==
    /\ socket < MaxSockets
    /\ ~IsConnected
    /\ socket = 0 \/ socket \notin connecting
    /\ socket' = socket + 1
    /\ state' = [state EXCEPT ![socket + 1] = "opening"]
    /\ listening' = listening \cup {socket + 1}
    /\ connecting' = connecting \cup {socket + 1}
    /\ ResetStream
    /\ forgotten' = forgotten \cup
                       {queue[i] : i \in {j \in DOMAIN queue : pc[queue[j]] = "waiting"}}
    /\ inbox' = {} /\ wire' = <<>>
    /\ UNCHANGED <<requestVars, lastCorrelationId>>

(***************************************************************************)
(* The socket connects.  connect() resolves only if its listeners are      *)
(* still there.                                                            *)
(***************************************************************************)
SocketOpens ==
    /\ socket # 0 /\ state[socket] = "opening"
    /\ \A k \in Sockets : state[k] # "destroyed"
    /\ state' = [state EXCEPT ![socket] = "open"]
    /\ connecting' = connecting \ listening
    /\ UNCHANGED <<requestVars, socket, listening, queue, lastCorrelationId,
                   chunks, inbox, wire, forgotten>>

\* Mutant: connect() listens for errors only once it is connected.
FailsUnheard ==
    /\ socket # 0 /\ state[socket] = "opening"
    /\ state' = [state EXCEPT ![socket] = "closed"]
    /\ inbox' = {}
    /\ unwritten' = unwritten \cup {r \in inbox : pc[r] = "waiting"}
    /\ UNCHANGED <<pc, id, on, timer, result, socket, listening, connecting,
                   queue, lastCorrelationId, chunks, wire, forgotten>>

\* The socket fails to connect: connect() rejects, nothing listens yet.
SocketFails ==
    /\ socket # 0 /\ state[socket] = "opening"
    /\ state' = [state EXCEPT ![socket] = "closed"]
    /\ connecting' = connecting \ listening
    /\ inbox' = {}
    /\ unwritten' = unwritten \cup {r \in inbox : pc[r] = "waiting"}
    /\ UNCHANGED <<pc, id, on, timer, result, socket, listening, queue,
                   lastCorrelationId, chunks, wire, forgotten>>

\* disconnect() takes all listeners off the socket and ends it if connected.
Disconnect ==
    /\ socket # 0
    /\ listening' = listening \ {socket}
    /\ state' = [state EXCEPT ![socket] = IF @ = "open" THEN "ended" ELSE @]
    /\ UNCHANGED <<requestVars, socket, connecting, queue, lastCorrelationId,
                   chunks, inbox, wire, forgotten>>

-----------------------------------------------------------------------------
(* sendRequest().                                                          *)

\* Mutant: the id is the length of the queue.
QueueLength == Cardinality(DOMAIN queue)

\* Mutant: the ids start over before they outgrow int32.
WrappedId == IF lastCorrelationId >= MaxId THEN 0 ELSE lastCorrelationId

NextCorrelationId == lastCorrelationId

\* Mutant: the timer is set only once the request is written.
SendUntimed(r) ==
    /\ pc[r] = "new" /\ socket # 0
    /\ pc' = [pc EXCEPT ![r] = "waiting"]
    /\ id' = [id EXCEPT ![r] = NextCorrelationId]
    /\ on' = [on EXCEPT ![r] = socket]
    /\ lastCorrelationId' = lastCorrelationId + 1
    /\ queue' = [i \in DOMAIN queue \cup {NextCorrelationId} |->
                    IF i = NextCorrelationId THEN r ELSE queue[i]]
    /\ timer' = IF state[socket] = "open" THEN timer \cup {r} ELSE timer
    /\ IF state[socket] \in {"opening", "open"}
       THEN inbox' = inbox \cup {r} /\ UNCHANGED unwritten
       ELSE unwritten' = unwritten \cup {r} /\ UNCHANGED inbox
    /\ UNCHANGED <<result, socketVars, chunks, wire, forgotten>>

\* Mutant: the counter of correlation ids is not advanced.
SendWithSameId(r) ==
    /\ pc[r] = "new" /\ socket # 0
    /\ pc' = [pc EXCEPT ![r] = "waiting"]
    /\ id' = [id EXCEPT ![r] = NextCorrelationId]
    /\ on' = [on EXCEPT ![r] = socket]
    /\ timer' = timer \cup {r}
    /\ queue' = [i \in DOMAIN queue \cup {NextCorrelationId} |->
                    IF i = NextCorrelationId THEN r ELSE queue[i]]
    /\ inbox' = IF state[socket] \in {"opening", "open"} THEN inbox \cup {r} ELSE inbox
    /\ UNCHANGED <<unwritten, result, socketVars, lastCorrelationId, chunks,
                   wire, forgotten>>

(***************************************************************************)
(* The request gets its id, its timer and its place in the queue, and is   *)
(* written: a socket that is still connecting keeps it, one that is ended  *)
(* or closed refuses it.                                                   *)
(***************************************************************************)
SendRequest(r) ==
    /\ pc[r] = "new"
    /\ socket # 0
    /\ NextCorrelationId <= MaxId
    /\ pc' = [pc EXCEPT ![r] = "waiting"]
    /\ id' = [id EXCEPT ![r] = NextCorrelationId]
    /\ on' = [on EXCEPT ![r] = socket]
    /\ lastCorrelationId' = lastCorrelationId + 1
    /\ timer' = timer \cup {r}
    /\ queue' = [i \in DOMAIN queue \cup {NextCorrelationId} |->
                    IF i = NextCorrelationId THEN r ELSE queue[i]]
    /\ IF state[socket] \in {"opening", "open"}
       THEN inbox' = inbox \cup {r} /\ UNCHANGED unwritten
       ELSE unwritten' = unwritten \cup {r} /\ UNCHANGED inbox
    /\ UNCHANGED <<result, socketVars, chunks, wire, forgotten>>

(***************************************************************************)
(* Correlation ids do not wrap: one beyond int32 makes the encoder throw   *)
(* before the request is queued, on this connection for good.              *)
(***************************************************************************)
IdOverflows(r) ==
    /\ pc[r] = "new"
    /\ socket # 0
    /\ NextCorrelationId > MaxId
    /\ lastCorrelationId' = lastCorrelationId + 1
    /\ pc' = [pc EXCEPT ![r] = "rejected"]
    /\ UNCHANGED <<id, on, timer, unwritten, result, socketVars, queue, chunks,
                   inbox, wire, forgotten>>

\* The write calls back with an error; queue entry and timer stay.
WriteFails(r) ==
    /\ r \in unwritten
    /\ unwritten' = unwritten \ {r}
    /\ Settle({r}, "rejected")
    /\ UNCHANGED <<id, on, timer, result, socketVars, queue, lastCorrelationId,
                   chunks, inbox, wire, forgotten>>

\* requestTimeout is over: the request is taken off the queue and rejected.
RequestTimesOut(r) ==
    /\ r \in timer
    /\ timer' = timer \ {r}
    /\ queue' = Restrict(queue, DOMAIN queue \ {id[r]})
    /\ Settle({r}, "rejected")
    /\ UNCHANGED <<id, on, unwritten, result, socketVars, lastCorrelationId,
                   chunks, inbox, wire, forgotten>>

-----------------------------------------------------------------------------
(* Events of the socket.                                                   *)

\* How many responses of the buffer are complete, and what remains of it.
Complete(buf) ==
    LET n == Len(buf) \div 2
    IN  <<n, SubSeq(buf, 2 * n + 1, Len(buf))>>

(***************************************************************************)
(* handleData(): every complete response resolves the request that waits   *)
(* under its correlation id, if there is one, and the rest is kept.        *)
(***************************************************************************)
DataArrives(n) ==
    LET buf == chunks \o SubSeq(wire, 1, n)
        frames == Complete(buf)
        ids == {buf[2 * i - 1].id : i \in 1..frames[1]} \cap DOMAIN queue
        answers(r) == {buf[2 * i - 1].request : i \in {j \in 1..frames[1] :
                           buf[2 * j - 1].id \in ids /\ queue[buf[2 * j - 1].id] = r}}
        done == {queue[i] : i \in ids}
    IN  /\ socket \in listening /\ state[socket] = "open"
        /\ n \in 1..Len(wire)
        /\ wire' = SubSeq(wire, n + 1, Len(wire))
        /\ chunks' = frames[2]
        /\ queue' = Restrict(queue, DOMAIN queue \ ids)
        /\ Settle(done, "resolved")
        /\ timer' = timer \ {r \in done : pc[r] = "waiting"}
        /\ result' = [r \in Requests |-> IF r \in done /\ pc[r] = "waiting"
                                         THEN answers(r)
                                         ELSE result[r]]
        /\ UNCHANGED <<id, on, unwritten, socketVars, lastCorrelationId, inbox,
                       forgotten>>

\* The connection breaks, or an ended one is closed by the peer.
SocketBreaks ==
    /\ IsConnected
    /\ state' = [state EXCEPT ![socket] = "destroyed"]
    /\ inbox' = {} /\ wire' = <<>>
    /\ UNCHANGED <<requestVars, socket, listening, connecting, queue,
                   lastCorrelationId, chunks, forgotten>>

\* Mutant: the 'close' listener only empties the queue.
CloseOnlyClears(k) ==
    /\ state[k] = "destroyed"
    /\ state' = [state EXCEPT ![k] = "closed"]
    /\ IF k \in listening THEN queue' = EmptyQueue ELSE UNCHANGED queue
    /\ UNCHANGED <<requestVars, socket, listening, connecting,
                   lastCorrelationId, chunks, inbox, wire, forgotten>>

(***************************************************************************)
(* The 'close' event of socket k: its listener rejects whatever is in the  *)
(* queue by now, be it of this socket or of the one that replaced it.      *)
(***************************************************************************)
SocketCloses(k) ==
    /\ state[k] = "destroyed"
    /\ state' = [state EXCEPT ![k] = "closed"]
    /\ IF k \in listening
       THEN Settle({queue[i] : i \in DOMAIN queue}, "rejected") /\ queue' = EmptyQueue
       ELSE UNCHANGED <<pc, queue>>
    /\ UNCHANGED <<id, on, timer, unwritten, result, socket, listening,
                   connecting, lastCorrelationId, chunks, inbox, wire, forgotten>>

\* External: the broker answers a request it has received.
BrokerAnswers(r) ==
    /\ r \in inbox
    /\ socket # 0 /\ state[socket] \in {"open", "ended"}
    /\ inbox' = inbox \ {r}
    /\ wire' = wire \o Frame(r)
    /\ UNCHANGED <<requestVars, socketVars, queue, lastCorrelationId, chunks,
                   forgotten>>

-----------------------------------------------------------------------------

Next ==
    \/ Connect \/ SocketOpens \/ SocketFails \/ Disconnect \/ SocketBreaks
    \/ \E r \in Requests :
          SendRequest(r) \/ IdOverflows(r) \/ WriteFails(r) \/ RequestTimesOut(r)
          \/ BrokerAnswers(r)
    \/ \E n \in 1..Len(wire) : DataArrives(n)
    \/ \E k \in Sockets : SocketCloses(k)

(***************************************************************************)
(* Timers fire, a refused write calls back and a socket connects or fails; *)
(* nothing says that a broker answers.                                     *)
(***************************************************************************)
Fairness ==
    /\ WF_vars(SocketOpens \/ SocketFails)
    /\ \A r \in Requests : WF_vars(RequestTimesOut(r)) /\ WF_vars(WriteFails(r))
    /\ \A k \in Sockets : WF_vars(SocketCloses(k))

Spec == Init /\ [][Next]_vars

FairSpec == Spec /\ Fairness

-----------------------------------------------------------------------------

R == INSTANCE Rpc WITH Requests <- Requests, pc <- pc, result <- result

(***************************************************************************)
(* The connection keeps what sendRequest() promises (module Rpc): whatever *)
(* timed out before, arrived late, broke or was connected again, a request *)
(* settles, once, and is resolved only with its own response.              *)
(***************************************************************************)
ImplementsRpc == R!Spec

(***************************************************************************)
(* What is buffered and what is still to come form whole responses: no     *)
(* reconnect and no way of cutting the stream into chunks makes            *)
(* handleData() read a body as a length.                                   *)
(***************************************************************************)
StreamInSync ==
    LET stream == chunks \o wire
    IN  socket \in listening /\ state[socket] = "open" =>
            \A i \in 1..Len(stream) : stream[i].part = "head" <=> i % 2 = 1

(***************************************************************************)
(* A request whose socket has closed does not wait for its timer, unless   *)
(* disconnect() had taken the listeners off, or connect() replaced the     *)
(* queue before the 'close' event.                                         *)
(***************************************************************************)
ClosedSocketRejects ==
    \A r \in Requests :
        pc[r] = "waiting" /\ on[r] # 0 /\ state[on[r]] = "closed" =>
            \/ on[r] \notin listening
            \/ r \in forgotten \cup unwritten

(***************************************************************************)
(* Every connect() settles, unless disconnect() takes away the listeners   *)
(* it waits for.                                                           *)
(***************************************************************************)
ConnectSettles ==
    \A k \in Sockets : k \in connecting ~> k \notin connecting \/ k \notin listening
=============================================================================
