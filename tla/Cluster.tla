------------------------------ MODULE Cluster ------------------------------
(***************************************************************************)
(* src/cluster.ts and src/broker.ts: the seed broker, the table of brokers *)
(* by node, and the concurrent calls that make, replace and use them.      *)
(*                                                                         *)
(* A broker is an object with one connection: its socket opens, then the   *)
(* handshake (ApiVersions and SASL) runs over it.  Brokers are numbered in *)
(* the order they are made, 0 is undefined.  The calls are the ones the    *)
(* producer and the consumer make: a reconnect is disconnect() followed by *)
(* connect(), which is how both use connect() once they have a seed, and   *)
(* ensureConnected(), which the producer shares, never overlaps itself.    *)
(* MaxBrokers and MaxFaults bound the brokers made and the failures.       *)
(***************************************************************************)
EXTENDS Naturals, FiniteSets, Functions

CONSTANTS Calls, Nodes, MaxBrokers, MaxFaults

ASSUME BoundsAssumption == {MaxBrokers, MaxFaults} \subseteq Nat
ASSUME NodesAssumption == Nodes # {}

VARIABLES
    op,         \* op[c]: what c has called
    pc,         \* pc[c]: where c is
    target,     \* target[c]: the node of sendRequestToNode
    making,     \* making[c]: the broker c waits for in broker.connect()
    waits,      \* waits[c]: the brokers c reconnects in ensureConnected()
    held,       \* held[c]: the generation of brokerById that c assigns to
    used,       \* used[c]: the broker that got the request of c
    seed,       \* this.seedBroker
    brokerById, \* this.brokerById
    generation, \* how often connect() has replaced brokerById
    known,      \* whether brokerMetadata has been received
    sock,       \* sock[b]: the socket and the handshake of broker b
    faults,     \* what is left of MaxFaults
    met,        \* history: met[c], the calls that ran while c ran
    by          \* history: by[b], the calls that made and reconnected b

callVars == <<op, target, held>>
clusterVars == <<seed, brokerById, generation, known>>
vars == <<callVars, pc, making, waits, used, clusterVars, sock, faults, met, by>>

Brokers == 1..MaxBrokers
Ops == {"none", "reconnect", "ensureConnected", "disconnect", "setSeedBroker",
        "sendRequestToNode"}
Stages == {"new", "seeking", "metadata", "ensuring", "acquiring",
           "resolved", "rejected", "undefined"}
Sockets == {"none", "opening", "handshake", "up", "refused", "stranded",
            "deaf", "ended", "closed"}

Running(c) == pc[c] \in {"seeking", "metadata", "ensuring", "acquiring"}
Made == {b \in Brokers : sock[b] # "none"}
Known == ({seed} \cup Range(brokerById)) \ {0}

TypeOK ==
    /\ op \in [Calls -> Ops]
    /\ pc \in [Calls -> Stages]
    /\ target \in [Calls -> Nodes]
    /\ making \in [Calls -> 0..MaxBrokers] /\ used \in [Calls -> 0..MaxBrokers]
    /\ waits \in [Calls -> SUBSET Brokers]
    /\ held \in [Calls -> Nat]
    /\ seed \in 0..MaxBrokers
    /\ brokerById \in [Nodes -> 0..MaxBrokers]
    /\ generation \in Nat
    /\ known \in BOOLEAN
    /\ sock \in [Brokers -> Sockets]
    /\ faults \in 0..MaxFaults
    /\ met \in [Calls -> SUBSET Calls]
    /\ by \in [Brokers -> SUBSET Calls]

Init ==
    /\ op = [c \in Calls |-> "none"]
    /\ target = [c \in Calls |-> CHOOSE n \in Nodes : TRUE]
    /\ pc = [c \in Calls |-> "new"]
    /\ making = [c \in Calls |-> 0] /\ used = [c \in Calls |-> 0]
    /\ waits = [c \in Calls |-> {}]
    /\ held = [c \in Calls |-> 0]
    /\ seed = 0 /\ generation = 0 /\ known = FALSE
    /\ brokerById = [n \in Nodes |-> 0]
    /\ sock = [b \in Brokers |-> "none"]
    /\ faults = MaxFaults
    /\ met = [c \in Calls |-> {}]
    /\ by = [b \in Brokers |-> {}]

\* c calls o and meets the calls that run already.
Begins(c, o) ==
    LET others == {d \in Calls \ {c} : Running(d)}
    IN  /\ pc[c] = "new"
        /\ op' = [op EXCEPT ![c] = o]
        /\ met' = [d \in Calls |-> IF d = c THEN others
                                   ELSE IF d \in others THEN met[d] \cup {c}
                                   ELSE met[d]]

-----------------------------------------------------------------------------
(* Brokers.                                                                *)

\* isConnected(): neither pending nor destroyed.
IsConnected(b) == sock[b] \in {"handshake", "up", "refused", "deaf", "ended"}

\* Mutant: only the seed broker is disconnected.
SeedDisconnected(s) ==
    [b \in Brokers |-> IF b # seed THEN s[b]
                       ELSE IF IsConnected(b) THEN "ended"
                       ELSE IF s[b] = "opening" THEN "stranded" ELSE s[b]]

(***************************************************************************)
(* disconnect() of the seed and of every broker of the table.  A connected *)
(* socket is ended; one that is opening loses its listeners, so that the   *)
(* connect() that waits for it never ends.                                 *)
(***************************************************************************)
Disconnected(s) ==
    [b \in Brokers |-> IF b \notin Known THEN s[b]
                       ELSE IF IsConnected(b) THEN "ended"
                       ELSE IF s[b] = "opening" THEN "stranded" ELSE s[b]]

\* new Broker(...) and its connect(), awaited by c; s are the other sockets.
MakeBroker(c, s) ==
    LET b == Cardinality(Made) + 1
    IN  /\ b <= MaxBrokers
        /\ sock' = [s EXCEPT ![b] = "opening"]
        /\ making' = [making EXCEPT ![c] = b]
        /\ by' = [by EXCEPT ![b] = {c}]

SocketOpens(b) ==
    /\ sock[b] \in {"opening", "stranded"}
    /\ sock' = [sock EXCEPT ![b] = IF @ = "opening" THEN "handshake" ELSE "deaf"]
    /\ UNCHANGED <<callVars, pc, making, waits, used, clusterVars, faults, met, by>>

\* ApiVersions and SASL are done: broker.connect() resolves.
HandshakeEnds(b) ==
    /\ sock[b] = "handshake"
    /\ sock' = [sock EXCEPT ![b] = "up"]
    /\ waits' = [c \in Calls |-> waits[c] \ {b}]
    /\ UNCHANGED <<callVars, pc, making, used, clusterVars, faults, met, by>>

(***************************************************************************)
(* A version or a credential is refused, or the answer times out:          *)
(* broker.connect() rejects and leaves its socket open.                    *)
(***************************************************************************)
HandshakeFails(b) ==
    /\ faults > 0
    /\ faults' = faults - 1
    /\ sock[b] = "handshake"
    /\ sock' = [sock EXCEPT ![b] = "refused"]
    /\ UNCHANGED <<callVars, pc, making, waits, used, clusterVars, met, by>>

\* The socket cannot be opened, or breaks.
SocketFails(b) ==
    /\ faults > 0
    /\ faults' = faults - 1
    /\ sock[b] \in {"opening", "handshake", "up", "stranded", "deaf", "refused"}
    /\ sock' = [sock EXCEPT ![b] = "closed"]
    /\ UNCHANGED <<callVars, pc, making, waits, used, clusterVars, met, by>>

\* The peer closes a socket we have ended.
SocketCloses(b) ==
    /\ sock[b] = "ended"
    /\ sock' = [sock EXCEPT ![b] = "closed"]
    /\ UNCHANGED <<callVars, pc, making, waits, used, clusterVars, faults, met, by>>

\* broker.connect() has rejected.
ConnectRejects(b) == sock[b] \in {"refused", "ended", "closed"}

-----------------------------------------------------------------------------
(* connect(): a seed broker, an empty table, the brokers of the cluster.   *)

Reconnect(c) ==
    /\ Begins(c, "reconnect")
    /\ MakeBroker(c, Disconnected(sock))
    /\ pc' = [pc EXCEPT ![c] = "seeking"]
    /\ UNCHANGED <<target, held, waits, used, clusterVars, faults>>

\* Mutant: the handshake of a bootstrap server is outside of the try.
SeedUnreachable(c) ==
    /\ pc[c] = "seeking"
    /\ sock[making[c]] = "closed"
    /\ \/ MakeBroker(c, sock) /\ UNCHANGED pc
       \/ pc' = [pc EXCEPT ![c] = "rejected"] /\ UNCHANGED <<sock, making, by>>
    /\ UNCHANGED <<callVars, waits, used, clusterVars, faults, met>>

\* findSeedBroker() tries the next bootstrap server, or there is none left.
SeedFails(c) ==
    /\ pc[c] = "seeking"
    /\ ConnectRejects(making[c])
    /\ \/ MakeBroker(c, sock) /\ UNCHANGED pc
       \/ pc' = [pc EXCEPT ![c] = "rejected"] /\ UNCHANGED <<sock, making, by>>
    /\ UNCHANGED <<callVars, waits, used, clusterVars, faults, met>>

\* Mutant: the table that replaces the old one has no room for the nodes.
SeedFoundNoTable(c) ==
    /\ pc[c] = "seeking" /\ sock[making[c]] = "up"
    /\ pc' = [pc EXCEPT ![c] = "metadata"]
    /\ seed' = making[c]
    /\ brokerById' = [n \in {} |-> 0]
    /\ generation' = generation + 1
    /\ UNCHANGED <<callVars, making, waits, used, known, sock, faults, met, by>>

\* The seed and the table are replaced, whatever is in them by now.
SeedFound(c) ==
    /\ pc[c] = "seeking"
    /\ sock[making[c]] = "up"
    /\ pc' = [pc EXCEPT ![c] = "metadata"]
    /\ seed' = making[c]
    /\ brokerById' = [n \in Nodes |-> 0]
    /\ generation' = generation + 1
    /\ UNCHANGED <<callVars, making, waits, used, known, sock, faults, met, by>>

MetadataArrives(c) ==
    /\ pc[c] = "metadata"
    /\ sock[making[c]] = "up"
    /\ known' = TRUE
    /\ pc' = [pc EXCEPT ![c] = "resolved"]
    /\ UNCHANGED <<callVars, making, waits, used, seed, brokerById, generation,
                   sock, faults, met, by>>

\* The connection breaks or is ended by another call: the request rejects.
MetadataFails(c) ==
    /\ pc[c] = "metadata"
    /\ sock[making[c]] # "up"
    /\ pc' = [pc EXCEPT ![c] = "rejected"]
    /\ UNCHANGED <<callVars, making, waits, used, clusterVars, sock, faults, met,
                   by>>

-----------------------------------------------------------------------------
(* ensureConnected() and disconnect().                                     *)

\* Without a seed it is connect(); otherwise broken brokers reconnect in place.
EnsureConnected(c) ==
    LET broken == {b \in Known : ~IsConnected(b)}
    IN  /\ Begins(c, "ensureConnected")
        /\ \A d \in Calls : op[d] = "ensureConnected" => ~Running(d)
        /\ IF seed = 0
           THEN /\ MakeBroker(c, sock)
                /\ pc' = [pc EXCEPT ![c] = "seeking"]
                /\ UNCHANGED waits
           ELSE /\ pc' = [pc EXCEPT ![c] = "ensuring"]
                /\ waits' = [waits EXCEPT ![c] = broken]
                /\ sock' = [b \in Brokers |-> IF b \in broken THEN "opening" ELSE sock[b]]
                /\ by' = [b \in Brokers |-> IF b \in broken THEN by[b] \cup {c}
                                                            ELSE by[b]]
                /\ UNCHANGED making
        /\ UNCHANGED <<target, held, used, clusterVars, faults>>

EnsureSucceeds(c) ==
    /\ pc[c] = "ensuring"
    /\ waits[c] = {}
    /\ pc' = [pc EXCEPT ![c] = "resolved"]
    /\ UNCHANGED <<callVars, making, waits, used, clusterVars, sock, faults, met,
                   by>>

\* The first broker that fails: disconnect() and connect().
EnsureFails(c) ==
    /\ pc[c] = "ensuring"
    /\ \E b \in waits[c] : ConnectRejects(b)
    /\ MakeBroker(c, Disconnected(sock))
    /\ pc' = [pc EXCEPT ![c] = "seeking"]
    /\ waits' = [waits EXCEPT ![c] = {}]
    /\ UNCHANGED <<callVars, used, clusterVars, faults, met>>

Disconnect(c) ==
    /\ Begins(c, "disconnect")
    /\ sock' = Disconnected(sock)
    /\ pc' = [pc EXCEPT ![c] = "resolved"]
    /\ UNCHANGED <<target, held, making, waits, used, clusterVars, faults, by>>

-----------------------------------------------------------------------------
(* sendRequestToNode() and setSeedBroker().                                *)

\* The seed is disconnected, then acquireBroker() makes the one of the node.
SetSeedBroker(c) ==
    LET left == [sock EXCEPT ![seed] = IF IsConnected(seed) THEN "ended"
                                       ELSE IF @ = "opening" THEN "stranded" ELSE @]
    IN  /\ Begins(c, "setSeedBroker")
        /\ seed # 0
        /\ IF known
           THEN MakeBroker(c, left) /\ pc' = [pc EXCEPT ![c] = "acquiring"]
           ELSE /\ sock' = left
                /\ pc' = [pc EXCEPT ![c] = "rejected"]
                /\ UNCHANGED <<making, by>>
        /\ UNCHANGED <<target, held, waits, used, clusterVars, faults>>

(***************************************************************************)
(* The broker of the table gets the request at once, or one is acquired:   *)
(* the table it will be assigned to is the one of now.                     *)
(***************************************************************************)
SendRequestToNode(c, n) ==
    LET b == brokerById[n]
    IN  /\ Begins(c, "sendRequestToNode")
        /\ target' = [target EXCEPT ![c] = n]
        /\ \/ b # 0 /\ used' = [used EXCEPT ![c] = b]
              /\ pc' = [pc EXCEPT ![c] = "resolved"]
              /\ UNCHANGED <<held, sock, making, by>>
           \/ b = 0 /\ ~known
              /\ pc' = [pc EXCEPT ![c] = "rejected"]
              /\ UNCHANGED <<used, held, sock, making, by>>
           \/ b = 0 /\ known
              /\ MakeBroker(c, sock)
              /\ held' = [held EXCEPT ![c] = generation]
              /\ pc' = [pc EXCEPT ![c] = "acquiring"]
              /\ UNCHANGED used
        /\ UNCHANGED <<waits, clusterVars, faults>>

\* Mutant: acquireBroker() does not wait for the handshake.
AcquiredEarly(c) ==
    /\ pc[c] = "acquiring"
    /\ sock[making[c]] \in {"handshake", "up"}

\* acquireBroker() returns.
Acquired(c) ==
    /\ pc[c] = "acquiring"
    /\ sock[making[c]] = "up"

AcquireFails(c) ==
    /\ pc[c] = "acquiring"
    /\ ConnectRejects(making[c])
    /\ pc' = [pc EXCEPT ![c] = "rejected"]
    /\ UNCHANGED <<callVars, making, waits, used, clusterVars, sock, faults, met,
                   by>>

SeedAcquired(c) ==
    /\ op[c] = "setSeedBroker"
    /\ Acquired(c)
    /\ seed' = making[c]
    /\ pc' = [pc EXCEPT ![c] = "resolved"]
    /\ UNCHANGED <<callVars, making, waits, used, brokerById, generation, known,
                   sock, faults, met, by>>

\* Mutant: the broker is not kept.
TableAfterNothing(c) == brokerById

\* The assignment is lost if connect() has replaced the table in between.
TableAfter(c) ==
    IF held[c] = generation THEN [brokerById EXCEPT ![target[c]] = making[c]]
                            ELSE brokerById

\* The request goes to the broker that the current table has: maybe none.
NodeAcquired(c) ==
    LET b == TableAfter(c)[target[c]]
    IN  /\ op[c] = "sendRequestToNode"
        /\ Acquired(c)
        /\ brokerById' = TableAfter(c)
        /\ used' = [used EXCEPT ![c] = b]
        /\ pc' = [pc EXCEPT ![c] = IF b = 0 THEN "undefined" ELSE "resolved"]
        /\ UNCHANGED <<callVars, making, waits, seed, generation, known, sock,
                       faults, met, by>>

-----------------------------------------------------------------------------

Next ==
    \/ \E b \in Brokers :
          \/ SocketOpens(b) \/ SocketFails(b) \/ SocketCloses(b)
          \/ HandshakeEnds(b) \/ HandshakeFails(b)
    \/ \E c \in Calls :
          \/ Reconnect(c) \/ SeedFails(c) \/ SeedFound(c)
          \/ MetadataArrives(c) \/ MetadataFails(c)
          \/ EnsureConnected(c) \/ EnsureSucceeds(c) \/ EnsureFails(c)
          \/ Disconnect(c) \/ SetSeedBroker(c)
          \/ \E n \in Nodes : SendRequestToNode(c, n)
          \/ AcquireFails(c) \/ SeedAcquired(c) \/ NodeAcquired(c)

(***************************************************************************)
(* A socket opens or fails, a handshake is answered or times out, and      *)
(* continuations run.                                                      *)
(***************************************************************************)
Fairness ==
    /\ \A b \in Brokers : WF_vars(SocketOpens(b)) /\ WF_vars(HandshakeEnds(b))
    /\ \A c \in Calls :
          /\ WF_vars(SeedFails(c)) /\ WF_vars(SeedFound(c))
          /\ WF_vars(MetadataArrives(c)) /\ WF_vars(MetadataFails(c))
          /\ WF_vars(EnsureSucceeds(c)) /\ WF_vars(EnsureFails(c))
          /\ WF_vars(AcquireFails(c)) /\ WF_vars(SeedAcquired(c))
          /\ WF_vars(NodeAcquired(c))

Spec == Init /\ [][Next]_vars

FairSpec == Spec /\ Fairness

-----------------------------------------------------------------------------

\* An open socket that no call and no field of the cluster refers to.
Leaked(b) ==
    /\ sock[b] \in {"handshake", "up", "refused", "deaf"}
    /\ b \notin Known
    /\ \A c \in Calls : Running(c) => b # making[c] /\ b \notin waits[c]

(***************************************************************************)
(* An open connection is lost sight of only if its handshake failed, if    *)
(* a disconnect() met it while ensureConnected() was opening it (it takes  *)
(* the listeners and the socket opens all the same), or if a call that     *)
(* made or reconnected it met one that replaced the seed or the table, or  *)
(* that acquired a broker for the same node.  Calls that do not overlap    *)
(* leak no connection that works.                                          *)
(***************************************************************************)
LeakExplained ==
    \A b \in Made : Leaked(b) =>
        \/ sock[b] = "refused"
        \/ \E c \in by[b] :
              \/ sock[b] = "deaf" /\ op[c] = "ensureConnected"
              \/ \E d \in met[c] :
                    \/ op[d] \in {"reconnect", "ensureConnected", "setSeedBroker"}
                    \/ op[d] = op[c] /\ target[d] = target[c]

(***************************************************************************)
(* sendRequestToNode() finds no broker in the table, right after putting   *)
(* one there, only if a connect() replaced the table while it waited.      *)
(***************************************************************************)
UndefinedExplained ==
    \A c \in Calls : pc[c] = "undefined" =>
        /\ held[c] # generation
        /\ \E d \in met[c] : op[d] \in {"reconnect", "ensureConnected"}

(***************************************************************************)
(* A request for a node is handed over only to a broker whose handshake is *)
(* done, except to one that ensureConnected() was reconnecting in place.   *)
(***************************************************************************)
RequestsFollowHandshake ==
    [][\A c \in Calls : used'[c] # used[c] /\ used'[c] # 0 =>
          \/ sock[used'[c]] \in {"up", "ended", "closed"}
          \/ \E d \in by[used'[c]] : op[d] = "ensureConnected"]_vars

\* c waits for a socket whose listeners a disconnect has taken away.
Stranded(c) == \E b \in waits[c] : sock[b] \in {"stranded", "deaf"}

(***************************************************************************)
(* Every call settles, whatever breaks and whoever disconnects, except an  *)
(* ensureConnected() whose reconnecting broker another call disconnects.   *)
(* (The last case is the bound: no broker is left for its connect().)      *)
(***************************************************************************)
CallSettles ==
    \A c \in Calls : Running(c) ~>
        \/ ~Running(c) \/ Stranded(c)
        \/ pc[c] = "ensuring" /\ Cardinality(Made) = MaxBrokers
=============================================================================
