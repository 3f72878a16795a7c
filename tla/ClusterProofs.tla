---------------------------- MODULE ClusterProofs ----------------------------
(***************************************************************************)
(* What TLC checks of Cluster on three calls, proved for every set of      *)
(* calls and of nodes and every number of brokers and of failures.         *)
(***************************************************************************)
EXTENDS Cluster, FiniteSetTheorems, TLAPS

-----------------------------------------------------------------------------
(* The inductive invariant.                                                *)

\* d is one of the calls that replace the table of brokers.
Connects(d) == op[d] \in {"reconnect", "ensureConnected"}

(***************************************************************************)
(* Brokers are numbered without gaps, so that a new one is none of those   *)
(* the cluster or a call refers to.                                        *)
(***************************************************************************)
Numbered == \E k \in Nat : Made = 1..k

\* Only calls that have begun are in the histories.
HistoryBegun ==
    /\ \A b \in Brokers : \A c \in by[b] : pc[c] # "new"
    /\ \A c \in Calls : \A d \in met[c] : pc[d] # "new"

\* Calls that run at the same time have met each other.
RunningMeet ==
    \A c, d \in Calls : c # d /\ Running(c) /\ Running(d) => d \in met[c]

\* Where each operation can be.
StagesOfOps ==
    \A c \in Calls :
        /\ pc[c] \in {"seeking", "metadata"} => Connects(c)
        /\ pc[c] = "ensuring" => op[c] = "ensureConnected"
        /\ pc[c] = "acquiring" => op[c] \in {"setSeedBroker", "sendRequestToNode"}
        /\ pc[c] = "undefined" => op[c] = "sendRequestToNode"

\* A call waits for a broker that it has made.
MakersKnown ==
    \A c \in Calls : pc[c] \in {"seeking", "metadata", "acquiring"} =>
        making[c] \in Made /\ c \in by[making[c]]

\* What the cluster refers to exists, and there is nothing before a seed.
KnownMade ==
    /\ Known \subseteq Made
    /\ seed = 0 => /\ ~known /\ Known = {}
                   /\ \A c \in Calls : pc[c] \notin {"metadata", "acquiring"}

\* A connection of the cluster was up, or ensureConnected() has reopened it.
KnownSettled ==
    \A b \in Known : \/ sock[b] \in {"up", "ended", "closed"}
                     \/ \E d \in by[b] : op[d] = "ensureConnected"

\* A sendRequestToNode() whose table is gone has met the connect().
GenerationsExplained ==
    \A c \in Calls :
        /\ held[c] <= generation
        /\ pc[c] \in {"acquiring", "undefined"} /\ op[c] = "sendRequestToNode"
           /\ held[c] # generation => \E d \in met[c] : Connects(d)
        /\ pc[c] = "undefined" => held[c] # generation

\* b has been disconnected for c, or a call that connected b has met c.
Parted(c, b) ==
    \/ sock[b] \in {"stranded", "deaf", "ended", "closed"}
    \/ \E m \in by[b] : c \in met[m]

\* What a call is about to replace has been disconnected, or was put there since.
ReplacersDisconnect ==
    \A c \in Calls :
        /\ pc[c] = "seeking" => \A b \in Known : Parted(c, b)
        /\ pc[c] = "acquiring" /\ op[c] = "setSeedBroker" => Parted(c, seed)

\* A node's entry that was filled since c saw it empty is of a call c has met.
FillersMeet ==
    \A c \in Calls :
        pc[c] = "acquiring" /\ op[c] = "sendRequestToNode" /\ held[c] = generation
          => LET b == brokerById[target[c]]
             IN  \/ b = 0
                 \/ \E m \in by[b] : /\ c \in met[m] /\ op[m] = op[c]
                                     /\ target[m] = target[c]

\* Why a broker that nobody refers to is open.
Explained(b) ==
    \E c \in by[b] :
        \/ sock[b] \in {"stranded", "deaf"} /\ op[c] = "ensureConnected"
        \/ \E d \in met[c] : \/ Connects(d) \/ op[d] = "setSeedBroker"
                             \/ op[d] = op[c] /\ target[d] = target[c]

\* Every broker is over, referred to, about to be, or lost with an explanation.
Accounted ==
    \A b \in Made :
        \/ sock[b] \in {"refused", "ended", "closed"}
        \/ b \in Known
        \/ \E c \in Calls : pc[c] \in {"seeking", "acquiring"} /\ making[c] = b
        \/ Explained(b)

ClusterInv ==
    /\ TypeOK /\ Numbered /\ HistoryBegun /\ RunningMeet /\ StagesOfOps
    /\ MakersKnown /\ KnownMade /\ KnownSettled /\ GenerationsExplained
    /\ ReplacersDisconnect /\ FillersMeet /\ Accounted

-----------------------------------------------------------------------------
(* Lemmas about the operators.                                             *)

\* What the cluster refers to: the seed and the brokers of the table.
LEMMA KnownBrokers ==
    ASSUME TypeOK
    PROVE  /\ Known \subseteq Brokers
           /\ seed # 0 => seed \in Known
           /\ \A n \in Nodes : brokerById[n] # 0 => brokerById[n] \in Known
           /\ \A b \in Known : b = seed \/ \E n \in Nodes : brokerById[n] = b
  BY BoundsAssumption DEF TypeOK, Known, Range, Brokers

\* The broker that is made next is a new one.
LEMMA NewBroker ==
    ASSUME TypeOK, Numbered, NEW c \in Calls, NEW s \in [Brokers -> Sockets],
           \A b \in Brokers : s[b] = "none" <=> sock[b] = "none",
           MakeBroker(c, s)
    PROVE  \E b \in Brokers :
              /\ b \notin Made
              /\ making' = [making EXCEPT ![c] = b]
              /\ sock' = [s EXCEPT ![b] = "opening"]
              /\ by' = [by EXCEPT ![b] = {c}]
              /\ Made' = Made \cup {b}
              /\ Numbered'
<1>1. PICK k \in Nat : Made = 1..k
  BY DEF Numbered
<1>2. Cardinality(Made) = k
  BY <1>1, FS_Interval
<1> DEFINE b == k + 1
<1>3. b \in Brokers /\ b \notin Made
  BY <1>1, <1>2, BoundsAssumption DEF MakeBroker, Brokers
<1>4. /\ making' = [making EXCEPT ![c] = b]
      /\ sock' = [s EXCEPT ![b] = "opening"]
      /\ by' = [by EXCEPT ![b] = {c}]
  BY <1>2 DEF MakeBroker
<1>5. Made' = Made \cup {b}
  BY <1>3, <1>4 DEF Made, Sockets
<1>6. Made' = 1..(k + 1)
  BY <1>1, <1>5
<1>7. Numbered'
  BY <1>6 DEF Numbered
<1> QED
  BY <1>3, <1>4, <1>5, <1>7

\* disconnect() ends what is connected, strands what is opening.
LEMMA DisconnectedSockets ==
    ASSUME TypeOK
    PROVE  /\ Disconnected(sock) \in [Brokers -> Sockets]
           /\ \A b \in Brokers :
                 /\ Disconnected(sock)[b] = "none" <=> sock[b] = "none"
                 /\ b \notin Known => Disconnected(sock)[b] = sock[b]
                 /\ b \in Known /\ sock[b] # "none" =>
                       Disconnected(sock)[b] \in {"ended", "stranded", "closed"}
                 /\ Disconnected(sock)[b] \notin {"stranded"} \cup {sock[b]} =>
                       Disconnected(sock)[b] = "ended"
                 /\ Disconnected(sock)[b] = "stranded" =>
                       sock[b] \in {"opening", "stranded"}
  BY DEF TypeOK, Disconnected, IsConnected, Sockets

\* A call that begins meets those that run.
LEMMA BeginsEffect ==
    ASSUME TypeOK, HistoryBegun, NEW c \in Calls, NEW o, Begins(c, o)
    PROVE  /\ pc[c] = "new" /\ ~Running(c)
           /\ o \in Ops => op' \in [Calls -> Ops]
           /\ met' \in [Calls -> SUBSET Calls]
           /\ op'[c] = o /\ \A d \in Calls \ {c} : op'[d] = op[d]
           /\ \A d \in Calls : \/ met[d] \subseteq met'[d] /\ met'[d] \subseteq met[d] \cup {c}
                              \/ d = c
           /\ \A d \in Calls \ {c} : Running(d) => d \in met'[c] /\ c \in met'[d]
           /\ \A d \in met'[c] : Running(d)
           /\ \A b \in Brokers : c \notin by[b]
           /\ \A d \in Calls : c \notin met[d]
  BY DEF TypeOK, HistoryBegun, Begins, Running, Ops

\* setSeedBroker() disconnects the seed only.
LEMMA SeedSockets ==
    ASSUME TypeOK, seed # 0, NEW left,
           left = [sock EXCEPT ![seed] = IF IsConnected(seed) THEN "ended"
                                         ELSE IF @ = "opening" THEN "stranded" ELSE @]
    PROVE  /\ left \in [Brokers -> Sockets]
           /\ \A a \in Brokers : left[a] = IF a = seed THEN Disconnected(sock)[a] ELSE sock[a]
<1>1. seed \in Brokers /\ seed \in Known
  BY KnownBrokers
<1> QED
  BY <1>1 DEF TypeOK, Disconnected, IsConnected, Sockets

-----------------------------------------------------------------------------
LEMMA InitInv == Init => ClusterInv
<1> SUFFICES ASSUME Init PROVE ClusterInv
  OBVIOUS
<1>1. TypeOK
  <2>1. target \in [Calls -> Nodes]
    BY NodesAssumption DEF Init
  <2>2. faults \in 0..MaxFaults /\ seed \in 0..MaxBrokers
    BY BoundsAssumption DEF Init
  <2>3. /\ making \in [Calls -> 0..MaxBrokers] /\ used \in [Calls -> 0..MaxBrokers]
        /\ brokerById \in [Nodes -> 0..MaxBrokers]
    BY BoundsAssumption DEF Init
  <2> QED
    BY <2>1, <2>2, <2>3 DEF Init, TypeOK, Ops, Stages, Sockets
<1>2. Made = {} /\ Known = {}
  BY NodesAssumption DEF Init, Made, Known, Range
<1>3. Numbered
  <2>1. Made = 1..0
    BY <1>2
  <2> QED
    BY <2>1 DEF Numbered
<1> QED
  BY <1>1, <1>2, <1>3 DEF Init, ClusterInv, HistoryBegun, RunningMeet, Running, StagesOfOps,
     MakersKnown, KnownMade, KnownSettled, GenerationsExplained, ReplacersDisconnect,
     FillersMeet, Accounted
\* One connection changes; what is over stays over, and only an opening or a
\* stranded one comes up.
LEMMA SocketEffect ==
    ASSUME ClusterInv, NEW b \in Brokers,
           \/ SocketOpens(b) \/ SocketFails(b) \/ SocketCloses(b)
           \/ HandshakeEnds(b) \/ HandshakeFails(b)
    PROVE  /\ sock' \in [Brokers -> Sockets]
           /\ \A a \in Brokers : a # b => sock'[a] = sock[a]
           /\ Made' = Made /\ Known' = Known
           /\ sock[b] = "stranded" => sock'[b] \in {"deaf", "closed"}
           /\ sock[b] = "deaf" => sock'[b] = "closed"
           /\ sock[b] \in {"ended", "closed"} => sock'[b] = "closed"
           /\ sock[b] = "up" => sock'[b] = "closed"
           /\ sock[b] = "refused" => sock'[b] = "closed"
           /\ waits' \in [Calls -> SUBSET Brokers] /\ faults' \in 0..MaxFaults
           /\ UNCHANGED <<op, target, held, pc, making, used, seed, brokerById, generation,
                          known, met, by>>
  BY BoundsAssumption DEF ClusterInv, TypeOK, SocketOpens, SocketFails, SocketCloses,
     HandshakeEnds,
     HandshakeFails, callVars, clusterVars, Made, Known, Sockets

(* The events of a connection (its socket opens, fails or closes, the
   handshake ends or fails) keep the invariant: they touch that connection only. *)
LEMMA SocketStep ==
    ASSUME ClusterInv, NEW b \in Brokers,
           \/ SocketOpens(b) \/ SocketFails(b) \/ SocketCloses(b)
           \/ HandshakeEnds(b) \/ HandshakeFails(b)
    PROVE  ClusterInv'
<1> USE SocketEffect DEF ClusterInv
<1>1. \A a \in Brokers, c \in Calls : Parted(c, a) => Parted(c, a)'
  BY DEF Parted
<1>2. \A a \in Brokers : Explained(a) => Explained(a)' \/ sock'[a] = "closed"
  BY DEF Explained, Connects
<1>3. TypeOK'
  BY DEF TypeOK, Stages, Sockets, Ops
<1>4. Numbered'
  BY DEF Numbered, TypeOK
<1>5. HistoryBegun'
  BY DEF HistoryBegun, TypeOK
<1>6. RunningMeet'
  BY DEF RunningMeet, Running, TypeOK
<1>7. StagesOfOps'
  BY DEF StagesOfOps, Connects, TypeOK
<1>8. MakersKnown'
  BY DEF MakersKnown, TypeOK
<1>9. KnownMade'
  BY DEF KnownMade, TypeOK
<1>10. KnownSettled'
  BY KnownBrokers DEF KnownSettled
<1>11. GenerationsExplained'
  BY DEF GenerationsExplained, Connects, TypeOK
<1>12. ReplacersDisconnect'
  BY <1>1, KnownBrokers DEF ReplacersDisconnect, KnownMade
<1>13. FillersMeet'
  BY DEF FillersMeet, TypeOK
<1>14. Accounted'
  <2> SUFFICES ASSUME NEW a \in Made
               PROVE  \/ sock'[a] \in {"refused", "ended", "closed"}
                      \/ a \in Known
                      \/ \E c \in Calls : pc[c] \in {"seeking", "acquiring"} /\ making[c] = a
                      \/ Explained(a)'
    BY DEF Accounted
  <2>1. a \in Brokers
    BY DEF Made
  <2> QED
    BY <1>2, <2>1 DEF Accounted
<1> QED
  BY <1>3, <1>4, <1>5, <1>6, <1>7, <1>8, <1>9, <1>10, <1>11, <1>12, <1>13, <1>14

-----------------------------------------------------------------------------
(* Calls that begin.                                                       *)

\* What was recorded of the calls that made b stays, and explains what it did.
LEMMA BeginsKeeps ==
    ASSUME ClusterInv, NEW c \in Calls, NEW o, Begins(c, o),
           \A d \in Calls \ {c} : target'[d] = target[d],
           NEW b \in Made, by[b] \subseteq by'[b],
           sock[b] \in {"stranded", "deaf"} =>
               sock'[b] \in {"stranded", "deaf", "ended", "closed"},
           sock[b] \in {"ended", "closed"} => sock'[b] \in {"ended", "closed"}
    PROVE  /\ Explained(b) => Explained(b)' \/ sock'[b] \in {"ended", "closed"}
           /\ \A d \in Calls \ {c} : Parted(d, b) => Parted(d, b)'
           /\ \A d \in by[b] : d \in Calls /\ d # c /\ d \in by'[b] /\ op'[d] = op[d]
<1> USE DEF ClusterInv
<1>1. b \in Brokers
  BY DEF Made
<1>2. /\ pc[c] = "new"
      /\ \A d \in Calls : d # c => op'[d] = op[d] /\ met[d] \subseteq met'[d]
  BY BeginsEffect
<1>3. /\ \A d \in by[b] : d \in Calls /\ d # c
      /\ \A d \in Calls : \A e \in met[d] : e \in Calls /\ e # c
  BY <1>1, <1>2 DEF HistoryBegun, TypeOK
<1>4. Explained(b) => Explained(b)' \/ sock'[b] \in {"ended", "closed"}
  BY <1>2, <1>3 DEF Explained, Connects
<1>5. \A d \in Calls \ {c} : Parted(d, b) => Parted(d, b)'
  BY <1>2, <1>3 DEF Parted
<1> QED
  BY <1>2, <1>3, <1>4, <1>5

(* A cluster that reconnects after a failed send (producer.ts:133-138)
   closes all brokers it knows and opens a seed that nobody knows yet. *)
LEMMA ReconnectStep ==
    ASSUME ClusterInv, NEW c \in Calls, Reconnect(c)
    PROVE  ClusterInv'
<1> USE DEF ClusterInv
<1>1. PICK b \in Brokers :
         /\ b \notin Made /\ b \notin Known
         /\ making' = [making EXCEPT ![c] = b]
         /\ sock' = [Disconnected(sock) EXCEPT ![b] = "opening"]
         /\ by' = [by EXCEPT ![b] = {c}]
         /\ Made' = Made \cup {b} /\ Known' = Known /\ Numbered'
  BY NewBroker, DisconnectedSockets DEF Reconnect, KnownMade, Known, clusterVars
<1>2. /\ Begins(c, "reconnect") /\ pc' = [pc EXCEPT ![c] = "seeking"]
      /\ UNCHANGED <<target, held, waits, used, seed, brokerById, generation, known, faults>>
  BY DEF Reconnect, clusterVars
<1>3. /\ pc[c] = "new" /\ met' \in [Calls -> SUBSET Calls] /\ op' \in [Calls -> Ops]
      /\ op'[c] = "reconnect" /\ \A d \in Calls : d # c => op'[d] = op[d]
      /\ \A d \in Calls : d # c => met[d] \subseteq met'[d] /\ met'[d] \subseteq met[d] \cup {c}
      /\ \A d \in Calls \ {c} : Running(d) => d \in met'[c] /\ c \in met'[d]
      /\ \A d \in met'[c] : Running(d)
  BY <1>2, BeginsEffect DEF Ops, TypeOK
<1>4. /\ \A a \in Brokers : \A d \in by[a] : d \in Calls /\ d # c /\ pc[d] # "new" /\ op'[d] = op[d]
      /\ \A d \in Calls : \A e \in met[d] : e \in Calls /\ e # c /\ pc[e] # "new" /\ op'[e] = op[e]
  BY <1>3 DEF HistoryBegun, TypeOK
<1>5. \A a \in Made :
         /\ Explained(a) => Explained(a)' \/ sock'[a] \in {"ended", "closed"}
         /\ \A d \in Calls \ {c} : Parted(d, a) => Parted(d, a)'
  <2> SUFFICES ASSUME NEW a \in Made
               PROVE  /\ Explained(a) => Explained(a)' \/ sock'[a] \in {"ended", "closed"}
                      /\ \A d \in Calls \ {c} : Parted(d, a) => Parted(d, a)'
    OBVIOUS
  <2>1. a \in Brokers /\ by[a] \subseteq by'[a]
    BY <1>1, <1>2 DEF Made, TypeOK
  <2>2. /\ sock[a] \in {"stranded", "deaf"} =>
              sock'[a] \in {"stranded", "deaf", "ended", "closed"}
        /\ sock[a] \in {"ended", "closed"} => sock'[a] \in {"ended", "closed"}
    BY <1>1, <1>2, <2>1, KnownBrokers, DisconnectedSockets
  <2>3. \A d \in Calls \ {c} : target'[d] = target[d]
    BY <1>2 DEF TypeOK
  <2> QED
    BY <1>2, <2>1, <2>2, <2>3, BeginsKeeps
<1>10. TypeOK'
  <2>1. /\ sock' \in [Brokers -> Sockets] /\ pc' \in [Calls -> Stages]
        /\ by' \in [Brokers -> SUBSET Calls]
    BY <1>1, <1>2, DisconnectedSockets DEF TypeOK, Sockets, Stages
  <2>2. making' \in [Calls -> 0..MaxBrokers] /\ held' \in [Calls -> Nat]
    BY <1>1, <1>2, BoundsAssumption DEF TypeOK, Brokers
  <2> QED
    BY <1>2, <1>3, <2>1, <2>2 DEF TypeOK
<1>11. Numbered'
  BY <1>1, <1>2, <1>3, <1>4, KnownBrokers DEF Running, Numbered, TypeOK
<1>12. HistoryBegun'
  <2>1. \A d \in Calls : pc'[d] # "new" <=> pc[d] # "new" \/ d = c
    BY <1>2, <1>3 DEF TypeOK
  <2>2. \A a \in Brokers : \A d \in by'[a] : d \in by[a] \/ d = c
    BY <1>1, <1>2 DEF TypeOK
  <2>3. \A a \in Brokers : \A d \in by'[a] : d \in Calls /\ pc'[d] # "new"
    BY <1>4, <2>1, <2>2
  <2>4. \A d \in Calls : \A e \in met'[d] : pc'[e] # "new"
    BY <1>3, <1>4, <2>1 DEF Running
  <2> QED
    BY <2>3, <2>4 DEF HistoryBegun
<1>13. RunningMeet'
  BY <1>1, <1>2, <1>3, <1>4, KnownBrokers DEF Running, RunningMeet, Running, TypeOK
<1>14. StagesOfOps'
  BY <1>1, <1>2, <1>3, <1>4, KnownBrokers DEF Running, StagesOfOps, Connects, TypeOK
<1>15. MakersKnown'
  BY <1>1, <1>2, <1>3, <1>4, KnownBrokers DEF Running, MakersKnown, TypeOK
<1>16. KnownMade'
  BY <1>1, <1>2, <1>3, <1>4, KnownBrokers DEF Running, KnownMade, TypeOK
<1>17. KnownSettled'
  <2> SUFFICES ASSUME NEW a \in Known
               PROVE  \/ sock'[a] \in {"up", "ended", "closed"}
                      \/ \E d \in by'[a] : op'[d] = "ensureConnected"
    BY <1>1 DEF KnownSettled
  <2>1. a \in Brokers /\ a # b /\ a \in Made
    BY <1>1, KnownBrokers DEF KnownMade
  <2>2. by'[a] = by[a] /\ sock'[a] \in {sock[a], Disconnected(sock)[a]}
    BY <1>1, <1>2, <2>1 DEF TypeOK
  <2>3. \/ sock[a] \in {"up", "ended", "closed"}
        \/ \E d \in by[a] : op[d] = "ensureConnected"
    BY DEF KnownSettled
  <2>4. sock'[a] = sock[a] \/ sock'[a] = "ended" \/ sock'[a] = "stranded"
    BY <2>1, <2>2, DisconnectedSockets
  <2>5. sock'[a] = "stranded" => sock[a] \in {"opening", "stranded"}
    BY <2>1, <2>2, DisconnectedSockets
  <2> QED
    BY <1>4, <2>1, <2>2, <2>3, <2>4, <2>5 DEF HistoryBegun
<1>18. GenerationsExplained'
  BY <1>2, <1>3, <1>4 DEF GenerationsExplained, Connects, TypeOK
<1>19. ReplacersDisconnect'
  <2>1. ASSUME NEW d \in Calls, pc'[d] = "seeking", NEW a \in Known
        PROVE  Parted(d, a)'
    <3>1. a \in Made /\ a \in Brokers
      BY KnownBrokers DEF KnownMade
    <3>2. CASE d = c
      BY <1>1, <1>2, <3>1, <3>2, DisconnectedSockets DEF Parted, Made
    <3>3. CASE d # c
      BY <1>2, <1>5, <2>1, <3>1, <3>3 DEF ReplacersDisconnect, TypeOK
    <3> QED
      BY <3>2, <3>3
  <2>2. ASSUME NEW d \in Calls, pc'[d] = "acquiring", op'[d] = "setSeedBroker"
        PROVE  Parted(d, seed)'
    <3>1. CASE d = c
      BY <1>1, <1>2, <1>3, <2>2, <3>1 DEF TypeOK
    <3>2. CASE d # c
      <4>1. seed \in Made /\ seed \in Brokers /\ Parted(d, seed)
        BY <1>2, <1>3, <2>2, <3>2, KnownBrokers DEF ReplacersDisconnect, KnownMade, TypeOK
      <4> QED
        BY <1>2, <1>5, <3>2, <4>1 DEF Parted
    <3> QED
      BY <3>1, <3>2
  <2> QED
    BY <1>1, <2>1, <2>2 DEF ReplacersDisconnect
<1>20. FillersMeet'
  <2> SUFFICES ASSUME NEW d \in Calls, pc'[d] = "acquiring", op'[d] = "sendRequestToNode",
                      held'[d] = generation', brokerById[target[d]] # 0
               PROVE  \E e \in by'[brokerById[target[d]]] :
                         d \in met'[e] /\ op'[e] = op'[d] /\ target[e] = target[d]
    BY <1>2 DEF FillersMeet
  <2>1. /\ d # c /\ pc[d] = "acquiring" /\ op[d] = "sendRequestToNode" /\ op'[d] = op[d]
        /\ held[d] = generation
    BY <1>2, <1>3 DEF TypeOK
  <2>2. PICK a \in Known : a = brokerById[target[d]]
    BY KnownBrokers DEF TypeOK
  <2>3. PICK e \in by[a] : d \in met[e] /\ op[e] = op[d] /\ target[e] = target[d]
    BY <2>1, <2>2 DEF FillersMeet
  <2>4. a \in Brokers /\ by'[a] = by[a]
    BY <1>1, KnownBrokers DEF TypeOK
  <2>5. e \in Calls /\ e # c /\ op'[e] = op[e] /\ d \in met'[e]
    BY <1>3, <1>4, <2>3, <2>4
  <2> QED
    BY <2>1, <2>2, <2>3, <2>4, <2>5
<1>21. Accounted'
  <2> SUFFICES ASSUME NEW a \in Made'
               PROVE  \/ sock'[a] \in {"refused", "ended", "closed"}
                      \/ a \in Known'
                      \/ \E d \in Calls : pc'[d] \in {"seeking", "acquiring"} /\ making'[d] = a
                      \/ Explained(a)'
    BY DEF Accounted
  <2>1. CASE a = b
    BY <1>1, <1>2, <2>1 DEF TypeOK
  <2>2. CASE a \in Made
    <3>1. a \in Brokers
      BY <2>2 DEF Made
    <3>2. \A d \in Calls : pc[d] \in {"seeking", "acquiring"} =>
             pc'[d] = pc[d] /\ making'[d] = making[d]
      BY <1>1, <1>2, <1>3 DEF TypeOK
    <3> QED
      BY <1>1, <1>2, <1>5, <2>2, <3>1, <3>2, DisconnectedSockets DEF Accounted
  <2> QED
    BY <1>1, <2>1, <2>2
<1> QED
  BY <1>10, <1>11, <1>12, <1>13, <1>14, <1>15, <1>16, <1>17, <1>18, <1>19, <1>20, <1>21

-----------------------------------------------------------------------------
(* connect()                                                               *)

\* findSeedBroker() tries another bootstrap server.
LEMMA SeedRetriesStep ==
    ASSUME ClusterInv, NEW c \in Calls, SeedFails(c), pc'[c] = "seeking"
    PROVE  ClusterInv'
<1> USE DEF ClusterInv
<1>2. /\ pc[c] = "seeking" /\ sock[making[c]] \in {"refused", "ended", "closed"}
      /\ MakeBroker(c, sock)
      /\ UNCHANGED <<pc, op, target, held, waits, used, seed, brokerById, generation,
                     known, faults, met>>
  BY DEF SeedFails, ConnectRejects, callVars, clusterVars, TypeOK
<1>1. PICK b \in Brokers :
         /\ b \notin Made /\ b \notin Known
         /\ making' = [making EXCEPT ![c] = b]
         /\ sock' = [sock EXCEPT ![b] = "opening"]
         /\ by' = [by EXCEPT ![b] = {c}]
         /\ Made' = Made \cup {b} /\ Known' = Known /\ Numbered'
  BY <1>2, NewBroker, DisconnectedSockets DEF KnownMade, Known, TypeOK
<1>3. \A a \in Made :
         /\ a \in Brokers /\ by'[a] = by[a]
         /\ sock'[a] = sock[a]
  BY <1>1 DEF Made, TypeOK
<1>4. \A a \in Made :
         /\ Explained(a) => Explained(a)' \/ sock'[a] \in {"ended", "closed"}
         /\ \A d \in Calls : Parted(d, a) => Parted(d, a)'
  BY <1>2, <1>3, DisconnectedSockets DEF Explained, Parted, Connects
<1>10. TypeOK'
  <2>1. /\ sock' \in [Brokers -> Sockets] /\ by' \in [Brokers -> SUBSET Calls]
    BY <1>1, DisconnectedSockets DEF TypeOK, Sockets
  <2>2. /\ making' \in [Calls -> 0..MaxBrokers] /\ pc' \in [Calls -> Stages]
        /\ waits' \in [Calls -> SUBSET Brokers]
    BY <1>1, <1>2, BoundsAssumption DEF TypeOK, Brokers, Stages
  <2> QED
    BY <1>2, <2>1, <2>2 DEF TypeOK
<1>11. Numbered'
  BY <1>1, <1>2, KnownBrokers DEF Running, Numbered, TypeOK
<1>12. HistoryBegun'
  BY <1>1, <1>2, KnownBrokers DEF Running, HistoryBegun, TypeOK
<1>13. RunningMeet'
  BY <1>1, <1>2, KnownBrokers DEF Running, RunningMeet, Running, TypeOK
<1>14. StagesOfOps'
  BY <1>1, <1>2, KnownBrokers DEF Running, StagesOfOps, Connects, TypeOK
<1>15. MakersKnown'
  BY <1>1, <1>2, KnownBrokers DEF Running, MakersKnown, TypeOK
<1>16. KnownMade'
  BY <1>1, <1>2, KnownBrokers DEF Running, KnownMade, TypeOK
<1>17. KnownSettled'
  <2>1. \A a \in Known : a \in Made
    BY DEF KnownMade
  <2> QED
    BY <1>1, <1>2, <1>3, <2>1, DisconnectedSockets DEF KnownSettled
<1>18. GenerationsExplained'
  BY <1>1, <1>2, KnownBrokers DEF Running, GenerationsExplained, Connects, TypeOK
<1>19. ReplacersDisconnect'
  <2>1. ASSUME NEW d \in Calls, pc'[d] = "seeking", NEW a \in Known
        PROVE  Parted(d, a)'
    <3>1. a \in Made
      BY DEF KnownMade
    <3> QED
      BY <1>2, <1>4, <2>1, <3>1 DEF ReplacersDisconnect
  <2>2. ASSUME NEW d \in Calls, pc'[d] = "acquiring", op'[d] = "setSeedBroker"
        PROVE  Parted(d, seed)'
    <3>1. pc[d] = "acquiring" /\ op[d] = "setSeedBroker"
      BY <1>2, <2>2 DEF TypeOK
    <3>2. seed \in Made /\ Parted(d, seed)
      BY <3>1, KnownBrokers DEF ReplacersDisconnect, KnownMade
    <3> QED
      BY <1>2, <1>4, <3>2 DEF Parted
  <2> QED
    BY <1>1, <2>1, <2>2 DEF ReplacersDisconnect
<1>20. FillersMeet'
  <2> SUFFICES ASSUME NEW d \in Calls, pc[d] = "acquiring", op[d] = "sendRequestToNode",
                      held[d] = generation
               PROVE  LET a == brokerById[target[d]]
                      IN  \/ a = 0
                          \/ \E e \in by'[a] : /\ d \in met[e] /\ op[e] = op[d]
                                               /\ target[e] = target[d]
    BY <1>2 DEF FillersMeet, TypeOK
  <2>1. brokerById[target[d]] # 0 => brokerById[target[d]] \in Made
    BY KnownBrokers DEF KnownMade, TypeOK
  <2> QED
    BY <1>3, <2>1 DEF FillersMeet
<1>21. Accounted'
  <2> SUFFICES ASSUME NEW a \in Made'
               PROVE  \/ sock'[a] \in {"refused", "ended", "closed"}
                      \/ a \in Known
                      \/ \E d \in Calls : pc'[d] \in {"seeking", "acquiring"} /\ making'[d] = a
                      \/ Explained(a)'
    BY <1>1 DEF Accounted
  <2>1. CASE a = b
    BY <1>1, <1>2, <2>1 DEF TypeOK
  <2>2. CASE a \in Made
    <3>1. \A d \in Calls : d # c /\ pc[d] \in {"seeking", "acquiring"} =>
             pc'[d] = pc[d] /\ making'[d] = making[d]
      BY <1>1, <1>2 DEF TypeOK
    <3>2. pc[c] \in {"seeking", "acquiring"} /\ making[c] = a =>
             sock[a] \in {"refused", "ended", "closed"}
      BY <1>2
    <3>3. a \notin Known /\ sock[a] \in {"refused", "ended", "closed"} => sock'[a] = sock[a]
      BY <1>3, <2>2, DisconnectedSockets
    <3> QED
      BY <1>4, <2>2, <3>1, <3>2, <3>3 DEF Accounted
  <2> QED
    BY <1>1, <2>1, <2>2
<1> QED
  BY <1>10, <1>11, <1>12, <1>13, <1>14, <1>15, <1>16, <1>17, <1>18, <1>19, <1>20, <1>21

\* No bootstrap server is left.
LEMMA SeedGivesUpStep ==
    ASSUME ClusterInv, NEW c \in Calls, SeedFails(c), pc'[c] # "seeking"
    PROVE  ClusterInv'
<1> USE DEF ClusterInv
<1>2. /\ pc[c] = "seeking" /\ sock[making[c]] \in {"refused", "ended", "closed"}
      /\ pc' = [pc EXCEPT ![c] = "rejected"]
      /\ UNCHANGED <<op, target, held, making, waits, used, seed, brokerById, generation,
                     known, sock, faults, met, by>>
  BY DEF SeedFails, ConnectRejects, callVars, clusterVars, TypeOK
<1>1. Made' = Made /\ Known' = Known
  BY <1>2 DEF Made, Known
<1>10. TypeOK'
  BY <1>1, <1>2, KnownBrokers DEF Running, TypeOK, Stages, Sockets, Ops
<1>11. Numbered'
  BY <1>1, <1>2, KnownBrokers DEF Running, Numbered, TypeOK
<1>12. HistoryBegun'
  BY <1>1, <1>2, KnownBrokers DEF Running, HistoryBegun, TypeOK
<1>13. RunningMeet'
  BY <1>1, <1>2, KnownBrokers DEF Running, RunningMeet, Running, TypeOK
<1>14. StagesOfOps'
  BY <1>1, <1>2, KnownBrokers DEF Running, StagesOfOps, Connects, TypeOK
<1>15. MakersKnown'
  BY <1>1, <1>2, KnownBrokers DEF Running, MakersKnown, TypeOK
<1>16. KnownMade'
  BY <1>1, <1>2, KnownBrokers DEF Running, KnownMade, TypeOK
<1>17. KnownSettled'
  BY <1>1, <1>2, KnownBrokers DEF Running, KnownSettled, TypeOK
<1>18. GenerationsExplained'
  BY <1>1, <1>2, KnownBrokers DEF Running, GenerationsExplained, Connects, TypeOK
<1>19. ReplacersDisconnect'
  BY <1>1, <1>2, KnownBrokers DEF Running, ReplacersDisconnect, Parted, TypeOK
<1>20. FillersMeet'
  BY <1>1, <1>2, KnownBrokers DEF Running, FillersMeet, TypeOK
<1>21. Accounted'
  BY <1>1, <1>2, KnownBrokers DEF Running, Accounted, Explained, Connects, TypeOK
<1> QED
  BY <1>10, <1>11, <1>12, <1>13, <1>14, <1>15, <1>16, <1>17, <1>18, <1>19, <1>20, <1>21

(* connect() makes the broker it found its seed and empties the table: what
   the table held is reachable no longer, and the call is the one to blame. *)
LEMMA SeedFoundStep ==
    ASSUME ClusterInv, NEW c \in Calls, SeedFound(c)
    PROVE  ClusterInv'
<1> USE DEF ClusterInv
<1>1. /\ making[c] \in Made /\ making[c] # 0 /\ c \in by[making[c]]
      /\ Made' = Made /\ Known' = {making[c]}
  BY DEF SeedFound, MakersKnown, Made, Known, Range, TypeOK, Brokers
<1>2. /\ pc[c] = "seeking" /\ pc' = [pc EXCEPT ![c] = "metadata"] /\ Connects(c)
      /\ \A d \in Calls : Running(d) /\ d # c => c \in met[d] /\ d \in met[c]
  BY DEF SeedFound, StagesOfOps, RunningMeet, Running
<1>10. TypeOK'
  <2>1. /\ seed' \in 0..MaxBrokers /\ generation' \in Nat
        /\ brokerById' \in [Nodes -> 0..MaxBrokers]
    BY BoundsAssumption DEF SeedFound, TypeOK
  <2> QED
    BY <2>1 DEF SeedFound, callVars, TypeOK, Stages
<1>11. Numbered'
  BY <1>1, KnownBrokers DEF SeedFound, callVars, Numbered, TypeOK
<1>12. HistoryBegun'
  BY <1>1, KnownBrokers DEF SeedFound, callVars, HistoryBegun, TypeOK
<1>13. RunningMeet'
  BY <1>1, KnownBrokers DEF SeedFound, callVars, RunningMeet, Running, TypeOK
<1>14. StagesOfOps'
  BY <1>1, KnownBrokers DEF SeedFound, callVars, StagesOfOps, Connects, TypeOK
<1>15. MakersKnown'
  BY <1>1, KnownBrokers DEF SeedFound, callVars, MakersKnown, TypeOK
<1>16. KnownMade'
  BY <1>1, KnownBrokers DEF SeedFound, callVars, KnownMade, TypeOK
<1>17. KnownSettled'
  BY <1>1, KnownBrokers DEF SeedFound, callVars, KnownSettled, TypeOK
<1>18. GenerationsExplained'
  <2>1. \A d \in Calls : held[d] <= generation => held[d] <= generation' /\ held[d] # generation'
    BY DEF SeedFound, TypeOK
  <2> QED
    BY <1>2, <2>1 DEF SeedFound, GenerationsExplained, Connects, Running, callVars, TypeOK
<1>19. ReplacersDisconnect'
  BY <1>1, <1>2 DEF SeedFound, callVars, ReplacersDisconnect, Parted, Running, TypeOK
<1>20. FillersMeet'
  BY <1>1, KnownBrokers DEF SeedFound, callVars, FillersMeet, TypeOK
<1>21. Accounted'
  <2>1. \A b \in Known : sock[b] \in {"ended", "closed"} \/ Explained(b)
    BY <1>2 DEF ReplacersDisconnect, Parted, KnownSettled, Explained
  <2>2. \A b : Explained(b) => Explained(b)'
    BY DEF SeedFound, Explained, Connects, callVars
  <2> QED
    BY <1>1, <1>2, <2>1, <2>2 DEF SeedFound, Accounted, TypeOK
<1> QED
  BY <1>10, <1>11, <1>12, <1>13, <1>14, <1>15, <1>16, <1>17, <1>18, <1>19, <1>20, <1>21

(* The first metadata response ends connect(); it changes no broker. *)
LEMMA MetadataArrivesStep ==
    ASSUME ClusterInv, NEW c \in Calls, MetadataArrives(c)
    PROVE  ClusterInv'
<1> USE DEF ClusterInv
<1>1. Made' = Made /\ Known' = Known
  BY DEF MetadataArrives, Made, Known, callVars, clusterVars
<1>10. TypeOK'
  BY <1>1, KnownBrokers DEF MetadataArrives, callVars, clusterVars, ConnectRejects, Acquired,
     TypeOK, Stages, Sockets, Ops
<1>11. Numbered'
  BY <1>1, KnownBrokers DEF MetadataArrives, callVars, clusterVars, ConnectRejects, Acquired,
     Numbered, TypeOK
<1>12. HistoryBegun'
  BY <1>1, KnownBrokers DEF MetadataArrives, callVars, clusterVars, ConnectRejects, Acquired,
     HistoryBegun, TypeOK
<1>13. RunningMeet'
  BY <1>1, KnownBrokers DEF MetadataArrives, callVars, clusterVars, ConnectRejects, Acquired,
     RunningMeet, Running, TypeOK
<1>14. StagesOfOps'
  BY <1>1, KnownBrokers DEF MetadataArrives, callVars, clusterVars, ConnectRejects, Acquired,
     StagesOfOps, Connects, TypeOK
<1>15. MakersKnown'
  BY <1>1, KnownBrokers DEF MetadataArrives, callVars, clusterVars, ConnectRejects, Acquired,
     MakersKnown, TypeOK
<1>16. KnownMade'
  BY <1>1, KnownBrokers DEF MetadataArrives, callVars, clusterVars, ConnectRejects, Acquired,
     KnownMade, TypeOK
<1>17. KnownSettled'
  BY <1>1, KnownBrokers DEF MetadataArrives, callVars, clusterVars, ConnectRejects, Acquired,
     KnownSettled, TypeOK
<1>18. GenerationsExplained'
  BY <1>1, KnownBrokers DEF MetadataArrives, callVars, clusterVars, ConnectRejects, Acquired,
     GenerationsExplained, Connects, TypeOK
<1>19. ReplacersDisconnect'
  BY <1>1, KnownBrokers DEF MetadataArrives, callVars, clusterVars, ConnectRejects, Acquired,
     ReplacersDisconnect, Parted, TypeOK
<1>20. FillersMeet'
  BY <1>1, KnownBrokers DEF MetadataArrives, callVars, clusterVars, ConnectRejects, Acquired,
     FillersMeet, TypeOK
<1>21. Accounted'
  BY <1>1, KnownBrokers DEF MetadataArrives, callVars, clusterVars, ConnectRejects, Acquired,
     Accounted, Explained, Connects, TypeOK
<1> QED
  BY <1>10, <1>11, <1>12, <1>13, <1>14, <1>15, <1>16, <1>17, <1>18, <1>19, <1>20, <1>21

(* A first metadata request that fails rejects connect(); it changes no broker. *)
LEMMA MetadataFailsStep ==
    ASSUME ClusterInv, NEW c \in Calls, MetadataFails(c)
    PROVE  ClusterInv'
<1> USE DEF ClusterInv
<1>1. Made' = Made /\ Known' = Known
  BY DEF MetadataFails, Made, Known, callVars, clusterVars
<1>10. TypeOK'
  BY <1>1, KnownBrokers DEF MetadataFails, callVars, clusterVars, ConnectRejects, Acquired,
     TypeOK, Stages, Sockets, Ops
<1>11. Numbered'
  BY <1>1, KnownBrokers DEF MetadataFails, callVars, clusterVars, ConnectRejects, Acquired,
     Numbered, TypeOK
<1>12. HistoryBegun'
  BY <1>1, KnownBrokers DEF MetadataFails, callVars, clusterVars, ConnectRejects, Acquired,
     HistoryBegun, TypeOK
<1>13. RunningMeet'
  BY <1>1, KnownBrokers DEF MetadataFails, callVars, clusterVars, ConnectRejects, Acquired,
     RunningMeet, Running, TypeOK
<1>14. StagesOfOps'
  BY <1>1, KnownBrokers DEF MetadataFails, callVars, clusterVars, ConnectRejects, Acquired,
     StagesOfOps, Connects, TypeOK
<1>15. MakersKnown'
  BY <1>1, KnownBrokers DEF MetadataFails, callVars, clusterVars, ConnectRejects, Acquired,
     MakersKnown, TypeOK
<1>16. KnownMade'
  BY <1>1, KnownBrokers DEF MetadataFails, callVars, clusterVars, ConnectRejects, Acquired,
     KnownMade, TypeOK
<1>17. KnownSettled'
  BY <1>1, KnownBrokers DEF MetadataFails, callVars, clusterVars, ConnectRejects, Acquired,
     KnownSettled, TypeOK
<1>18. GenerationsExplained'
  BY <1>1, KnownBrokers DEF MetadataFails, callVars, clusterVars, ConnectRejects, Acquired,
     GenerationsExplained, Connects, TypeOK
<1>19. ReplacersDisconnect'
  BY <1>1, KnownBrokers DEF MetadataFails, callVars, clusterVars, ConnectRejects, Acquired,
     ReplacersDisconnect, Parted, TypeOK
<1>20. FillersMeet'
  BY <1>1, KnownBrokers DEF MetadataFails, callVars, clusterVars, ConnectRejects, Acquired,
     FillersMeet, TypeOK
<1>21. Accounted'
  BY <1>1, KnownBrokers DEF MetadataFails, callVars, clusterVars, ConnectRejects, Acquired,
     Accounted, Explained, Connects, TypeOK
<1> QED
  BY <1>10, <1>11, <1>12, <1>13, <1>14, <1>15, <1>16, <1>17, <1>18, <1>19, <1>20, <1>21

-----------------------------------------------------------------------------
(* ensureConnected() and disconnect()                                      *)

\* ensureConnected() without a seed is connect().
LEMMA EnsureConnectsStep ==
    ASSUME ClusterInv, NEW c \in Calls, EnsureConnected(c), seed = 0
    PROVE  ClusterInv'
<1> USE DEF ClusterInv
<1>1. PICK b \in Brokers :
         /\ b \notin Made /\ b \notin Known
         /\ making' = [making EXCEPT ![c] = b]
         /\ sock' = [sock EXCEPT ![b] = "opening"]
         /\ by' = [by EXCEPT ![b] = {c}]
         /\ Made' = Made \cup {b} /\ Known' = Known /\ Numbered'
  BY NewBroker DEF EnsureConnected, KnownMade, Known, clusterVars, TypeOK
<1>2. /\ Begins(c, "ensureConnected") /\ pc' = [pc EXCEPT ![c] = "seeking"]
      /\ UNCHANGED <<target, held, waits, used, seed, brokerById, generation, known, faults>>
      /\ Known = {}
  BY DEF EnsureConnected, clusterVars, KnownMade
<1>3. /\ pc[c] = "new" /\ met' \in [Calls -> SUBSET Calls] /\ op' \in [Calls -> Ops]
      /\ op'[c] = "ensureConnected" /\ \A d \in Calls : d # c => op'[d] = op[d]
      /\ \A d \in Calls : d # c => met[d] \subseteq met'[d] /\ met'[d] \subseteq met[d] \cup {c}
      /\ \A d \in Calls \ {c} : Running(d) => d \in met'[c] /\ c \in met'[d]
      /\ \A d \in met'[c] : Running(d)
  BY <1>2, BeginsEffect DEF Ops, TypeOK
<1>4. /\ \A a \in Brokers : \A d \in by[a] : d \in Calls /\ d # c /\ pc[d] # "new" /\ op'[d] = op[d]
      /\ \A d \in Calls : \A e \in met[d] : e \in Calls /\ e # c /\ pc[e] # "new" /\ op'[e] = op[e]
  BY <1>3 DEF HistoryBegun, TypeOK
<1>5. \A a \in Made :
         /\ Explained(a) => Explained(a)' \/ sock'[a] \in {"ended", "closed"}
         /\ \A d \in Calls \ {c} : Parted(d, a) => Parted(d, a)'
  <2> SUFFICES ASSUME NEW a \in Made
               PROVE  /\ Explained(a) => Explained(a)' \/ sock'[a] \in {"ended", "closed"}
                      /\ \A d \in Calls \ {c} : Parted(d, a) => Parted(d, a)'
    OBVIOUS
  <2>1. a \in Brokers /\ by[a] \subseteq by'[a]
    BY <1>1, <1>2 DEF Made, TypeOK
  <2>2. /\ sock[a] \in {"stranded", "deaf"} =>
              sock'[a] \in {"stranded", "deaf", "ended", "closed"}
        /\ sock[a] \in {"ended", "closed"} => sock'[a] \in {"ended", "closed"}
    BY <1>1, <1>2, <2>1, KnownBrokers, DisconnectedSockets
  <2>3. \A d \in Calls \ {c} : target'[d] = target[d]
    BY <1>2 DEF TypeOK
  <2> QED
    BY <1>2, <2>1, <2>2, <2>3, BeginsKeeps
<1>10. TypeOK'
  <2>1. /\ sock' \in [Brokers -> Sockets] /\ pc' \in [Calls -> Stages]
        /\ by' \in [Brokers -> SUBSET Calls]
    BY <1>1, <1>2, DisconnectedSockets DEF TypeOK, Sockets, Stages
  <2>2. making' \in [Calls -> 0..MaxBrokers] /\ held' \in [Calls -> Nat]
    BY <1>1, <1>2, BoundsAssumption DEF TypeOK, Brokers
  <2> QED
    BY <1>2, <1>3, <2>1, <2>2 DEF TypeOK
<1>11. Numbered'
  BY <1>1, <1>2, <1>3, <1>4, KnownBrokers DEF Running, Numbered, TypeOK
<1>12. HistoryBegun'
  <2>1. \A d \in Calls : pc'[d] # "new" <=> pc[d] # "new" \/ d = c
    BY <1>2, <1>3 DEF TypeOK
  <2>2. \A a \in Brokers : \A d \in by'[a] : d \in by[a] \/ d = c
    BY <1>1, <1>2 DEF TypeOK
  <2>3. \A a \in Brokers : \A d \in by'[a] : d \in Calls /\ pc'[d] # "new"
    BY <1>4, <2>1, <2>2
  <2>4. \A d \in Calls : \A e \in met'[d] : pc'[e] # "new"
    BY <1>3, <1>4, <2>1 DEF Running
  <2> QED
    BY <2>3, <2>4 DEF HistoryBegun
<1>13. RunningMeet'
  BY <1>1, <1>2, <1>3, <1>4, KnownBrokers DEF Running, RunningMeet, Running, TypeOK
<1>14. StagesOfOps'
  BY <1>1, <1>2, <1>3, <1>4, KnownBrokers DEF Running, StagesOfOps, Connects, TypeOK
<1>15. MakersKnown'
  BY <1>1, <1>2, <1>3, <1>4, KnownBrokers DEF Running, MakersKnown, TypeOK
<1>16. KnownMade'
  BY <1>1, <1>2, <1>3, <1>4, KnownBrokers DEF Running, KnownMade, TypeOK
<1>17. KnownSettled'
  <2> SUFFICES ASSUME NEW a \in Known
               PROVE  \/ sock'[a] \in {"up", "ended", "closed"}
                      \/ \E d \in by'[a] : op'[d] = "ensureConnected"
    BY <1>1 DEF KnownSettled
  <2>1. a \in Brokers /\ a # b /\ a \in Made
    BY <1>1, KnownBrokers DEF KnownMade
  <2>2. by'[a] = by[a] /\ sock'[a] \in {sock[a], Disconnected(sock)[a]}
    BY <1>1, <1>2, <2>1 DEF TypeOK
  <2> QED
    BY <1>4, <2>1, <2>2, DisconnectedSockets DEF KnownSettled, Made
<1>18. GenerationsExplained'
  BY <1>1, <1>2, <1>3, <1>4, KnownBrokers DEF Running, GenerationsExplained, Connects, TypeOK
<1>19. ReplacersDisconnect'
  <2>1. ASSUME NEW d \in Calls, pc'[d] = "seeking", NEW a \in Known
        PROVE  Parted(d, a)'
    <3>1. a \in Made /\ a \in Brokers
      BY KnownBrokers DEF KnownMade
    <3>2. CASE d = c
      BY <1>1, <1>2, <3>1, <3>2, DisconnectedSockets DEF Parted, Made
    <3>3. CASE d # c
      BY <1>2, <1>5, <2>1, <3>1, <3>3 DEF ReplacersDisconnect, TypeOK
    <3> QED
      BY <3>2, <3>3
  <2>2. ASSUME NEW d \in Calls, pc'[d] = "acquiring", op'[d] = "setSeedBroker"
        PROVE  Parted(d, seed)'
    <3>1. CASE d = c
      BY <1>1, <1>2, <1>3, <2>2, <3>1 DEF TypeOK
    <3>2. CASE d # c
      <4>1. seed \in Made /\ seed \in Brokers /\ Parted(d, seed)
        BY <1>2, <1>3, <2>2, <3>2, KnownBrokers DEF ReplacersDisconnect, KnownMade, TypeOK
      <4> QED
        BY <1>2, <1>5, <3>2, <4>1 DEF Parted
    <3> QED
      BY <3>1, <3>2
  <2> QED
    BY <1>1, <2>1, <2>2 DEF ReplacersDisconnect
<1>20. FillersMeet'
  BY <1>1, <1>2, <1>3, <1>4, KnownBrokers DEF Running, FillersMeet, TypeOK
<1>21. Accounted'
  <2> SUFFICES ASSUME NEW a \in Made'
               PROVE  \/ sock'[a] \in {"refused", "ended", "closed"}
                      \/ a \in Known'
                      \/ \E d \in Calls : pc'[d] \in {"seeking", "acquiring"} /\ making'[d] = a
                      \/ Explained(a)'
    BY DEF Accounted
  <2>1. CASE a = b
    BY <1>1, <1>2, <2>1 DEF TypeOK
  <2>2. CASE a \in Made
    <3>1. a \in Brokers
      BY <2>2 DEF Made
    <3>2. \A d \in Calls : pc[d] \in {"seeking", "acquiring"} =>
             pc'[d] = pc[d] /\ making'[d] = making[d]
      BY <1>1, <1>2, <1>3 DEF TypeOK
    <3> QED
      BY <1>1, <1>2, <1>5, <2>2, <3>1, <3>2, DisconnectedSockets DEF Accounted
  <2> QED
    BY <1>1, <2>1, <2>2
<1> QED
  BY <1>10, <1>11, <1>12, <1>13, <1>14, <1>15, <1>16, <1>17, <1>18, <1>19, <1>20, <1>21

\* With a seed it reopens the brokers that are not connected, in place.
LEMMA EnsureReconnectsStep ==
    ASSUME ClusterInv, NEW c \in Calls, EnsureConnected(c), seed # 0
    PROVE  ClusterInv'
<1> USE DEF ClusterInv
<1> DEFINE broken == {b \in Known : ~IsConnected(b)}
<1>1. /\ sock' = [b \in Brokers |-> IF b \in broken THEN "opening" ELSE sock[b]]
      /\ by' = [b \in Brokers |-> IF b \in broken THEN by[b] \cup {c} ELSE by[b]]
      /\ broken \subseteq Known /\ Made' = Made /\ Known' = Known
      /\ waits' = [waits EXCEPT ![c] = broken]
  BY DEF EnsureConnected, KnownMade, Known, Made, clusterVars
<1>2. /\ Begins(c, "ensureConnected") /\ pc' = [pc EXCEPT ![c] = "ensuring"]
      /\ UNCHANGED <<target, held, making, used, seed, brokerById, generation, known, faults>>
  BY DEF EnsureConnected, clusterVars
<1>3. /\ pc[c] = "new" /\ met' \in [Calls -> SUBSET Calls] /\ op' \in [Calls -> Ops]
      /\ op'[c] = "ensureConnected" /\ \A d \in Calls : d # c => op'[d] = op[d]
      /\ \A d \in Calls : d # c => met[d] \subseteq met'[d] /\ met'[d] \subseteq met[d] \cup {c}
      /\ \A d \in Calls \ {c} : Running(d) => d \in met'[c] /\ c \in met'[d]
      /\ \A d \in met'[c] : Running(d)
  BY <1>2, BeginsEffect DEF Ops, TypeOK
<1>4. /\ \A a \in Brokers : \A d \in by[a] : d \in Calls /\ d # c /\ pc[d] # "new" /\ op'[d] = op[d]
      /\ \A d \in Calls : \A e \in met[d] : e \in Calls /\ e # c /\ pc[e] # "new" /\ op'[e] = op[e]
  BY <1>3 DEF HistoryBegun, TypeOK
<1> HIDE DEF broken
<1>5. \A a \in Made :
         /\ Explained(a) => Explained(a)' \/ a \in Known
                           \/ sock'[a] \in {"ended", "closed"}
         /\ \A d \in Calls \ {c} : Parted(d, a) => Parted(d, a)' \/ a \in broken
  <2> SUFFICES ASSUME NEW a \in Made
               PROVE  /\ Explained(a) => Explained(a)' \/ a \in Known
                           \/ sock'[a] \in {"ended", "closed"}
                      /\ \A d \in Calls \ {c} : Parted(d, a) => Parted(d, a)' \/ a \in broken
    OBVIOUS
  <2>1. CASE a \in broken
    BY <1>1, <2>1
  <2>2. CASE a \notin broken
    <3>1. a \in Brokers /\ by[a] \subseteq by'[a] /\ sock'[a] = sock[a]
      BY <1>1, <2>2 DEF Made
    <3>2. \A d \in Calls \ {c} : target'[d] = target[d]
      BY <1>2
    <3>3. /\ sock[a] \in {"stranded", "deaf"} =>
                sock'[a] \in {"stranded", "deaf", "ended", "closed"}
          /\ sock[a] \in {"ended", "closed"} => sock'[a] \in {"ended", "closed"}
      BY <3>1
    <3>4. by[a] \subseteq by'[a]
      BY <3>1
    <3>5. /\ Explained(a) => Explained(a)' \/ sock'[a] \in {"ended", "closed"}
          /\ \A d \in Calls \ {c} : Parted(d, a) => Parted(d, a)'
      BY <1>2, <3>2, <3>3, <3>4, BeginsKeeps
    <3> QED
      BY <3>5
  <2> QED
    BY <2>1, <2>2
<1>6. \A a \in Brokers : by[a] \subseteq by'[a]
  BY <1>1
<1>10. TypeOK'
  <2>1. /\ sock' \in [Brokers -> Sockets] /\ by' \in [Brokers -> SUBSET Calls]
    BY <1>1 DEF TypeOK, Sockets
  <2>2. waits' \in [Calls -> SUBSET Brokers] /\ pc' \in [Calls -> Stages]
    BY <1>1, <1>2, KnownBrokers DEF TypeOK, Stages
  <2> QED
    BY <1>2, <1>3, <2>1, <2>2 DEF TypeOK
<1>11. Numbered'
  BY <1>1, <1>2, <1>3, <1>4, KnownBrokers DEF Running, Numbered, TypeOK
<1>12. HistoryBegun'
  <2>1. \A d \in Calls : pc'[d] # "new" <=> pc[d] # "new" \/ d = c
    BY <1>2, <1>3 DEF TypeOK
  <2>2. \A a \in Brokers : \A d \in by'[a] : d \in by[a] \/ d = c
    BY <1>1, <1>2 DEF TypeOK
  <2>3. \A a \in Brokers : \A d \in by'[a] : d \in Calls /\ pc'[d] # "new"
    BY <1>4, <2>1, <2>2
  <2>4. \A d \in Calls : \A e \in met'[d] : pc'[e] # "new"
    BY <1>3, <1>4, <2>1 DEF Running
  <2> QED
    BY <2>3, <2>4 DEF HistoryBegun
<1>13. RunningMeet'
  BY <1>1, <1>2, <1>3, <1>4, KnownBrokers DEF Running, RunningMeet, Running, TypeOK
<1>14. StagesOfOps'
  BY <1>1, <1>2, <1>3, <1>4, KnownBrokers DEF Running, StagesOfOps, Connects, TypeOK
<1>15. MakersKnown'
  BY <1>1, <1>2, <1>6 DEF MakersKnown, Made, TypeOK
<1>16. KnownMade'
  BY <1>1, <1>2, <1>3, <1>4, KnownBrokers DEF Running, KnownMade, TypeOK
<1>17. KnownSettled'
  <2> SUFFICES ASSUME NEW a \in Known
               PROVE  \/ sock'[a] \in {"up", "ended", "closed"}
                      \/ \E d \in by'[a] : op'[d] = "ensureConnected"
    BY <1>1 DEF KnownSettled
  <2>1. a \in Brokers
    BY KnownBrokers
  <2> QED
    BY <1>1, <1>3, <1>4, <2>1 DEF KnownSettled
<1>18. GenerationsExplained'
  BY <1>1, <1>2, <1>3, <1>4, KnownBrokers DEF Running, GenerationsExplained, Connects, TypeOK
<1>19. ReplacersDisconnect'
  <2>1. ASSUME NEW d \in Calls \ {c}, NEW a \in Known, Running(d)
        PROVE  Parted(d, a) => Parted(d, a)'
    <3>1. a \in Made /\ a \in Brokers
      BY KnownBrokers DEF KnownMade
    <3>2. a \in broken => c \in by'[a] /\ d \in met'[c]
      BY <1>1, <1>3, <2>1, <3>1
    <3>3. a \in broken => Parted(d, a)'
      BY <3>2 DEF Parted
    <3> QED
      BY <1>5, <3>1, <3>3
  <2>2. ASSUME NEW d \in Calls, pc'[d] = "seeking", NEW a \in Known
        PROVE  Parted(d, a)'
    <3>1. d # c /\ pc[d] = "seeking"
      BY <1>2, <2>2 DEF TypeOK
    <3> QED
      BY <2>1, <3>1 DEF ReplacersDisconnect, Running
  <2>3. ASSUME NEW d \in Calls, pc'[d] = "acquiring", op'[d] = "setSeedBroker"
        PROVE  Parted(d, seed)'
    <3>1. d # c /\ pc[d] = "acquiring" /\ op[d] = "setSeedBroker" /\ seed \in Known
      BY <1>2, <1>3, <2>3, KnownBrokers DEF KnownMade, TypeOK
    <3>2. Parted(d, seed)
      BY <3>1 DEF ReplacersDisconnect
    <3> QED
      BY <1>2, <2>1, <3>1, <3>2 DEF Parted, Running
  <2> QED
    BY <1>1, <2>2, <2>3 DEF ReplacersDisconnect
<1>20. FillersMeet'
  <2>1. \A d \in Calls : pc'[d] = "acquiring" => d # c /\ pc[d] = "acquiring"
    BY <1>2 DEF TypeOK
  <2>2. \A d \in Calls \ {c} : brokerById[target[d]] \in Brokers \cup {0}
    BY DEF TypeOK, Brokers
  <2>3. \A a \in Brokers, d \in Calls \ {c} : \A e \in by[a] :
           d \in met[e] => e \in by'[a] /\ d \in met'[e] /\ op'[e] = op[e]
    BY <1>3, <1>4, <1>6
  <2> QED
    BY <1>2, <1>3, <2>1, <2>2, <2>3 DEF FillersMeet
<1>21. Accounted'
  <2> SUFFICES ASSUME NEW a \in Made
               PROVE  \/ sock'[a] \in {"refused", "ended", "closed"}
                      \/ a \in Known
                      \/ \E d \in Calls : pc'[d] \in {"seeking", "acquiring"} /\ making'[d] = a
                      \/ Explained(a)'
    BY <1>1 DEF Accounted
  <2>1. a \in Brokers
    BY DEF Made
  <2> QED
    BY <1>1, <1>2, <1>3, <1>5, <2>1 DEF Accounted, TypeOK
<1> QED
  BY <1>10, <1>11, <1>12, <1>13, <1>14, <1>15, <1>16, <1>17, <1>18, <1>19, <1>20, <1>21

(* ensureConnected() returns when every broker it waits for is connected. *)
LEMMA EnsureSucceedsStep ==
    ASSUME ClusterInv, NEW c \in Calls, EnsureSucceeds(c)
    PROVE  ClusterInv'
<1> USE DEF ClusterInv
<1>1. Made' = Made /\ Known' = Known
  BY DEF EnsureSucceeds, Made, Known, callVars, clusterVars
<1>10. TypeOK'
  BY <1>1, KnownBrokers DEF EnsureSucceeds, callVars, clusterVars, ConnectRejects, Acquired,
     TypeOK, Stages, Sockets, Ops
<1>11. Numbered'
  BY <1>1, KnownBrokers DEF EnsureSucceeds, callVars, clusterVars, ConnectRejects, Acquired,
     Numbered, TypeOK
<1>12. HistoryBegun'
  BY <1>1, KnownBrokers DEF EnsureSucceeds, callVars, clusterVars, ConnectRejects, Acquired,
     HistoryBegun, TypeOK
<1>13. RunningMeet'
  BY <1>1, KnownBrokers DEF EnsureSucceeds, callVars, clusterVars, ConnectRejects, Acquired,
     RunningMeet, Running, TypeOK
<1>14. StagesOfOps'
  BY <1>1, KnownBrokers DEF EnsureSucceeds, callVars, clusterVars, ConnectRejects, Acquired,
     StagesOfOps, Connects, TypeOK
<1>15. MakersKnown'
  BY <1>1, KnownBrokers DEF EnsureSucceeds, callVars, clusterVars, ConnectRejects, Acquired,
     MakersKnown, TypeOK
<1>16. KnownMade'
  BY <1>1, KnownBrokers DEF EnsureSucceeds, callVars, clusterVars, ConnectRejects, Acquired,
     KnownMade, TypeOK
<1>17. KnownSettled'
  BY <1>1, KnownBrokers DEF EnsureSucceeds, callVars, clusterVars, ConnectRejects, Acquired,
     KnownSettled, TypeOK
<1>18. GenerationsExplained'
  BY <1>1, KnownBrokers DEF EnsureSucceeds, callVars, clusterVars, ConnectRejects, Acquired,
     GenerationsExplained, Connects, TypeOK
<1>19. ReplacersDisconnect'
  BY <1>1, KnownBrokers DEF EnsureSucceeds, callVars, clusterVars, ConnectRejects, Acquired,
     ReplacersDisconnect, Parted, TypeOK
<1>20. FillersMeet'
  BY <1>1, KnownBrokers DEF EnsureSucceeds, callVars, clusterVars, ConnectRejects, Acquired,
     FillersMeet, TypeOK
<1>21. Accounted'
  BY <1>1, KnownBrokers DEF EnsureSucceeds, callVars, clusterVars, ConnectRejects, Acquired,
     Accounted, Explained, Connects, TypeOK
<1> QED
  BY <1>10, <1>11, <1>12, <1>13, <1>14, <1>15, <1>16, <1>17, <1>18, <1>19, <1>20, <1>21

(* ensureConnected() whose brokers do not all come up disconnects them all
   and looks for a new seed. *)
LEMMA EnsureFailsStep ==
    ASSUME ClusterInv, NEW c \in Calls, EnsureFails(c)
    PROVE  ClusterInv'
<1> USE DEF ClusterInv
<1>2. /\ pc[c] = "ensuring" /\ MakeBroker(c, Disconnected(sock))
      /\ pc' = [pc EXCEPT ![c] = "seeking"] /\ waits' = [waits EXCEPT ![c] = {}]
      /\ UNCHANGED <<op, target, held, used, seed, brokerById, generation,
                     known, faults, met>>
  BY DEF EnsureFails, callVars, clusterVars
<1>1. PICK b \in Brokers :
         /\ b \notin Made /\ b \notin Known
         /\ making' = [making EXCEPT ![c] = b]
         /\ sock' = [Disconnected(sock) EXCEPT ![b] = "opening"]
         /\ by' = [by EXCEPT ![b] = {c}]
         /\ Made' = Made \cup {b} /\ Known' = Known /\ Numbered'
  BY <1>2, NewBroker, DisconnectedSockets DEF KnownMade, Known, TypeOK
<1>3. \A a \in Made :
         /\ a \in Brokers /\ by'[a] = by[a]
         /\ sock'[a] = Disconnected(sock)[a]
  BY <1>1 DEF Made, TypeOK
<1>4. \A a \in Made :
         /\ Explained(a) => Explained(a)' \/ sock'[a] \in {"ended", "closed"}
         /\ \A d \in Calls : Parted(d, a) => Parted(d, a)'
  BY <1>2, <1>3, DisconnectedSockets DEF Explained, Parted, Connects
<1>10. TypeOK'
  <2>1. /\ sock' \in [Brokers -> Sockets] /\ by' \in [Brokers -> SUBSET Calls]
    BY <1>1, DisconnectedSockets DEF TypeOK, Sockets
  <2>2. /\ making' \in [Calls -> 0..MaxBrokers] /\ pc' \in [Calls -> Stages]
        /\ waits' \in [Calls -> SUBSET Brokers]
    BY <1>1, <1>2, BoundsAssumption DEF TypeOK, Brokers, Stages
  <2> QED
    BY <1>2, <2>1, <2>2 DEF TypeOK
<1>11. Numbered'
  BY <1>1, <1>2, KnownBrokers DEF Running, Numbered, TypeOK
<1>12. HistoryBegun'
  BY <1>1, <1>2, KnownBrokers DEF Running, HistoryBegun, TypeOK
<1>13. RunningMeet'
  BY <1>1, <1>2, KnownBrokers DEF Running, RunningMeet, Running, TypeOK
<1>14. StagesOfOps'
  BY <1>1, <1>2, KnownBrokers DEF Running, StagesOfOps, Connects, TypeOK
<1>15. MakersKnown'
  BY <1>1, <1>2, KnownBrokers DEF Running, MakersKnown, TypeOK
<1>16. KnownMade'
  BY <1>1, <1>2, KnownBrokers DEF Running, KnownMade, TypeOK
<1>17. KnownSettled'
  <2>1. \A a \in Known : a \in Made
    BY DEF KnownMade
  <2> QED
    BY <1>1, <1>2, <1>3, <2>1, DisconnectedSockets DEF KnownSettled
<1>18. GenerationsExplained'
  BY <1>1, <1>2, KnownBrokers DEF Running, GenerationsExplained, Connects, TypeOK
<1>19. ReplacersDisconnect'
  <2>1. ASSUME NEW d \in Calls, pc'[d] = "seeking", NEW a \in Known
        PROVE  Parted(d, a)'
    <3>1. a \in Made
      BY DEF KnownMade
    <3>2. CASE d = c
      BY <1>3, <3>1, DisconnectedSockets DEF Parted, Made
    <3>3. CASE d # c
      BY <1>2, <1>4, <2>1, <3>1, <3>3 DEF ReplacersDisconnect, TypeOK
    <3> QED
      BY <3>2, <3>3
  <2>2. ASSUME NEW d \in Calls, pc'[d] = "acquiring", op'[d] = "setSeedBroker"
        PROVE  Parted(d, seed)'
    <3>1. pc[d] = "acquiring" /\ op[d] = "setSeedBroker"
      BY <1>2, <2>2 DEF TypeOK
    <3>2. seed \in Made /\ Parted(d, seed)
      BY <3>1, KnownBrokers DEF ReplacersDisconnect, KnownMade
    <3> QED
      BY <1>2, <1>4, <3>2 DEF Parted
  <2> QED
    BY <1>1, <2>1, <2>2 DEF ReplacersDisconnect
<1>20. FillersMeet'
  <2> SUFFICES ASSUME NEW d \in Calls, pc[d] = "acquiring", op[d] = "sendRequestToNode",
                      held[d] = generation
               PROVE  LET a == brokerById[target[d]]
                      IN  \/ a = 0
                          \/ \E e \in by'[a] : /\ d \in met[e] /\ op[e] = op[d]
                                               /\ target[e] = target[d]
    BY <1>2 DEF FillersMeet, TypeOK
  <2>1. brokerById[target[d]] # 0 => brokerById[target[d]] \in Made
    BY KnownBrokers DEF KnownMade, TypeOK
  <2> QED
    BY <1>3, <2>1 DEF FillersMeet
<1>21. Accounted'
  <2> SUFFICES ASSUME NEW a \in Made'
               PROVE  \/ sock'[a] \in {"refused", "ended", "closed"}
                      \/ a \in Known
                      \/ \E d \in Calls : pc'[d] \in {"seeking", "acquiring"} /\ making'[d] = a
                      \/ Explained(a)'
    BY <1>1 DEF Accounted
  <2>1. CASE a = b
    BY <1>1, <1>2, <2>1 DEF TypeOK
  <2>2. CASE a \in Made
    <3>1. \A d \in Calls : d # c /\ pc[d] \in {"seeking", "acquiring"} =>
             pc'[d] = pc[d] /\ making'[d] = making[d]
      BY <1>1, <1>2 DEF TypeOK
    <3>2. pc[c] \in {"seeking", "acquiring"} /\ making[c] = a =>
             sock[a] \in {"refused", "ended", "closed"}
      BY <1>2
    <3>3. a \notin Known /\ sock[a] \in {"refused", "ended", "closed"} => sock'[a] = sock[a]
      BY <1>3, <2>2, DisconnectedSockets
    <3> QED
      BY <1>4, <2>2, <3>1, <3>2, <3>3 DEF Accounted
  <2> QED
    BY <1>1, <2>1, <2>2
<1> QED
  BY <1>10, <1>11, <1>12, <1>13, <1>14, <1>15, <1>16, <1>17, <1>18, <1>19, <1>20, <1>21

(* disconnect() closes the brokers that are known when it is called. *)
LEMMA DisconnectStep ==
    ASSUME ClusterInv, NEW c \in Calls, Disconnect(c)
    PROVE  ClusterInv'
<1> USE DEF ClusterInv
<1>1. Made' = Made /\ Known' = Known
  BY DisconnectedSockets DEF Disconnect, Made, Known, clusterVars
<1>2. /\ Begins(c, "disconnect") /\ pc' = [pc EXCEPT ![c] = "resolved"]
      /\ sock' = Disconnected(sock)
      /\ UNCHANGED <<target, held, making, waits, used, seed, brokerById, generation,
                     known, faults, by>>
  BY DEF Disconnect, clusterVars
<1>3. /\ pc[c] = "new" /\ met' \in [Calls -> SUBSET Calls] /\ op' \in [Calls -> Ops]
      /\ op'[c] = "disconnect" /\ \A d \in Calls : d # c => op'[d] = op[d]
      /\ \A d \in Calls : d # c => met[d] \subseteq met'[d] /\ met'[d] \subseteq met[d] \cup {c}
      /\ \A d \in Calls \ {c} : Running(d) => d \in met'[c] /\ c \in met'[d]
      /\ \A d \in met'[c] : Running(d)
  BY <1>2, BeginsEffect DEF Ops, TypeOK
<1>4. /\ \A a \in Brokers : \A d \in by[a] : d \in Calls /\ d # c /\ pc[d] # "new" /\ op'[d] = op[d]
      /\ \A d \in Calls : \A e \in met[d] : e \in Calls /\ e # c /\ pc[e] # "new" /\ op'[e] = op[e]
  BY <1>3 DEF HistoryBegun, TypeOK
<1>5. \A a \in Made :
         /\ Explained(a) => Explained(a)' \/ sock'[a] \in {"ended", "closed"}
         /\ \A d \in Calls \ {c} : Parted(d, a) => Parted(d, a)'
  <2> SUFFICES ASSUME NEW a \in Made
               PROVE  /\ Explained(a) => Explained(a)' \/ sock'[a] \in {"ended", "closed"}
                      /\ \A d \in Calls \ {c} : Parted(d, a) => Parted(d, a)'
    OBVIOUS
  <2>1. a \in Brokers /\ by[a] \subseteq by'[a]
    BY <1>1, <1>2 DEF Made, TypeOK
  <2>2. /\ sock[a] \in {"stranded", "deaf"} =>
              sock'[a] \in {"stranded", "deaf", "ended", "closed"}
        /\ sock[a] \in {"ended", "closed"} => sock'[a] \in {"ended", "closed"}
    BY <1>1, <1>2, <2>1, KnownBrokers, DisconnectedSockets
  <2>3. \A d \in Calls \ {c} : target'[d] = target[d]
    BY <1>2 DEF TypeOK
  <2> QED
    BY <1>2, <2>1, <2>2, <2>3, BeginsKeeps
<1>10. TypeOK'
  BY <1>1, <1>2, <1>3, KnownBrokers, DisconnectedSockets DEF callVars, clusterVars, TypeOK,
     Stages, Sockets, Ops
<1>11. Numbered'
  BY <1>1, <1>2, <1>3, <1>4, KnownBrokers DEF Running, Numbered, TypeOK
<1>12. HistoryBegun'
  BY <1>1, <1>2, <1>3, <1>4, KnownBrokers DEF Running, HistoryBegun, TypeOK
<1>13. RunningMeet'
  BY <1>1, <1>2, <1>3, <1>4, KnownBrokers DEF Running, RunningMeet, Running, TypeOK
<1>14. StagesOfOps'
  BY <1>1, <1>2, <1>3, <1>4, KnownBrokers DEF Running, StagesOfOps, Connects, TypeOK
<1>15. MakersKnown'
  BY <1>1, <1>2, <1>3, <1>4, KnownBrokers DEF Running, MakersKnown, TypeOK
<1>16. KnownMade'
  BY <1>1, <1>2, <1>3, <1>4, KnownBrokers DEF Running, KnownMade, TypeOK
<1>17. KnownSettled'
  BY <1>1, <1>2, <1>3, <1>4, KnownBrokers, DisconnectedSockets DEF KnownMade, Made,
     KnownSettled, TypeOK
<1>18. GenerationsExplained'
  BY <1>1, <1>2, <1>3, <1>4, KnownBrokers DEF Running, GenerationsExplained, Connects, TypeOK
<1>19. ReplacersDisconnect'
  <2>1. ASSUME NEW d \in Calls, pc'[d] = "seeking", NEW a \in Known
        PROVE  Parted(d, a)'
    <3>1. a \in Made /\ a \in Brokers
      BY KnownBrokers DEF KnownMade
    <3>2. CASE d = c
      BY <1>2, <2>1, <3>2 DEF TypeOK
    <3>3. CASE d # c
      BY <1>2, <1>5, <2>1, <3>1, <3>3 DEF ReplacersDisconnect, TypeOK
    <3> QED
      BY <3>2, <3>3
  <2>2. ASSUME NEW d \in Calls, pc'[d] = "acquiring", op'[d] = "setSeedBroker"
        PROVE  Parted(d, seed)'
    <3>1. CASE d = c
      BY <1>1, <1>2, <1>3, <2>2, <3>1 DEF TypeOK
    <3>2. CASE d # c
      <4>1. seed \in Made /\ seed \in Brokers /\ Parted(d, seed)
        BY <1>2, <1>3, <2>2, <3>2, KnownBrokers DEF ReplacersDisconnect, KnownMade, TypeOK
      <4> QED
        BY <1>2, <1>5, <3>2, <4>1 DEF Parted
    <3> QED
      BY <3>1, <3>2
  <2> QED
    BY <1>1, <2>1, <2>2 DEF ReplacersDisconnect
<1>20. FillersMeet'
  BY <1>1, <1>2, <1>3, <1>4, KnownBrokers DEF Running, FillersMeet, TypeOK
<1>21. Accounted'
  <2> SUFFICES ASSUME NEW a \in Made'
               PROVE  \/ sock'[a] \in {"refused", "ended", "closed"}
                      \/ a \in Known'
                      \/ \E d \in Calls : pc'[d] \in {"seeking", "acquiring"} /\ making'[d] = a
                      \/ Explained(a)'
    BY DEF Accounted
  <2>1. a \in Made /\ a \in Brokers
    BY <1>1 DEF Made
  <2> QED
    BY <1>1, <1>2, <1>3, <1>5, <2>1, DisconnectedSockets DEF Accounted, TypeOK
<1> QED
  BY <1>10, <1>11, <1>12, <1>13, <1>14, <1>15, <1>16, <1>17, <1>18, <1>19, <1>20, <1>21

-----------------------------------------------------------------------------
(* setSeedBroker() and sendRequestToNode()                                 *)

\* setSeedBroker() before the metadata: the seed is left, and no broker made.
LEMMA SetSeedRejectsStep ==
    ASSUME ClusterInv, NEW c \in Calls, SetSeedBroker(c), ~known
    PROVE  ClusterInv'
<1> USE DEF ClusterInv
<1> DEFINE left == [sock EXCEPT ![seed] = IF IsConnected(seed) THEN "ended"
                                            ELSE IF @ = "opening" THEN "stranded" ELSE @]
<1>0. /\ left \in [Brokers -> Sockets]
      /\ \A a \in Brokers : left[a] = IF a = seed THEN Disconnected(sock)[a] ELSE sock[a]
      /\ \A a \in Brokers : left[a] = "none" <=> sock[a] = "none"
  <2>1. /\ left \in [Brokers -> Sockets]
        /\ \A a \in Brokers : left[a] = IF a = seed THEN Disconnected(sock)[a] ELSE sock[a]
    BY SeedSockets DEF SetSeedBroker
  <2> QED
    BY <2>1, DisconnectedSockets
<1>2. /\ Begins(c, "setSeedBroker") /\ pc' = [pc EXCEPT ![c] = "rejected"]
      /\ sock' = left
      /\ UNCHANGED <<target, held, making, waits, used, seed, brokerById, generation,
                     known, faults, by>>
  BY DEF SetSeedBroker, clusterVars
<1> HIDE DEF left
<1>1. /\ Made' = Made /\ Known' = Known
      /\ \A a \in Brokers : sock'[a] \in {sock[a], Disconnected(sock)[a]}
  BY <1>0, <1>2 DEF Made, Known
<1>3. /\ pc[c] = "new" /\ met' \in [Calls -> SUBSET Calls] /\ op' \in [Calls -> Ops]
      /\ op'[c] = "setSeedBroker" /\ \A d \in Calls : d # c => op'[d] = op[d]
      /\ \A d \in Calls : d # c => met[d] \subseteq met'[d] /\ met'[d] \subseteq met[d] \cup {c}
      /\ \A d \in Calls \ {c} : Running(d) => d \in met'[c] /\ c \in met'[d]
      /\ \A d \in met'[c] : Running(d)
  BY <1>2, BeginsEffect DEF Ops, TypeOK
<1>4. /\ \A a \in Brokers : \A d \in by[a] : d \in Calls /\ d # c /\ pc[d] # "new" /\ op'[d] = op[d]
      /\ \A d \in Calls : \A e \in met[d] : e \in Calls /\ e # c /\ pc[e] # "new" /\ op'[e] = op[e]
  BY <1>3 DEF HistoryBegun, TypeOK
<1>5. \A a \in Made :
         /\ Explained(a) => Explained(a)' \/ sock'[a] \in {"ended", "closed"}
         /\ \A d \in Calls \ {c} : Parted(d, a) => Parted(d, a)'
  <2> SUFFICES ASSUME NEW a \in Made
               PROVE  /\ Explained(a) => Explained(a)' \/ sock'[a] \in {"ended", "closed"}
                      /\ \A d \in Calls \ {c} : Parted(d, a) => Parted(d, a)'
    OBVIOUS
  <2>1. a \in Brokers /\ by[a] \subseteq by'[a]
    BY <1>1, <1>2 DEF Made, TypeOK
  <2>2. /\ sock[a] \in {"stranded", "deaf"} =>
              sock'[a] \in {"stranded", "deaf", "ended", "closed"}
        /\ sock[a] \in {"ended", "closed"} => sock'[a] \in {"ended", "closed"}
    BY <1>1, <1>2, <2>1, KnownBrokers, DisconnectedSockets
  <2>3. \A d \in Calls \ {c} : target'[d] = target[d]
    BY <1>2 DEF TypeOK
  <2> QED
    BY <1>2, <2>1, <2>2, <2>3, BeginsKeeps
<1>10. TypeOK'
  BY <1>0, <1>2, <1>3 DEF TypeOK, Stages
<1>11. Numbered'
  BY <1>1, <1>2, <1>3, <1>4, KnownBrokers DEF Running, Numbered, TypeOK
<1>12. HistoryBegun'
  BY <1>1, <1>2, <1>3, <1>4, KnownBrokers DEF Running, HistoryBegun, TypeOK
<1>13. RunningMeet'
  BY <1>1, <1>2, <1>3, <1>4, KnownBrokers DEF Running, RunningMeet, Running, TypeOK
<1>14. StagesOfOps'
  BY <1>1, <1>2, <1>3, <1>4, KnownBrokers DEF Running, StagesOfOps, Connects, TypeOK
<1>15. MakersKnown'
  BY <1>1, <1>2, <1>3, <1>4, KnownBrokers DEF Running, MakersKnown, TypeOK
<1>16. KnownMade'
  BY <1>1, <1>2, <1>3, <1>4, KnownBrokers DEF Running, KnownMade, TypeOK
<1>17. KnownSettled'
  <2> SUFFICES ASSUME NEW a \in Known
               PROVE  \/ sock'[a] \in {"up", "ended", "closed"}
                      \/ \E d \in by'[a] : op'[d] = "ensureConnected"
    BY <1>1 DEF KnownSettled
  <2>1. a \in Brokers /\ a \in Made
    BY <1>1, KnownBrokers DEF KnownMade
  <2>2. by'[a] = by[a] /\ sock'[a] \in {sock[a], Disconnected(sock)[a]}
    BY <1>1, <1>2, <2>1 DEF TypeOK
  <2> QED
    BY <1>4, <2>1, <2>2, DisconnectedSockets DEF KnownSettled, Made
<1>18. GenerationsExplained'
  BY <1>1, <1>2, <1>3, <1>4, KnownBrokers DEF Running, GenerationsExplained, Connects, TypeOK
<1>19. ReplacersDisconnect'
  <2>1. ASSUME NEW d \in Calls, pc'[d] = "seeking", NEW a \in Known
        PROVE  Parted(d, a)'
    <3>1. a \in Made /\ a \in Brokers
      BY KnownBrokers DEF KnownMade
    <3>2. CASE d = c
      BY <1>2, <2>1, <3>2 DEF TypeOK
    <3>3. CASE d # c
      BY <1>2, <1>5, <2>1, <3>1, <3>3 DEF ReplacersDisconnect, TypeOK
    <3> QED
      BY <3>2, <3>3
  <2>2. ASSUME NEW d \in Calls, pc'[d] = "acquiring", op'[d] = "setSeedBroker"
        PROVE  Parted(d, seed)'
    <3>1. CASE d = c
      BY <1>1, <1>2, <1>3, <2>2, <3>1 DEF TypeOK
    <3>2. CASE d # c
      <4>1. seed \in Made /\ seed \in Brokers /\ Parted(d, seed)
        BY <1>2, <1>3, <2>2, <3>2, KnownBrokers DEF ReplacersDisconnect, KnownMade, TypeOK
      <4> QED
        BY <1>2, <1>5, <3>2, <4>1 DEF Parted
    <3> QED
      BY <3>1, <3>2
  <2> QED
    BY <1>1, <2>1, <2>2 DEF ReplacersDisconnect
<1>20. FillersMeet'
  BY <1>1, <1>2, <1>3, <1>4, KnownBrokers DEF Running, FillersMeet, TypeOK
<1>21. Accounted'
  <2> SUFFICES ASSUME NEW a \in Made'
               PROVE  \/ sock'[a] \in {"refused", "ended", "closed"}
                      \/ a \in Known'
                      \/ \E d \in Calls : pc'[d] \in {"seeking", "acquiring"} /\ making'[d] = a
                      \/ Explained(a)'
    BY DEF Accounted
  <2>1. a \in Made /\ a \in Brokers
    BY <1>1 DEF Made
  <2> QED
    BY <1>1, <1>2, <1>3, <1>5, <2>1, DisconnectedSockets DEF Accounted, TypeOK
<1> QED
  BY <1>10, <1>11, <1>12, <1>13, <1>14, <1>15, <1>16, <1>17, <1>18, <1>19, <1>20, <1>21

\* setSeedBroker() after it: the broker of the node is made.
LEMMA SetSeedAcquiresStep ==
    ASSUME ClusterInv, NEW c \in Calls, SetSeedBroker(c), known
    PROVE  ClusterInv'
<1> USE DEF ClusterInv
<1> DEFINE left == [sock EXCEPT ![seed] = IF IsConnected(seed) THEN "ended"
                                            ELSE IF @ = "opening" THEN "stranded" ELSE @]
<1>0. /\ left \in [Brokers -> Sockets]
      /\ \A a \in Brokers : left[a] = IF a = seed THEN Disconnected(sock)[a] ELSE sock[a]
      /\ \A a \in Brokers : left[a] = "none" <=> sock[a] = "none"
  <2>1. /\ left \in [Brokers -> Sockets]
        /\ \A a \in Brokers : left[a] = IF a = seed THEN Disconnected(sock)[a] ELSE sock[a]
    BY SeedSockets DEF SetSeedBroker
  <2> QED
    BY <2>1, DisconnectedSockets
<1>1. PICK b \in Brokers :
         /\ b \notin Made /\ b \notin Known
         /\ making' = [making EXCEPT ![c] = b]
         /\ sock' = [left EXCEPT ![b] = "opening"]
         /\ by' = [by EXCEPT ![b] = {c}]
         /\ Made' = Made \cup {b} /\ Known' = Known /\ Numbered'
         /\ \A a \in Brokers : a # b => sock'[a] \in {sock[a], Disconnected(sock)[a]}
  <2>1. MakeBroker(c, left) /\ Known' = Known
    BY DEF SetSeedBroker, Known, clusterVars
  <2> HIDE DEF left
  <2>2. PICK b \in Brokers :
         /\ b \notin Made 
         /\ making' = [making EXCEPT ![c] = b]
         /\ sock' = [left EXCEPT ![b] = "opening"]
         /\ by' = [by EXCEPT ![b] = {c}]
         /\ Made' = Made \cup {b} /\ Numbered'
    BY <1>0, <2>1, NewBroker
  <2> QED
    BY <1>0, <2>1, <2>2 DEF KnownMade
<1>2. /\ Begins(c, "setSeedBroker") /\ pc' = [pc EXCEPT ![c] = "acquiring"] /\ seed # 0
      /\ UNCHANGED <<target, held, waits, used, seed, brokerById, generation, known, faults>>
  BY DEF SetSeedBroker, clusterVars
<1> HIDE DEF left
<1>3. /\ pc[c] = "new" /\ met' \in [Calls -> SUBSET Calls] /\ op' \in [Calls -> Ops]
      /\ op'[c] = "setSeedBroker" /\ \A d \in Calls : d # c => op'[d] = op[d]
      /\ \A d \in Calls : d # c => met[d] \subseteq met'[d] /\ met'[d] \subseteq met[d] \cup {c}
      /\ \A d \in Calls \ {c} : Running(d) => d \in met'[c] /\ c \in met'[d]
      /\ \A d \in met'[c] : Running(d)
  BY <1>2, BeginsEffect DEF Ops, TypeOK
<1>4. /\ \A a \in Brokers : \A d \in by[a] : d \in Calls /\ d # c /\ pc[d] # "new" /\ op'[d] = op[d]
      /\ \A d \in Calls : \A e \in met[d] : e \in Calls /\ e # c /\ pc[e] # "new" /\ op'[e] = op[e]
  BY <1>3 DEF HistoryBegun, TypeOK
<1>5. \A a \in Made :
         /\ Explained(a) => Explained(a)' \/ sock'[a] \in {"ended", "closed"}
         /\ \A d \in Calls \ {c} : Parted(d, a) => Parted(d, a)'
  <2> SUFFICES ASSUME NEW a \in Made
               PROVE  /\ Explained(a) => Explained(a)' \/ sock'[a] \in {"ended", "closed"}
                      /\ \A d \in Calls \ {c} : Parted(d, a) => Parted(d, a)'
    OBVIOUS
  <2>1. a \in Brokers /\ by[a] \subseteq by'[a]
    BY <1>1, <1>2 DEF Made, TypeOK
  <2>2. /\ sock[a] \in {"stranded", "deaf"} =>
              sock'[a] \in {"stranded", "deaf", "ended", "closed"}
        /\ sock[a] \in {"ended", "closed"} => sock'[a] \in {"ended", "closed"}
    BY <1>1, <1>2, <2>1, KnownBrokers, DisconnectedSockets
  <2>3. \A d \in Calls \ {c} : target'[d] = target[d]
    BY <1>2 DEF TypeOK
  <2> QED
    BY <1>2, <2>1, <2>2, <2>3, BeginsKeeps
<1>7. sock'[seed] \in {"stranded", "ended", "closed"}
  BY <1>0, <1>1, <1>2, KnownBrokers, DisconnectedSockets DEF KnownMade, Made
<1>10. TypeOK'
  <2>1. /\ sock' \in [Brokers -> Sockets] /\ pc' \in [Calls -> Stages]
        /\ by' \in [Brokers -> SUBSET Calls]
    BY <1>0, <1>1, <1>2 DEF TypeOK, Sockets, Stages
  <2>2. making' \in [Calls -> 0..MaxBrokers] /\ held' \in [Calls -> Nat]
    BY <1>1, <1>2, BoundsAssumption DEF TypeOK, Brokers
  <2> QED
    BY <1>2, <1>3, <2>1, <2>2 DEF TypeOK
<1>11. Numbered'
  BY <1>1, <1>2, <1>3, <1>4, KnownBrokers DEF Running, Numbered, TypeOK
<1>12. HistoryBegun'
  <2>1. \A d \in Calls : pc'[d] # "new" <=> pc[d] # "new" \/ d = c
    BY <1>2, <1>3 DEF TypeOK
  <2>2. \A a \in Brokers : \A d \in by'[a] : d \in by[a] \/ d = c
    BY <1>1, <1>2 DEF TypeOK
  <2>3. \A a \in Brokers : \A d \in by'[a] : d \in Calls /\ pc'[d] # "new"
    BY <1>4, <2>1, <2>2
  <2>4. \A d \in Calls : \A e \in met'[d] : pc'[e] # "new"
    BY <1>3, <1>4, <2>1 DEF Running
  <2> QED
    BY <2>3, <2>4 DEF HistoryBegun
<1>13. RunningMeet'
  BY <1>1, <1>2, <1>3, <1>4, KnownBrokers DEF Running, RunningMeet, Running, TypeOK
<1>14. StagesOfOps'
  BY <1>1, <1>2, <1>3, <1>4, KnownBrokers DEF Running, StagesOfOps, Connects, TypeOK
<1>15. MakersKnown'
  BY <1>1, <1>2, <1>3, <1>4, KnownBrokers DEF Running, MakersKnown, TypeOK
<1>16. KnownMade'
  BY <1>1, <1>2, <1>3, <1>4, KnownBrokers DEF Running, KnownMade, TypeOK
<1>17. KnownSettled'
  <2> SUFFICES ASSUME NEW a \in Known
               PROVE  \/ sock'[a] \in {"up", "ended", "closed"}
                      \/ \E d \in by'[a] : op'[d] = "ensureConnected"
    BY <1>1 DEF KnownSettled
  <2>1. a \in Brokers /\ a # b /\ a \in Made
    BY <1>1, KnownBrokers DEF KnownMade
  <2>2. by'[a] = by[a] /\ sock'[a] \in {sock[a], Disconnected(sock)[a]}
    BY <1>1, <1>2, <2>1 DEF TypeOK
  <2> QED
    BY <1>4, <2>1, <2>2, DisconnectedSockets DEF KnownSettled, Made
<1>18. GenerationsExplained'
  BY <1>1, <1>2, <1>3, <1>4, KnownBrokers DEF Running, GenerationsExplained, Connects, TypeOK
<1>19. ReplacersDisconnect'
  <2>1. ASSUME NEW d \in Calls, pc'[d] = "seeking", NEW a \in Known
        PROVE  Parted(d, a)'
    <3>1. a \in Made /\ a \in Brokers
      BY KnownBrokers DEF KnownMade
    <3>2. CASE d = c
      BY <1>2, <2>1, <3>2 DEF TypeOK
    <3>3. CASE d # c
      BY <1>2, <1>5, <2>1, <3>1, <3>3 DEF ReplacersDisconnect, TypeOK
    <3> QED
      BY <3>2, <3>3
  <2>2. ASSUME NEW d \in Calls, pc'[d] = "acquiring", op'[d] = "setSeedBroker"
        PROVE  Parted(d, seed)'
    <3>1. CASE d = c
      BY <1>1, <1>2, <1>7, <3>1 DEF Parted, TypeOK
    <3>2. CASE d # c
      <4>1. seed \in Made /\ seed \in Brokers /\ Parted(d, seed)
        BY <1>2, <1>3, <2>2, <3>2, KnownBrokers DEF ReplacersDisconnect, KnownMade, TypeOK
      <4> QED
        BY <1>2, <1>5, <3>2, <4>1 DEF Parted
    <3> QED
      BY <3>1, <3>2
  <2> QED
    BY <1>1, <2>1, <2>2 DEF ReplacersDisconnect
<1>20. FillersMeet'
  <2> SUFFICES ASSUME NEW d \in Calls, pc'[d] = "acquiring", op'[d] = "sendRequestToNode",
                      held'[d] = generation'
               PROVE  LET a == brokerById'[target'[d]]
                      IN  \/ a = 0
                          \/ \E e \in by'[a] : /\ d \in met'[e] /\ op'[e] = op'[d]
                                               /\ target'[e] = target'[d]
    BY DEF FillersMeet
  <2> DEFINE a == brokerById[target[d]]
  <2>1. d # c
    BY <1>3
  <2>2. CASE d # c
    <3>1. /\ pc[d] = "acquiring" /\ op[d] = "sendRequestToNode" /\ held[d] = generation
          /\ target'[d] = target[d] /\ brokerById' = brokerById
      BY <1>2, <1>3, <2>2 DEF TypeOK
    <3>2. CASE a = 0
      BY <3>1, <3>2
    <3>3. CASE a # 0
      <4>1. a \in Brokers /\ by'[a] = by[a]
        BY <1>1, <1>2, <3>3, KnownBrokers DEF KnownMade, TypeOK
      <4>2. PICK e \in by[a] : d \in met[e] /\ op[e] = op[d] /\ target[e] = target[d]
        BY <3>1, <3>3 DEF FillersMeet
      <4>3. e \in Calls /\ e # c /\ target'[e] = target[e] /\ op'[e] = op[e] /\ d \in met'[e]
        BY <1>2, <1>3, <1>4, <4>1, <4>2 DEF TypeOK
      <4> QED
        BY <3>1, <4>1, <4>2, <4>3, <1>3, <2>2
    <3> QED
      BY <3>2, <3>3
  <2> QED
    BY <2>1, <2>2
<1>21. Accounted'
  <2> SUFFICES ASSUME NEW a \in Made'
               PROVE  \/ sock'[a] \in {"refused", "ended", "closed"}
                      \/ a \in Known'
                      \/ \E d \in Calls : pc'[d] \in {"seeking", "acquiring"} /\ making'[d] = a
                      \/ Explained(a)'
    BY DEF Accounted
  <2>1. CASE a = b
    BY <1>1, <1>2, <2>1 DEF TypeOK
  <2>2. CASE a \in Made
    <3>1. a \in Brokers
      BY <2>2 DEF Made
    <3>2. \A d \in Calls : pc[d] \in {"seeking", "acquiring"} =>
             pc'[d] = pc[d] /\ making'[d] = making[d]
      BY <1>1, <1>2, <1>3 DEF TypeOK
    <3> QED
      BY <1>1, <1>2, <1>5, <2>2, <3>1, <3>2, DisconnectedSockets DEF Accounted
  <2> QED
    BY <1>1, <2>1, <2>2
<1> QED
  BY <1>10, <1>11, <1>12, <1>13, <1>14, <1>15, <1>16, <1>17, <1>18, <1>19, <1>20, <1>21

\* One that finds a broker uses it, and one that cannot make it rejects.
LEMMA SendEndsStep ==
    ASSUME ClusterInv, NEW c \in Calls, NEW n \in Nodes, SendRequestToNode(c, n), pc'[c] # "acquiring"
    PROVE  ClusterInv'
<1> USE DEF ClusterInv
<1>2. /\ Begins(c, "sendRequestToNode") /\ target' = [target EXCEPT ![c] = n]
      /\ pc'[c] \in {"resolved", "rejected"} /\ pc' = [pc EXCEPT ![c] = pc'[c]]
      /\ used' \in [Calls -> 0..MaxBrokers]
      /\ UNCHANGED <<held, making, waits, seed, brokerById, generation, known, sock, faults, by>>
  BY DEF SendRequestToNode, clusterVars, TypeOK
<1>1. Made' = Made /\ Known' = Known
  BY <1>2 DEF Made, Known
<1>3. /\ pc[c] = "new" /\ met' \in [Calls -> SUBSET Calls] /\ op' \in [Calls -> Ops]
      /\ op'[c] = "sendRequestToNode" /\ \A d \in Calls : d # c => op'[d] = op[d]
      /\ \A d \in Calls : d # c => met[d] \subseteq met'[d] /\ met'[d] \subseteq met[d] \cup {c}
      /\ \A d \in Calls \ {c} : Running(d) => d \in met'[c] /\ c \in met'[d]
      /\ \A d \in met'[c] : Running(d)
  BY <1>2, BeginsEffect DEF Ops, TypeOK
<1>4. /\ \A a \in Brokers : \A d \in by[a] : d \in Calls /\ d # c /\ pc[d] # "new" /\ op'[d] = op[d]
      /\ \A d \in Calls : \A e \in met[d] : e \in Calls /\ e # c /\ pc[e] # "new" /\ op'[e] = op[e]
  BY <1>3 DEF HistoryBegun, TypeOK
<1>5. \A a \in Made :
         /\ Explained(a) => Explained(a)' \/ sock'[a] \in {"ended", "closed"}
         /\ \A d \in Calls \ {c} : Parted(d, a) => Parted(d, a)'
  <2> SUFFICES ASSUME NEW a \in Made
               PROVE  /\ Explained(a) => Explained(a)' \/ sock'[a] \in {"ended", "closed"}
                      /\ \A d \in Calls \ {c} : Parted(d, a) => Parted(d, a)'
    OBVIOUS
  <2>1. a \in Brokers /\ by[a] \subseteq by'[a]
    BY <1>1, <1>2 DEF Made, TypeOK
  <2>2. /\ sock[a] \in {"stranded", "deaf"} =>
              sock'[a] \in {"stranded", "deaf", "ended", "closed"}
        /\ sock[a] \in {"ended", "closed"} => sock'[a] \in {"ended", "closed"}
    BY <1>1, <1>2, <2>1, KnownBrokers, DisconnectedSockets
  <2>3. \A d \in Calls \ {c} : target'[d] = target[d]
    BY <1>2 DEF TypeOK
  <2> QED
    BY <1>2, <2>1, <2>2, <2>3, BeginsKeeps
<1>10. TypeOK'
  <2>1. pc' \in [Calls -> Stages] /\ target' \in [Calls -> Nodes]
    BY <1>2 DEF TypeOK, Stages
  <2> QED
    BY <1>2, <1>3, <2>1 DEF TypeOK
<1>11. Numbered'
  BY <1>1, <1>2, <1>3, <1>4, KnownBrokers DEF Running, Numbered, TypeOK
<1>12. HistoryBegun'
  <2>1. \A d \in Calls : pc[d] # "new" \/ d = c => pc'[d] # "new"
    BY <1>2 DEF TypeOK
  <2>2. \A a \in Brokers : \A d \in by'[a] : d \in Calls /\ pc'[d] # "new"
    BY <1>2, <1>4, <2>1
  <2>3. \A d \in Calls : \A e \in met'[d] : e \in Calls /\ (pc[e] # "new" \/ e = c)
    BY <1>3, <1>4 DEF Running
  <2> QED
    BY <2>1, <2>2, <2>3 DEF HistoryBegun
<1>13. RunningMeet'
  BY <1>1, <1>2, <1>3, <1>4, KnownBrokers DEF Running, RunningMeet, Running, TypeOK
<1>14. StagesOfOps'
  BY <1>1, <1>2, <1>3, <1>4, KnownBrokers DEF Running, StagesOfOps, Connects, TypeOK
<1>15. MakersKnown'
  BY <1>1, <1>2, <1>3, <1>4, KnownBrokers DEF Running, MakersKnown, TypeOK
<1>16. KnownMade'
  BY <1>1, <1>2, <1>3, <1>4, KnownBrokers DEF Running, KnownMade, TypeOK
<1>17. KnownSettled'
  BY <1>1, <1>2, <1>3, <1>4, KnownBrokers, DisconnectedSockets DEF KnownMade, Made,
     KnownSettled, TypeOK
<1>18. GenerationsExplained'
  BY <1>1, <1>2, <1>3, <1>4, KnownBrokers DEF Running, GenerationsExplained, Connects, TypeOK
<1>19. ReplacersDisconnect'
  <2>1. ASSUME NEW d \in Calls, pc'[d] = "seeking", NEW a \in Known
        PROVE  Parted(d, a)'
    <3>1. a \in Made /\ a \in Brokers
      BY KnownBrokers DEF KnownMade
    <3>2. CASE d = c
      BY <1>2, <2>1, <3>2 DEF TypeOK
    <3>3. CASE d # c
      BY <1>2, <1>5, <2>1, <3>1, <3>3 DEF ReplacersDisconnect, TypeOK
    <3> QED
      BY <3>2, <3>3
  <2>2. ASSUME NEW d \in Calls, pc'[d] = "acquiring", op'[d] = "setSeedBroker"
        PROVE  Parted(d, seed)'
    <3>1. CASE d = c
      BY <1>1, <1>2, <1>3, <2>2, <3>1 DEF TypeOK
    <3>2. CASE d # c
      <4>1. seed \in Made /\ seed \in Brokers /\ Parted(d, seed)
        BY <1>2, <1>3, <2>2, <3>2, KnownBrokers DEF ReplacersDisconnect, KnownMade, TypeOK
      <4> QED
        BY <1>2, <1>5, <3>2, <4>1 DEF Parted
    <3> QED
      BY <3>1, <3>2
  <2> QED
    BY <1>1, <2>1, <2>2 DEF ReplacersDisconnect
<1>20. FillersMeet'
  BY <1>1, <1>2, <1>3, <1>4, KnownBrokers DEF Running, FillersMeet, TypeOK
<1>21. Accounted'
  <2> SUFFICES ASSUME NEW a \in Made'
               PROVE  \/ sock'[a] \in {"refused", "ended", "closed"}
                      \/ a \in Known'
                      \/ \E d \in Calls : pc'[d] \in {"seeking", "acquiring"} /\ making'[d] = a
                      \/ Explained(a)'
    BY DEF Accounted
  <2>1. a \in Made /\ a \in Brokers
    BY <1>1 DEF Made
  <2> QED
    BY <1>1, <1>2, <1>3, <1>5, <2>1, DisconnectedSockets DEF Accounted, TypeOK
<1> QED
  BY <1>10, <1>11, <1>12, <1>13, <1>14, <1>15, <1>16, <1>17, <1>18, <1>19, <1>20, <1>21

\* sendRequestToNode() that finds no broker for the node makes one.
LEMMA SendAcquiresStep ==
    ASSUME ClusterInv, NEW c \in Calls, NEW n \in Nodes, SendRequestToNode(c, n), pc'[c] = "acquiring"
    PROVE  ClusterInv'
<1> USE DEF ClusterInv
<1>2. /\ Begins(c, "sendRequestToNode") /\ target' = [target EXCEPT ![c] = n]
      /\ pc' = [pc EXCEPT ![c] = "acquiring"] /\ held' = [held EXCEPT ![c] = generation]
      /\ brokerById[n] = 0 /\ known /\ MakeBroker(c, sock)
      /\ UNCHANGED <<waits, used, seed, brokerById, generation, known, faults>>
  BY DEF SendRequestToNode, clusterVars, TypeOK
<1>1. PICK b \in Brokers :
         /\ b \notin Made /\ b \notin Known
         /\ making' = [making EXCEPT ![c] = b]
         /\ sock' = [sock EXCEPT ![b] = "opening"]
         /\ by' = [by EXCEPT ![b] = {c}]
         /\ Made' = Made \cup {b} /\ Known' = Known /\ Numbered'
  BY <1>2, NewBroker DEF KnownMade, Known, TypeOK
<1>3. /\ pc[c] = "new" /\ met' \in [Calls -> SUBSET Calls] /\ op' \in [Calls -> Ops]
      /\ op'[c] = "sendRequestToNode" /\ \A d \in Calls : d # c => op'[d] = op[d]
      /\ \A d \in Calls : d # c => met[d] \subseteq met'[d] /\ met'[d] \subseteq met[d] \cup {c}
      /\ \A d \in Calls \ {c} : Running(d) => d \in met'[c] /\ c \in met'[d]
      /\ \A d \in met'[c] : Running(d)
  BY <1>2, BeginsEffect DEF Ops, TypeOK
<1>4. /\ \A a \in Brokers : \A d \in by[a] : d \in Calls /\ d # c /\ pc[d] # "new" /\ op'[d] = op[d]
      /\ \A d \in Calls : \A e \in met[d] : e \in Calls /\ e # c /\ pc[e] # "new" /\ op'[e] = op[e]
  BY <1>3 DEF HistoryBegun, TypeOK
<1>5. \A a \in Made :
         /\ Explained(a) => Explained(a)' \/ sock'[a] \in {"ended", "closed"}
         /\ \A d \in Calls \ {c} : Parted(d, a) => Parted(d, a)'
  <2> SUFFICES ASSUME NEW a \in Made
               PROVE  /\ Explained(a) => Explained(a)' \/ sock'[a] \in {"ended", "closed"}
                      /\ \A d \in Calls \ {c} : Parted(d, a) => Parted(d, a)'
    OBVIOUS
  <2>1. a \in Brokers /\ by[a] \subseteq by'[a]
    BY <1>1, <1>2 DEF Made, TypeOK
  <2>2. /\ sock[a] \in {"stranded", "deaf"} =>
              sock'[a] \in {"stranded", "deaf", "ended", "closed"}
        /\ sock[a] \in {"ended", "closed"} => sock'[a] \in {"ended", "closed"}
    BY <1>1, <1>2, <2>1, KnownBrokers, DisconnectedSockets
  <2>3. \A d \in Calls \ {c} : target'[d] = target[d]
    BY <1>2 DEF TypeOK
  <2> QED
    BY <1>2, <2>1, <2>2, <2>3, BeginsKeeps
<1>10. TypeOK'
  <2>1. /\ sock' \in [Brokers -> Sockets] /\ pc' \in [Calls -> Stages]
        /\ by' \in [Brokers -> SUBSET Calls]
    BY <1>1, <1>2, DisconnectedSockets DEF TypeOK, Sockets, Stages
  <2>2. making' \in [Calls -> 0..MaxBrokers] /\ held' \in [Calls -> Nat]
    BY <1>1, <1>2, BoundsAssumption DEF TypeOK, Brokers
  <2> QED
    BY <1>2, <1>3, <2>1, <2>2 DEF TypeOK
<1>11. Numbered'
  BY <1>1, <1>2, <1>3, <1>4, KnownBrokers DEF Running, Numbered, TypeOK
<1>12. HistoryBegun'
  <2>1. \A d \in Calls : pc'[d] # "new" <=> pc[d] # "new" \/ d = c
    BY <1>2, <1>3 DEF TypeOK
  <2>2. \A a \in Brokers : \A d \in by'[a] : d \in by[a] \/ d = c
    BY <1>1, <1>2 DEF TypeOK
  <2>3. \A a \in Brokers : \A d \in by'[a] : d \in Calls /\ pc'[d] # "new"
    BY <1>4, <2>1, <2>2
  <2>4. \A d \in Calls : \A e \in met'[d] : pc'[e] # "new"
    BY <1>3, <1>4, <2>1 DEF Running
  <2> QED
    BY <2>3, <2>4 DEF HistoryBegun
<1>13. RunningMeet'
  BY <1>1, <1>2, <1>3, <1>4, KnownBrokers DEF Running, RunningMeet, Running, TypeOK
<1>14. StagesOfOps'
  BY <1>1, <1>2, <1>3, <1>4, KnownBrokers DEF Running, StagesOfOps, Connects, TypeOK
<1>15. MakersKnown'
  BY <1>1, <1>2, <1>3, <1>4, KnownBrokers DEF Running, MakersKnown, TypeOK
<1>16. KnownMade'
  BY <1>1, <1>2, <1>3, <1>4, KnownBrokers DEF Running, KnownMade, TypeOK
<1>17. KnownSettled'
  <2> SUFFICES ASSUME NEW a \in Known
               PROVE  \/ sock'[a] \in {"up", "ended", "closed"}
                      \/ \E d \in by'[a] : op'[d] = "ensureConnected"
    BY <1>1 DEF KnownSettled
  <2>1. a \in Brokers /\ a # b /\ a \in Made
    BY <1>1, KnownBrokers DEF KnownMade
  <2>2. by'[a] = by[a] /\ sock'[a] \in {sock[a], Disconnected(sock)[a]}
    BY <1>1, <1>2, <2>1 DEF TypeOK
  <2> QED
    BY <1>4, <2>1, <2>2, DisconnectedSockets DEF KnownSettled, Made
<1>18. GenerationsExplained'
  BY <1>1, <1>2, <1>3, <1>4, KnownBrokers DEF Running, GenerationsExplained, Connects, TypeOK
<1>19. ReplacersDisconnect'
  <2>1. ASSUME NEW d \in Calls, pc'[d] = "seeking", NEW a \in Known
        PROVE  Parted(d, a)'
    <3>1. a \in Made /\ a \in Brokers
      BY KnownBrokers DEF KnownMade
    <3>2. CASE d = c
      BY <1>2, <2>1, <3>2 DEF TypeOK
    <3>3. CASE d # c
      BY <1>2, <1>5, <2>1, <3>1, <3>3 DEF ReplacersDisconnect, TypeOK
    <3> QED
      BY <3>2, <3>3
  <2>2. ASSUME NEW d \in Calls, pc'[d] = "acquiring", op'[d] = "setSeedBroker"
        PROVE  Parted(d, seed)'
    <3>1. CASE d = c
      BY <1>3, <2>2, <3>1
    <3>2. CASE d # c
      <4>1. seed \in Made /\ seed \in Brokers /\ Parted(d, seed)
        BY <1>2, <1>3, <2>2, <3>2, KnownBrokers DEF ReplacersDisconnect, KnownMade, TypeOK
      <4> QED
        BY <1>2, <1>5, <3>2, <4>1 DEF Parted
    <3> QED
      BY <3>1, <3>2
  <2> QED
    BY <1>1, <2>1, <2>2 DEF ReplacersDisconnect
<1>20. FillersMeet'
  <2> SUFFICES ASSUME NEW d \in Calls, pc'[d] = "acquiring", op'[d] = "sendRequestToNode",
                      held'[d] = generation'
               PROVE  LET a == brokerById'[target'[d]]
                      IN  \/ a = 0
                          \/ \E e \in by'[a] : /\ d \in met'[e] /\ op'[e] = op'[d]
                                               /\ target'[e] = target'[d]
    BY DEF FillersMeet
  <2> DEFINE a == brokerById[target[d]]
  <2>1. CASE d = c
    BY <1>2, <2>1 DEF TypeOK
  <2>2. CASE d # c
    <3>1. /\ pc[d] = "acquiring" /\ op[d] = "sendRequestToNode" /\ held[d] = generation
          /\ target'[d] = target[d] /\ brokerById' = brokerById
      BY <1>2, <1>3, <2>2 DEF TypeOK
    <3>2. CASE a = 0
      BY <3>1, <3>2
    <3>3. CASE a # 0
      <4>1. a \in Brokers /\ by'[a] = by[a]
        BY <1>1, <1>2, <3>3, KnownBrokers DEF KnownMade, TypeOK
      <4>2. PICK e \in by[a] : d \in met[e] /\ op[e] = op[d] /\ target[e] = target[d]
        BY <3>1, <3>3 DEF FillersMeet
      <4>3. e \in Calls /\ e # c /\ target'[e] = target[e] /\ op'[e] = op[e] /\ d \in met'[e]
        BY <1>2, <1>3, <1>4, <4>1, <4>2 DEF TypeOK
      <4> QED
        BY <3>1, <4>1, <4>2, <4>3, <1>3, <2>2
    <3> QED
      BY <3>2, <3>3
  <2> QED
    BY <2>1, <2>2
<1>21. Accounted'
  <2> SUFFICES ASSUME NEW a \in Made'
               PROVE  \/ sock'[a] \in {"refused", "ended", "closed"}
                      \/ a \in Known'
                      \/ \E d \in Calls : pc'[d] \in {"seeking", "acquiring"} /\ making'[d] = a
                      \/ Explained(a)'
    BY DEF Accounted
  <2>1. CASE a = b
    BY <1>1, <1>2, <2>1 DEF TypeOK
  <2>2. CASE a \in Made
    <3>1. a \in Brokers
      BY <2>2 DEF Made
    <3>2. \A d \in Calls : pc[d] \in {"seeking", "acquiring"} =>
             pc'[d] = pc[d] /\ making'[d] = making[d]
      BY <1>1, <1>2, <1>3 DEF TypeOK
    <3> QED
      BY <1>1, <1>2, <1>5, <2>2, <3>1, <3>2, DisconnectedSockets DEF Accounted
  <2> QED
    BY <1>1, <2>1, <2>2
<1> QED
  BY <1>10, <1>11, <1>12, <1>13, <1>14, <1>15, <1>16, <1>17, <1>18, <1>19, <1>20, <1>21

(* A broker whose connection cannot be opened rejects the call that made it. *)
LEMMA AcquireFailsStep ==
    ASSUME ClusterInv, NEW c \in Calls, AcquireFails(c)
    PROVE  ClusterInv'
<1> USE DEF ClusterInv
<1>1. Made' = Made /\ Known' = Known
  BY DEF AcquireFails, Made, Known, callVars, clusterVars
<1>10. TypeOK'
  BY <1>1, KnownBrokers DEF AcquireFails, callVars, clusterVars, ConnectRejects, Acquired,
     TypeOK, Stages, Sockets, Ops
<1>11. Numbered'
  BY <1>1, KnownBrokers DEF AcquireFails, callVars, clusterVars, ConnectRejects, Acquired,
     Numbered, TypeOK
<1>12. HistoryBegun'
  BY <1>1, KnownBrokers DEF AcquireFails, callVars, clusterVars, ConnectRejects, Acquired,
     HistoryBegun, TypeOK
<1>13. RunningMeet'
  BY <1>1, KnownBrokers DEF AcquireFails, callVars, clusterVars, ConnectRejects, Acquired,
     RunningMeet, Running, TypeOK
<1>14. StagesOfOps'
  BY <1>1, KnownBrokers DEF AcquireFails, callVars, clusterVars, ConnectRejects, Acquired,
     StagesOfOps, Connects, TypeOK
<1>15. MakersKnown'
  BY <1>1, KnownBrokers DEF AcquireFails, callVars, clusterVars, ConnectRejects, Acquired,
     MakersKnown, TypeOK
<1>16. KnownMade'
  BY <1>1, KnownBrokers DEF AcquireFails, callVars, clusterVars, ConnectRejects, Acquired,
     KnownMade, TypeOK
<1>17. KnownSettled'
  BY <1>1, KnownBrokers DEF AcquireFails, callVars, clusterVars, ConnectRejects, Acquired,
     KnownSettled, TypeOK
<1>18. GenerationsExplained'
  BY <1>1, KnownBrokers DEF AcquireFails, callVars, clusterVars, ConnectRejects, Acquired,
     GenerationsExplained, Connects, TypeOK
<1>19. ReplacersDisconnect'
  BY <1>1, KnownBrokers DEF AcquireFails, callVars, clusterVars, ConnectRejects, Acquired,
     ReplacersDisconnect, Parted, TypeOK
<1>20. FillersMeet'
  BY <1>1, KnownBrokers DEF AcquireFails, callVars, clusterVars, ConnectRejects, Acquired,
     FillersMeet, TypeOK
<1>21. Accounted'
  BY <1>1, KnownBrokers DEF AcquireFails, callVars, clusterVars, ConnectRejects, Acquired,
     Accounted, Explained, Connects, TypeOK
<1> QED
  BY <1>10, <1>11, <1>12, <1>13, <1>14, <1>15, <1>16, <1>17, <1>18, <1>19, <1>20, <1>21

(* setSeedBroker() replaces the seed by the broker it has opened: the old
   seed, if nothing else refers to it, was closed first by the same call. *)
LEMMA SeedAcquiredStep ==
    ASSUME ClusterInv, NEW c \in Calls, SeedAcquired(c)
    PROVE  ClusterInv'
<1> USE DEF ClusterInv
<1>1. /\ making[c] \in Made /\ making[c] # 0 /\ c \in by[making[c]]
      /\ Made' = Made /\ Known \ {seed} \subseteq Known' /\ Known' \subseteq Known \cup {making[c]}
      /\ making[c] \in Known'
  BY DEF SeedAcquired, Acquired, MakersKnown, Made, Known, Range, TypeOK, Brokers
<1>2. /\ pc[c] = "acquiring" /\ pc' = [pc EXCEPT ![c] = "resolved"]
      /\ \A d \in Calls : Running(d) /\ d # c => c \in met[d] /\ d \in met[c]
  BY DEF SeedAcquired, Acquired, RunningMeet, Running
<1>10. TypeOK'
  BY <1>1, KnownBrokers DEF SeedAcquired, Acquired, callVars, TypeOK, Stages, Sockets, Ops
<1>11. Numbered'
  BY <1>1, KnownBrokers DEF SeedAcquired, Acquired, callVars, Numbered, TypeOK
<1>12. HistoryBegun'
  BY <1>1, KnownBrokers DEF SeedAcquired, Acquired, callVars, HistoryBegun, TypeOK
<1>13. RunningMeet'
  BY <1>1, KnownBrokers DEF SeedAcquired, Acquired, callVars, RunningMeet, Running, TypeOK
<1>14. StagesOfOps'
  BY <1>1, KnownBrokers DEF SeedAcquired, Acquired, callVars, StagesOfOps, Connects, TypeOK
<1>15. MakersKnown'
  BY <1>1, KnownBrokers DEF SeedAcquired, Acquired, callVars, MakersKnown, TypeOK
<1>16. KnownMade'
  BY <1>1, KnownBrokers DEF SeedAcquired, Acquired, callVars, KnownMade, TypeOK
<1>17. KnownSettled'
  BY <1>1, KnownBrokers DEF SeedAcquired, Acquired, callVars, KnownSettled, TypeOK
<1>18. GenerationsExplained'
  BY <1>1, KnownBrokers DEF SeedAcquired, Acquired, callVars, GenerationsExplained, Connects,
     TypeOK
<1>19. ReplacersDisconnect'
  BY <1>1, <1>2 DEF SeedAcquired, callVars, ReplacersDisconnect, Parted, Running, TypeOK
<1>20. FillersMeet'
  BY <1>1, KnownBrokers DEF SeedAcquired, Acquired, callVars, FillersMeet, TypeOK
<1>21. Accounted'
  <2>1. seed \in Known => sock[seed] \in {"ended", "closed"} \/ Explained(seed)
    BY <1>2 DEF SeedAcquired, ReplacersDisconnect, Parted, KnownSettled, Explained
  <2>2. \A b : Explained(b) => Explained(b)'
    BY DEF SeedAcquired, Explained, Connects, callVars
  <2> QED
    BY <1>1, <1>2, <2>1, <2>2 DEF SeedAcquired, Accounted, TypeOK
<1> QED
  BY <1>10, <1>11, <1>12, <1>13, <1>14, <1>15, <1>16, <1>17, <1>18, <1>19, <1>20, <1>21

\* The table is still the one that had no broker for the node: it gets the new one.
LEMMA NodeKeptStep ==
    ASSUME ClusterInv, NEW c \in Calls, NodeAcquired(c), held[c] = generation
    PROVE  ClusterInv'
<1> USE DEF ClusterInv
<1>1. /\ pc[c] = "acquiring" /\ op[c] = "sendRequestToNode" /\ sock[making[c]] = "up"
      /\ making[c] \in Made /\ making[c] \in Brokers /\ c \in by[making[c]]
      /\ \A d \in Calls : Running(d) /\ d # c => c \in met[d] /\ d \in met[c]
  BY DEF NodeAcquired, Acquired, MakersKnown, Made, RunningMeet, Running
<1>2. /\ pc' = [pc EXCEPT ![c] = "resolved"]
      /\ brokerById' = [brokerById EXCEPT ![target[c]] = making[c]]
      /\ used' \in [Calls -> 0..MaxBrokers]
      /\ UNCHANGED <<op, target, held, making, waits, seed, generation, known, sock, faults,
                     met, by>>
  <2>1. TableAfter(c) = [brokerById EXCEPT ![target[c]] = making[c]]
    BY DEF TableAfter
  <2>2. TableAfter(c)[target[c]] = making[c] /\ making[c] \in 0..MaxBrokers /\ making[c] # 0
    BY <1>1, <2>1, BoundsAssumption DEF TypeOK, Brokers
  <2> QED
    BY <2>1, <2>2 DEF NodeAcquired, Acquired, callVars, TypeOK
<1>3. Made' = Made
  BY <1>2 DEF Made
<1> DEFINE old == brokerById[target[c]]
<1>4. /\ old \in 0..MaxBrokers
      /\ Known' \subseteq Known \cup {making[c]} /\ Known \ {old} \subseteq Known'
      /\ making[c] \in Known'
  BY <1>1, <1>2 DEF Known, Range, TypeOK, Brokers
<1>5. old # 0 => old \in Known /\ Explained(old)
  BY <1>1, KnownBrokers DEF FillersMeet, Explained, TypeOK
<1>6. \A a : Explained(a) => Explained(a)'
  BY <1>2 DEF Explained, Connects
<1>10. TypeOK'
  BY <1>1, <1>2, <1>3, <1>4, KnownBrokers DEF Running, TypeOK, Stages, Sockets, Ops
<1>11. Numbered'
  BY <1>1, <1>2, <1>3, <1>4, KnownBrokers DEF Running, Numbered, TypeOK
<1>12. HistoryBegun'
  BY <1>1, <1>2, <1>3, <1>4, KnownBrokers DEF Running, HistoryBegun, TypeOK
<1>13. RunningMeet'
  BY <1>1, <1>2, <1>3, <1>4, KnownBrokers DEF Running, RunningMeet, Running, TypeOK
<1>14. StagesOfOps'
  BY <1>1, <1>2, <1>3, <1>4, KnownBrokers DEF Running, StagesOfOps, Connects, TypeOK
<1>15. MakersKnown'
  BY <1>1, <1>2, <1>3, <1>4, KnownBrokers DEF Running, MakersKnown, TypeOK
<1>16. KnownMade'
  BY <1>1, <1>2, <1>3, <1>4, KnownBrokers DEF Running, KnownMade, TypeOK
<1>17. KnownSettled'
  BY <1>1, <1>2, <1>3, <1>4, KnownBrokers DEF Running, KnownSettled, TypeOK
<1>18. GenerationsExplained'
  BY <1>1, <1>2, <1>3, <1>4, KnownBrokers DEF Running, GenerationsExplained, Connects, TypeOK
<1>19. ReplacersDisconnect'
  BY <1>1, <1>2, <1>3, <1>4, KnownBrokers DEF Running, ReplacersDisconnect, Parted, TypeOK
<1>20. FillersMeet'
  BY <1>1, <1>2, <1>3, <1>4, KnownBrokers DEF Running, FillersMeet, TypeOK
<1>21. Accounted'
  <2> SUFFICES ASSUME NEW a \in Made
               PROVE  \/ sock[a] \in {"refused", "ended", "closed"}
                      \/ a \in Known'
                      \/ \E d \in Calls : pc'[d] \in {"seeking", "acquiring"} /\ making[d] = a
                      \/ Explained(a)
    BY <1>2, <1>3, <1>6 DEF Accounted
  <2>1. \A d \in Calls : d # c => pc'[d] = pc[d]
    BY <1>2 DEF TypeOK
  <2>2. a \in Known => a # 0
    BY DEF Known
  <2> QED
    BY <1>4, <1>5, <2>1, <2>2 DEF Accounted
<1> QED
  BY <1>10, <1>11, <1>12, <1>13, <1>14, <1>15, <1>16, <1>17, <1>18, <1>19, <1>20, <1>21

\* The table has been replaced: the new broker is nowhere, and maybe there is none.
LEMMA NodeLostStep ==
    ASSUME ClusterInv, NEW c \in Calls, NodeAcquired(c), held[c] # generation
    PROVE  ClusterInv'
<1> USE DEF ClusterInv
<1>1. /\ pc[c] = "acquiring" /\ op[c] = "sendRequestToNode" /\ sock[making[c]] = "up"
      /\ making[c] \in Made /\ making[c] \in Brokers /\ c \in by[making[c]]
      /\ \A d \in Calls : Running(d) /\ d # c => c \in met[d] /\ d \in met[c]
  BY DEF NodeAcquired, Acquired, MakersKnown, Made, RunningMeet, Running
<1>2. /\ pc'[c] \in {"resolved", "undefined"} /\ pc' = [pc EXCEPT ![c] = pc'[c]]
      /\ used' \in [Calls -> 0..MaxBrokers]
      /\ brokerById' = brokerById
      /\ UNCHANGED <<op, target, held, making, waits, seed, generation, known, sock, faults,
                     met, by>>
  BY <1>1 DEF NodeAcquired, Acquired, TableAfter, callVars, TypeOK
<1>3. Made' = Made /\ Known' = Known
  BY <1>2 DEF Made, Known
<1>4. Explained(making[c])
  <2>1. PICK d \in met[c] : Connects(d)
    BY <1>1 DEF GenerationsExplained
  <2> QED
    BY <1>1, <2>1 DEF Explained
<1>5. \A a : Explained(a) => Explained(a)'
  BY <1>2 DEF Explained, Connects
<1>10. TypeOK'
  BY <1>1, <1>2, <1>3, KnownBrokers DEF Running, TypeOK, Stages, Sockets, Ops
<1>11. Numbered'
  BY <1>1, <1>2, <1>3, KnownBrokers DEF Running, Numbered, TypeOK
<1>12. HistoryBegun'
  BY <1>1, <1>2, <1>3, KnownBrokers DEF Running, HistoryBegun, TypeOK
<1>13. RunningMeet'
  BY <1>1, <1>2, <1>3, KnownBrokers DEF Running, RunningMeet, Running, TypeOK
<1>14. StagesOfOps'
  BY <1>1, <1>2, <1>3, KnownBrokers DEF Running, StagesOfOps, Connects, TypeOK
<1>15. MakersKnown'
  BY <1>1, <1>2, <1>3, KnownBrokers DEF Running, MakersKnown, TypeOK
<1>16. KnownMade'
  BY <1>1, <1>2, <1>3, KnownBrokers DEF Running, KnownMade, TypeOK
<1>17. KnownSettled'
  BY <1>1, <1>2, <1>3, KnownBrokers DEF Running, KnownSettled, TypeOK
<1>18. GenerationsExplained'
  BY <1>1, <1>2, <1>3, KnownBrokers DEF Running, GenerationsExplained, Connects, TypeOK
<1>19. ReplacersDisconnect'
  BY <1>1, <1>2, <1>3, KnownBrokers DEF Running, ReplacersDisconnect, Parted, TypeOK
<1>20. FillersMeet'
  BY <1>1, <1>2, <1>3, KnownBrokers DEF Running, FillersMeet, TypeOK
<1>21. Accounted'
  BY <1>1, <1>2, <1>3, <1>4, <1>5 DEF Accounted, TypeOK
<1> QED
  BY <1>10, <1>11, <1>12, <1>13, <1>14, <1>15, <1>16, <1>17, <1>18, <1>19, <1>20, <1>21

(* Every step of the cluster keeps the invariant. *)
LEMMA InvStep == ClusterInv /\ [Next]_vars => ClusterInv'
<1> SUFFICES ASSUME ClusterInv, [Next]_vars PROVE ClusterInv'
  OBVIOUS
<1>1. ASSUME NEW b \in Brokers,
             \/ SocketOpens(b) \/ SocketFails(b) \/ SocketCloses(b)
             \/ HandshakeEnds(b) \/ HandshakeFails(b)
      PROVE  ClusterInv'
  BY <1>1, SocketStep
<1>2. ASSUME NEW c \in Calls,
             \/ Reconnect(c) \/ SeedFails(c) \/ SeedFound(c)
             \/ MetadataArrives(c) \/ MetadataFails(c)
      PROVE  ClusterInv'
  BY <1>2, ReconnectStep, SeedRetriesStep, SeedGivesUpStep, SeedFoundStep,
     MetadataArrivesStep, MetadataFailsStep
<1>3. ASSUME NEW c \in Calls,
             \/ EnsureConnected(c) \/ EnsureSucceeds(c) \/ EnsureFails(c)
             \/ Disconnect(c)
      PROVE  ClusterInv'
  BY <1>3, EnsureConnectsStep, EnsureReconnectsStep, EnsureSucceedsStep, EnsureFailsStep,
     DisconnectStep
<1>4. ASSUME NEW c \in Calls, SetSeedBroker(c) \/ SeedAcquired(c) \/ AcquireFails(c)
      PROVE  ClusterInv'
  BY <1>4, SetSeedRejectsStep, SetSeedAcquiresStep, SeedAcquiredStep, AcquireFailsStep
<1>5. ASSUME NEW c \in Calls,
             NodeAcquired(c) \/ \E n \in Nodes : SendRequestToNode(c, n)
      PROVE  ClusterInv'
  BY <1>5, NodeKeptStep, NodeLostStep, SendEndsStep, SendAcquiresStep
<1>6. CASE UNCHANGED vars
  <2>1. /\ Made' = Made /\ Known' = Known
        /\ UNCHANGED <<op, target, held, pc, making, waits, used, seed, brokerById,
                       generation, known, sock, faults, met, by>>
    BY <1>6 DEF vars, callVars, clusterVars, Made, Known
  <2>2. (TypeOK /\ Numbered /\ HistoryBegun /\ RunningMeet /\ StagesOfOps)'
    BY <2>1 DEF ClusterInv, TypeOK, Numbered, HistoryBegun, RunningMeet, Running, StagesOfOps,
       Connects
  <2>3. (MakersKnown /\ KnownMade /\ KnownSettled /\ GenerationsExplained)'
    BY <2>1 DEF ClusterInv, MakersKnown, KnownMade, KnownSettled, GenerationsExplained, Connects
  <2>4. (ReplacersDisconnect /\ FillersMeet)'
    BY <2>1 DEF ClusterInv, ReplacersDisconnect, Parted, FillersMeet
  <2>5. \A b : Explained(b) => Explained(b)'
    BY <2>1 DEF Explained, Connects
  <2>6. Accounted'
    BY <2>1, <2>5 DEF ClusterInv, Accounted
  <2> QED
    BY <2>2, <2>3, <2>4, <2>6 DEF ClusterInv
<1> QED
  BY <1>1, <1>2, <1>3, <1>4, <1>5, <1>6 DEF Next

-----------------------------------------------------------------------------
(* The theorems.                                                           *)

\* Every reachable state is as the calls, the brokers and the history are
\* related in ClusterInv, whatever calls overlap and whatever breaks.
THEOREM Invariant == Spec => []ClusterInv
<1> QED
  BY InitInv, InvStep, PTL DEF Spec

\* Every variable keeps its type: the seed and the table hold brokers that
\* can exist, a call is at a stage it has.
THEOREM TypeCorrect == Spec => []TypeOK
<1>1. ClusterInv => TypeOK
  BY DEF ClusterInv
<1> QED
  BY <1>1, Invariant, PTL

\* Only a failed handshake, a disconnect() of a connection that opens, or an
\* overlap with a call that replaces the seed, the table or the node's entry
\* loses sight of an open connection.
THEOREM LeaksExplained == Spec => []LeakExplained
<1>1. ClusterInv => LeakExplained
  <2> SUFFICES ASSUME ClusterInv, NEW b \in Made, Leaked(b), sock[b] # "refused"
               PROVE  \E c \in by[b] :
                         \/ sock[b] = "deaf" /\ op[c] = "ensureConnected"
                         \/ \E d \in met[c] :
                               \/ op[d] \in {"reconnect", "ensureConnected", "setSeedBroker"}
                               \/ op[d] = op[c] /\ target[d] = target[c]
    BY DEF LeakExplained
  <2>1. Explained(b)
    BY DEF ClusterInv, Accounted, Leaked, Running
  <2> QED
    BY <2>1 DEF Explained, Connects, Leaked
<1> QED
  BY <1>1, Invariant, PTL

\* sendRequestToNode() ends without a broker only when a connect() that it met
\* has replaced the table it was assigning to.
THEOREM UndefinedHasCause == Spec => []UndefinedExplained
<1>1. ClusterInv => UndefinedExplained
  BY DEF ClusterInv, UndefinedExplained, GenerationsExplained, StagesOfOps, Connects
<1> QED
  BY <1>1, Invariant, PTL

\* A request for a node goes to a broker whose handshake was done, or to one
\* that ensureConnected() has reopened in place.
THEOREM HandshakeComesFirst == Spec => RequestsFollowHandshake
<1>1. ClusterInv /\ [Next]_vars =>
        [\A c \in Calls : used'[c] # used[c] /\ used'[c] # 0 =>
            \/ sock[used'[c]] \in {"up", "ended", "closed"}
            \/ \E d \in by[used'[c]] : op[d] = "ensureConnected"]_vars
  <2> SUFFICES ASSUME ClusterInv, Next, NEW c \in Calls, used'[c] # used[c], used'[c] # 0
               PROVE  \/ sock[used'[c]] \in {"up", "ended", "closed"}
                      \/ \E d \in by[used'[c]] : op[d] = "ensureConnected"
    OBVIOUS
  <2> USE DEF ClusterInv
  <2>1. CASE \E n \in Nodes : SendRequestToNode(c, n)
    <3>1. used'[c] \in Known
      BY <2>1, KnownBrokers DEF SendRequestToNode, TypeOK
    <3> QED
      BY <3>1 DEF KnownSettled
  <2>2. CASE NodeAcquired(c)
    <3>1. used'[c] = making[c] \/ used'[c] \in Known
      BY <2>2, KnownBrokers DEF NodeAcquired, TableAfter, TypeOK
    <3> QED
      BY <2>2, <3>1 DEF KnownSettled, NodeAcquired, Acquired
  <2>3. CASE \E d \in Calls \ {c} : NodeAcquired(d) \/ \E n \in Nodes : SendRequestToNode(d, n)
    BY <2>3 DEF NodeAcquired, SendRequestToNode, TypeOK
  <2>4. ASSUME UNCHANGED used PROVE FALSE
    BY <2>4
  <2> QED
    BY <2>1, <2>2, <2>3, <2>4 DEF Next, SocketOpens, SocketFails, SocketCloses, HandshakeEnds,
       HandshakeFails, Reconnect, SeedFails, SeedFound, MetadataArrives, MetadataFails,
       EnsureConnected, EnsureSucceeds, EnsureFails, Disconnect, SetSeedBroker, AcquireFails,
       SeedAcquired
<1> QED
  BY <1>1, Invariant, PTL DEF Spec, RequestsFollowHandshake
=============================================================================
