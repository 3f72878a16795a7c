-------------------------- MODULE ConnectionProofs --------------------------
(***************************************************************************)
(* What TLC checks of Connection on two requests, proved for every set of  *)
(* requests, every largest correlation id and every number of sockets.     *)
(***************************************************************************)
EXTENDS Connection, SequenceTheorems, TLAPS

-----------------------------------------------------------------------------
(* The inductive invariant.                                                *)

\* The requests that got a correlation id.
Sent == {r \in Requests : on[r] # 0}

\* A request waits only once it is sent, to a socket there has been; what was
\* sent is not new.
SentIsCalled ==
    /\ \A r \in Requests : on[r] <= socket
    /\ \A r \in Requests : pc[r] = "new" => r \notin Sent
    /\ \A r \in Requests : pc[r] = "waiting" => r \in Sent
    /\ timer \cup unwritten \cup inbox \subseteq Sent
    /\ \A i \in DOMAIN queue : queue[i] \in Sent

\* No two requests share a correlation id, used or yet to be used.
IdsDistinct ==
    /\ \A r \in Sent : id[r] < lastCorrelationId
    /\ \A r, s \in Sent : id[r] = id[s] => r = s

\* A request that waits is found by its id, unless connect() dropped it.
WaitingQueued ==
    \A r \in Requests :
        pc[r] = "waiting" /\ r \notin forgotten =>
            id[r] \in DOMAIN queue /\ queue[id[r]] = r

\* Only the current socket opens, while its connect() is pending, and what
\* was written to it is kept.
OpeningKeepsWrites ==
    \A k \in Sockets : state[k] = "opening" =>
        /\ k = socket /\ k \in connecting
        /\ \A r \in Requests :
              on[r] = k /\ pc[r] = "waiting" => r \in inbox \cup unwritten \cup forgotten

\* What was read and not yet handled, and what is on its way.
Stream == chunks \o wire

\* The stream is made of frames, each under the id of the request it answers.
Framed ==
    /\ \A i \in 1..Len(Stream) : /\ Stream[i].part = "head" <=> i % 2 = 1
                                 /\ Stream[i].request \in Sent
                                 /\ Stream[i].id = id[Stream[i].request]
    /\ socket # 0 /\ state[socket] \in {"opening", "open", "ended"} =>
            Len(Stream) % 2 = 0

ConnectionInv ==
    /\ TypeOK
    /\ SentIsCalled
    /\ IdsDistinct
    /\ WaitingQueued
    /\ OpeningKeepsWrites
    /\ Framed
    /\ ClosedSocketRejects
-----------------------------------------------------------------------------
(* Sequences of units.                                                     *)

\* What arrives on the wire is appended to the stream.
LEMMA StreamGrows ==
    ASSUME chunks \in Seq(Units), wire \in Seq(Units), NEW f \in Seq(Units)
    PROVE  /\ Stream \in Seq(Units)
           /\ chunks \o (wire \o f) = Stream \o f
  BY ConcatAssociative DEF Stream

\* What is left of a sequence without its first k elements.
LEMMA Suffix ==
    ASSUME NEW S, NEW s \in Seq(S), NEW k \in 0..Len(s)
    PROVE  /\ SubSeq(s, k + 1, Len(s)) \in Seq(S)
           /\ Len(SubSeq(s, k + 1, Len(s))) = Len(s) - k
           /\ \A i \in 1..(Len(s) - k) : SubSeq(s, k + 1, Len(s))[i] = s[i + k]
<1> DEFINE t == SubSeq(s, k + 1, Len(s))
<1>1. Len(s) \in Nat /\ k \in Nat /\ k <= Len(s)
  OBVIOUS
<1>2. \A i \in (k + 1)..Len(s) : s[i] \in S
  BY <1>1
<1>3. /\ t \in Seq(S)
      /\ Len(t) = IF k + 1 <= Len(s) THEN Len(s) - (k + 1) + 1 ELSE 0
      /\ \A i \in 1..(Len(s) - (k + 1) + 1) : t[i] = s[k + 1 + i - 1]
  <2> DEFINE m == k + 1  n == Len(s)
  <2>1. m \in Int /\ n \in Int /\ \A i \in m..n : s[i] \in S
    BY <1>1, <1>2
  <2> HIDE DEF m, n
  <2>2. /\ SubSeq(s, m, n) \in Seq(S)
        /\ Len(SubSeq(s, m, n)) = IF m <= n THEN n - m + 1 ELSE 0
        /\ \A i \in 1..(n - m + 1) : SubSeq(s, m, n)[i] = s[m + i - 1]
    BY <2>1, SubSeqProperties
  <2> QED
    BY <2>2 DEF m, n
<1> HIDE DEF t
<1>4. Len(t) = Len(s) - k
  <2>1. CASE k = Len(s)
    BY <1>1, <1>3, <2>1
  <2>2. CASE k < Len(s)
    BY <1>1, <1>3, <2>2
  <2> QED
    BY <1>1, <2>1, <2>2
<1>5. ASSUME NEW i \in 1..(Len(s) - k)
      PROVE  t[i] = s[i + k]
  <2>1. i \in 1..(Len(s) - (k + 1) + 1) /\ k + 1 + i - 1 = i + k
    BY <1>1
  <2> QED
    BY <1>3, <2>1
<1> QED
  BY <1>3, <1>4, <1>5 DEF t

\* The elements of two sequences joined.
LEMMA Joined ==
    ASSUME NEW S, NEW s \in Seq(S), NEW t \in Seq(S)
    PROVE  /\ s \o t \in Seq(S) /\ Len(s \o t) = Len(s) + Len(t)
           /\ \A i \in 1..Len(s) : (s \o t)[i] = s[i]
           /\ \A i \in 1..Len(t) : (s \o t)[Len(s) + i] = t[i]
<1> Len(s) \in Nat /\ Len(t) \in Nat
  OBVIOUS
<1> QED
  OBVIOUS

\* Reading n units off wire into chunks, and then the whole pairs off chunks,
\* takes an even number of units off the stream.
LEMMA StreamRead ==
    ASSUME chunks \in Seq(Units), wire \in Seq(Units), NEW n \in 1..Len(wire)
    PROVE  LET buf == chunks \o SubSeq(wire, 1, n)
               m == Len(buf) \div 2
               c2 == SubSeq(buf, 2 * m + 1, Len(buf))
               w2 == SubSeq(wire, n + 1, Len(wire))
           IN  /\ buf \in Seq(Units) /\ c2 \in Seq(Units) /\ w2 \in Seq(Units)
               /\ m \in Nat /\ 2 * m <= Len(buf) /\ Len(buf) <= Len(chunks \o wire)
               /\ \A i \in 1..Len(buf) : buf[i] = (chunks \o wire)[i]
               /\ Len(c2 \o w2) = Len(chunks \o wire) - 2 * m
               /\ \A i \in 1..Len(c2 \o w2) : /\ i + 2 * m \in 1..Len(chunks \o wire)
                                             /\ (c2 \o w2)[i] = (chunks \o wire)[i + 2 * m]
<1> DEFINE w1 == SubSeq(wire, 1, n)
           buf == chunks \o w1
           m == Len(buf) \div 2
           p == 2 * m
           c2 == SubSeq(buf, p + 1, Len(buf))
           w2 == SubSeq(wire, n + 1, Len(wire))
           st == chunks \o wire
           st2 == c2 \o w2
<1>1. /\ Len(chunks) \in Nat /\ Len(wire) \in Nat
      /\ n \in Nat /\ n <= Len(wire) /\ n >= 1
  OBVIOUS
<1>2. /\ w1 \in Seq(Units) /\ Len(w1) = n
      /\ \A i \in 1..n : w1[i] = wire[i]
  OBVIOUS
<1>3. /\ w2 \in Seq(Units) /\ Len(w2) = Len(wire) - n
      /\ \A i \in 1..(Len(wire) - n) : w2[i] = wire[i + n]
  <2>1. n \in 0..Len(wire)
    BY <1>1
  <2> QED
    BY <2>1, Suffix
<1> HIDE DEF w2, w1
<1>4. /\ buf \in Seq(Units) /\ Len(buf) = Len(chunks) + n
      /\ \A i \in 1..Len(chunks) : buf[i] = chunks[i]
      /\ \A i \in 1..n : buf[Len(chunks) + i] = wire[i]
  <2>1. w1 \in Seq(Units)
    BY <1>2
  <2>2. /\ buf \in Seq(Units) /\ Len(buf) = Len(chunks) + Len(w1)
        /\ \A i \in 1..Len(chunks) : buf[i] = chunks[i]
        /\ \A i \in 1..Len(w1) : buf[Len(chunks) + i] = w1[i]
    BY <2>1, Joined
  <2> HIDE DEF buf
  <2> QED
    BY <1>2, <2>1, <2>2
<1> HIDE DEF buf
<1>5. m \in Nat /\ p \in Nat /\ p <= Len(buf)
  BY <1>1, <1>4
<1> HIDE DEF p
<1>6. /\ c2 \in Seq(Units) /\ Len(c2) = Len(buf) - p
      /\ \A i \in 1..(Len(buf) - p) : c2[i] = buf[i + p]
  <2>1. p \in 0..Len(buf)
    BY <1>1, <1>4, <1>5
  <2> QED
    BY <1>4, <2>1, Suffix
<1> HIDE DEF c2
<1>7. /\ st \in Seq(Units) /\ Len(st) = Len(chunks) + Len(wire)
      /\ \A i \in 1..Len(chunks) : st[i] = chunks[i]
      /\ \A i \in 1..Len(wire) : st[Len(chunks) + i] = wire[i]
  BY <1>1
<1>8. /\ st2 \in Seq(Units) /\ Len(st2) = Len(c2) + Len(w2)
      /\ \A i \in 1..Len(c2) : st2[i] = c2[i]
      /\ \A i \in 1..Len(w2) : st2[Len(c2) + i] = w2[i]
  <2>1. c2 \in Seq(Units) /\ w2 \in Seq(Units)
    BY <1>3, <1>6
  <2> QED
    BY <2>1, Joined
<1> HIDE DEF st, st2
<1>9. ASSUME NEW i \in 1..Len(buf)
      PROVE  buf[i] = st[i]
  <2>1. CASE i <= Len(chunks)
    BY <1>1, <1>4, <1>7, <2>1
  <2>2. CASE i > Len(chunks)
    <3> DEFINE j == i - Len(chunks)
    <3>1. j \in 1..n /\ j \in 1..Len(wire) /\ i = Len(chunks) + j
      BY <1>1, <1>4, <2>2
    <3> HIDE DEF j
    <3> QED
      BY <1>4, <1>7, <3>1
  <2> QED
    BY <1>1, <1>4, <2>1, <2>2
<1>10. Len(st2) = Len(st) - p
  BY <1>1, <1>3, <1>4, <1>5, <1>6, <1>7, <1>8
<1>11. ASSUME NEW i \in 1..Len(st2)
       PROVE  i + p \in 1..Len(st) /\ st2[i] = st[i + p]
  <2>1. i \in Nat /\ i >= 1 /\ i + p \in 1..Len(st)
    BY <1>1, <1>5, <1>7, <1>10
  <2>2. CASE i <= Len(c2)
    <3>1. i \in 1..Len(c2) /\ i \in 1..(Len(buf) - p) /\ i + p \in 1..Len(buf)
      BY <1>1, <1>4, <1>5, <1>6, <2>1, <2>2
    <3> QED
      BY <1>6, <1>8, <1>9, <2>1, <3>1
  <2>3. CASE i > Len(c2)
    <3> DEFINE j == i - Len(c2)
    <3>1. Len(c2) \in Nat /\ Len(w2) = Len(wire) - n /\ Len(st2) = Len(c2) + Len(w2)
      BY <1>3, <1>6, <1>8
    <3>2. Len(c2) = Len(chunks) + n - p /\ p \in Nat
      BY <1>1, <1>4, <1>5, <1>6
    <3>3. j \in 1..Len(w2) /\ j \in 1..(Len(wire) - n) /\ i = Len(c2) + j
      BY <1>1, <2>1, <2>3, <3>1
    <3>4. j + n \in 1..Len(wire) /\ i + p = Len(chunks) + (j + n)
      BY <1>1, <3>3, <3>2
    <3> HIDE DEF j
    <3> QED
      BY <1>3, <1>7, <1>8, <2>1, <3>3, <3>4
  <2> QED
    BY <1>1, <1>4, <1>5, <1>6, <2>1, <2>2, <2>3
<1>12. Len(buf) <= Len(st)
  BY <1>1, <1>4, <1>7
<1> QED
  BY <1>3, <1>4, <1>5, <1>6, <1>9, <1>10, <1>11, <1>12 DEF st, st2, p, c2, w2, buf, w1

-----------------------------------------------------------------------------
(* Every action keeps the invariant.                                       *)

\* connect() starts over with an empty stream on a socket nothing was sent to.
LEMMA ConnectStep ==
    ASSUME ConnectionInv, Connect
    PROVE  ConnectionInv'
<1> USE BoundsAssumption DEF ConnectionInv, requestVars, socketVars, Sockets, Units,
                             ResetStream, EmptyQueue
<1>1. TypeOK'
  BY DEF TypeOK, Connect
<1>2. SentIsCalled'
  BY DEF SentIsCalled, Connect, TypeOK, Sent
<1>3. IdsDistinct'
  BY DEF IdsDistinct, Connect, TypeOK, Sent
<1>4. WaitingQueued'
  BY DEF WaitingQueued, Connect, TypeOK
<1>5. OpeningKeepsWrites'
  BY DEF OpeningKeepsWrites, SentIsCalled, Connect, TypeOK
<1>6. Framed'
  BY DEF Framed, Connect, TypeOK, Sent, Stream
<1>7. ClosedSocketRejects'
  BY DEF ClosedSocketRejects, Connect, TypeOK
<1> QED
  BY <1>1, <1>2, <1>3, <1>4, <1>5, <1>6, <1>7

\* Opening a socket drops nothing that was written to it.
LEMMA SocketOpensStep ==
    ASSUME ConnectionInv, SocketOpens
    PROVE  ConnectionInv'
<1> USE BoundsAssumption DEF ConnectionInv, requestVars, socketVars, Sockets, Units,
                             ResetStream, EmptyQueue
<1>1. TypeOK'
  BY DEF TypeOK, SocketOpens
<1>2. SentIsCalled'
  BY DEF SentIsCalled, SocketOpens, TypeOK, Sent
<1>3. IdsDistinct'
  BY DEF IdsDistinct, SocketOpens, TypeOK, Sent
<1>4. WaitingQueued'
  BY DEF WaitingQueued, SocketOpens, TypeOK
<1>5. OpeningKeepsWrites'
  BY DEF OpeningKeepsWrites, SocketOpens, TypeOK
<1>6. Framed'
  BY DEF Framed, SocketOpens, TypeOK, Sent, Stream
<1>7. ClosedSocketRejects'
  BY DEF ClosedSocketRejects, SocketOpens, TypeOK
<1> QED
  BY <1>1, <1>2, <1>3, <1>4, <1>5, <1>6, <1>7

\* What waits on a socket that fails was written to it: its write fails.
LEMMA SocketFailsStep ==
    ASSUME ConnectionInv, SocketFails
    PROVE  ConnectionInv'
<1> USE BoundsAssumption DEF ConnectionInv, requestVars, socketVars, Sockets, Units,
                             ResetStream, EmptyQueue
<1>1. TypeOK'
  BY DEF TypeOK, SocketFails
<1>2. SentIsCalled'
  BY DEF SentIsCalled, SocketFails, TypeOK, Sent
<1>3. IdsDistinct'
  BY DEF IdsDistinct, SocketFails, TypeOK, Sent
<1>4. WaitingQueued'
  BY DEF WaitingQueued, SocketFails, TypeOK
<1>5. OpeningKeepsWrites'
  BY DEF OpeningKeepsWrites, SocketFails, TypeOK
<1>6. Framed'
  BY DEF Framed, SocketFails, TypeOK, Sent, Stream
<1>7. ClosedSocketRejects'
  BY DEF ClosedSocketRejects, OpeningKeepsWrites, SocketFails, TypeOK
<1> QED
  BY <1>1, <1>2, <1>3, <1>4, <1>5, <1>6, <1>7

\* disconnect() takes the listeners of its socket away.
LEMMA DisconnectStep ==
    ASSUME ConnectionInv, Disconnect
    PROVE  ConnectionInv'
<1> USE BoundsAssumption DEF ConnectionInv, requestVars, socketVars, Sockets, Units,
                             ResetStream, EmptyQueue
<1>1. TypeOK'
  BY DEF TypeOK, Disconnect
<1>2. SentIsCalled'
  BY DEF SentIsCalled, Disconnect, TypeOK, Sent
<1>3. IdsDistinct'
  BY DEF IdsDistinct, Disconnect, TypeOK, Sent
<1>4. WaitingQueued'
  BY DEF WaitingQueued, Disconnect, TypeOK
<1>5. OpeningKeepsWrites'
  BY DEF OpeningKeepsWrites, Disconnect, TypeOK
<1>6. Framed'
  BY DEF Framed, Disconnect, TypeOK, Sent, Stream
<1>7. ClosedSocketRejects'
  BY DEF ClosedSocketRejects, Disconnect, TypeOK
<1> QED
  BY <1>1, <1>2, <1>3, <1>4, <1>5, <1>6, <1>7

\* What was read before the connection broke is still a stretch of frames.
LEMMA SocketBreaksStep ==
    ASSUME ConnectionInv, SocketBreaks
    PROVE  ConnectionInv'
<1> USE BoundsAssumption DEF ConnectionInv, requestVars, socketVars, Sockets, Units,
                             ResetStream, EmptyQueue
<1>1. TypeOK'
  BY DEF TypeOK, SocketBreaks, IsConnected
<1>2. SentIsCalled'
  BY DEF SentIsCalled, SocketBreaks, IsConnected, TypeOK, Sent
<1>3. IdsDistinct'
  BY DEF IdsDistinct, SocketBreaks, IsConnected, TypeOK, Sent
<1>4. WaitingQueued'
  BY DEF WaitingQueued, SocketBreaks, IsConnected, TypeOK
<1>5. OpeningKeepsWrites'
  BY DEF OpeningKeepsWrites, SocketBreaks, IsConnected, TypeOK
<1>6. Framed'
  <2>1. Stream' = chunks
    BY DEF SocketBreaks, TypeOK, Stream
  <2>2. \A i \in 1..Len(chunks) : i \in 1..Len(Stream) /\ Stream[i] = chunks[i]
    BY DEF TypeOK, Stream
  <2>3. UNCHANGED <<id, on, socket>> /\ (socket # 0 => state'[socket] = "destroyed")
    BY DEF SocketBreaks, TypeOK
  <2>4. Sent' = Sent
    BY <2>3 DEF Sent
  <2> QED
    BY <2>1, <2>2, <2>3, <2>4 DEF Framed
<1>7. ClosedSocketRejects'
  BY DEF ClosedSocketRejects, SocketBreaks, IsConnected, TypeOK
<1> QED
  BY <1>1, <1>2, <1>3, <1>4, <1>5, <1>6, <1>7

\* A request sent gets an id of its own.
LEMMA SendRequestStep ==
    ASSUME ConnectionInv, NEW r \in Requests, SendRequest(r)
    PROVE  ConnectionInv'
<1> USE BoundsAssumption DEF ConnectionInv, requestVars, socketVars, Sockets, Units,
                             ResetStream, EmptyQueue
<1>1. TypeOK'
  <2>1. /\ id' \in [Requests -> 0..MaxId] /\ lastCorrelationId' \in Nat
        /\ pc' \in [Requests -> {"new", "waiting", "resolved", "rejected"}]
        /\ on' \in [Requests -> 0..MaxSockets]
        /\ UNCHANGED <<result, socket, state, listening, connecting, chunks, wire,
                       forgotten>>
    BY DEF TypeOK, SendRequest, NextCorrelationId
  <2>2. /\ timer' \cup unwritten' \subseteq {q \in Requests : pc'[q] # "new"}
        /\ inbox' \subseteq Requests
    BY DEF TypeOK, SendRequest
  <2>3. \A i \in DOMAIN queue' : /\ queue'[i] \in Requests /\ id'[queue'[i]] = i
                                 /\ i < lastCorrelationId'
    BY DEF TypeOK, SentIsCalled, Sent, SendRequest, NextCorrelationId
  <2> QED
    BY <2>1, <2>3, <2>2 DEF TypeOK
<1>2. SentIsCalled'
  BY DEF SentIsCalled, SendRequest, NextCorrelationId, TypeOK, Sent
<1>3. IdsDistinct'
  BY DEF IdsDistinct, SendRequest, NextCorrelationId, TypeOK, Sent
<1>4. WaitingQueued'
  BY DEF WaitingQueued, SendRequest, NextCorrelationId, TypeOK
<1>5. OpeningKeepsWrites'
  BY DEF OpeningKeepsWrites, SendRequest, NextCorrelationId, TypeOK
<1>6. Framed'
  <2>1. \A q \in Sent : q # r /\ q \in Sent' /\ id'[q] = id[q]
    BY DEF TypeOK, SentIsCalled, Sent, SendRequest
  <2>2. UNCHANGED <<chunks, wire, socket, state>>
    BY DEF SendRequest
  <2> QED
    BY <2>1, <2>2 DEF Framed, Stream
<1>7. ClosedSocketRejects'
  BY DEF ClosedSocketRejects, SendRequest, NextCorrelationId, TypeOK
<1> QED
  BY <1>1, <1>2, <1>3, <1>4, <1>5, <1>6, <1>7

\* A request refused for its id is in no queue.
LEMMA IdOverflowsStep ==
    ASSUME ConnectionInv, NEW r \in Requests, IdOverflows(r)
    PROVE  ConnectionInv'
<1> USE BoundsAssumption DEF ConnectionInv, requestVars, socketVars, Sockets, Units,
                             ResetStream, EmptyQueue
<1>1. TypeOK'
  BY DEF TypeOK, IdOverflows, NextCorrelationId
<1>2. SentIsCalled'
  BY DEF SentIsCalled, IdOverflows, NextCorrelationId, TypeOK, Sent
<1>3. IdsDistinct'
  BY DEF IdsDistinct, IdOverflows, NextCorrelationId, TypeOK, Sent
<1>4. WaitingQueued'
  BY DEF WaitingQueued, IdOverflows, NextCorrelationId, TypeOK
<1>5. OpeningKeepsWrites'
  BY DEF OpeningKeepsWrites, IdOverflows, NextCorrelationId, TypeOK
<1>6. Framed'
  BY DEF Framed, IdOverflows, NextCorrelationId, TypeOK, Sent, Stream
<1>7. ClosedSocketRejects'
  BY DEF ClosedSocketRejects, IdOverflows, NextCorrelationId, TypeOK
<1> QED
  BY <1>1, <1>2, <1>3, <1>4, <1>5, <1>6, <1>7

\* A write that fails settles its request only.
LEMMA WriteFailsStep ==
    ASSUME ConnectionInv, NEW r \in Requests, WriteFails(r)
    PROVE  ConnectionInv'
<1> USE BoundsAssumption DEF ConnectionInv, requestVars, socketVars, Sockets, Units,
                             ResetStream, EmptyQueue
<1>1. TypeOK'
  BY DEF TypeOK, WriteFails, Settle
<1>2. SentIsCalled'
  BY DEF SentIsCalled, WriteFails, Settle, TypeOK, Sent
<1>3. IdsDistinct'
  BY DEF IdsDistinct, WriteFails, Settle, TypeOK, Sent
<1>4. WaitingQueued'
  BY DEF WaitingQueued, WriteFails, Settle, TypeOK
<1>5. OpeningKeepsWrites'
  BY DEF OpeningKeepsWrites, WriteFails, Settle, TypeOK
<1>6. Framed'
  BY DEF Framed, WriteFails, Settle, TypeOK, Sent, Stream
<1>7. ClosedSocketRejects'
  BY DEF ClosedSocketRejects, WriteFails, Settle, TypeOK
<1> QED
  BY <1>1, <1>2, <1>3, <1>4, <1>5, <1>6, <1>7

\* A request that times out takes its own entry off the queue.
LEMMA RequestTimesOutStep ==
    ASSUME ConnectionInv, NEW r \in Requests, RequestTimesOut(r)
    PROVE  ConnectionInv'
<1> USE BoundsAssumption DEF ConnectionInv, requestVars, socketVars, Sockets, Units,
                             ResetStream, EmptyQueue
<1>1. TypeOK'
  BY DEF TypeOK, RequestTimesOut, Settle, Restrict
<1>2. SentIsCalled'
  BY DEF SentIsCalled, RequestTimesOut, Settle, Restrict, TypeOK, Sent
<1>3. IdsDistinct'
  BY DEF IdsDistinct, RequestTimesOut, Settle, Restrict, TypeOK, Sent
<1>4. WaitingQueued'
  <2>1. r \in Sent /\ pc'[r] # "waiting"
    BY DEF SentIsCalled, RequestTimesOut, Settle, TypeOK
  <2>2. ASSUME NEW q \in Requests, pc'[q] = "waiting", q \notin forgotten
        PROVE  id[q] \in DOMAIN queue' /\ queue'[id[q]] = q
    <3>1. pc[q] = "waiting" /\ q \in Sent
      BY <2>2 DEF SentIsCalled, RequestTimesOut, Settle, TypeOK
    <3>2. id[q] # id[r]
      BY <2>1, <2>2, <3>1 DEF IdsDistinct
    <3> QED
      BY <2>2, <3>1, <3>2 DEF WaitingQueued, RequestTimesOut, Restrict
  <2> QED
    BY <2>2 DEF WaitingQueued, RequestTimesOut
<1>5. OpeningKeepsWrites'
  BY DEF OpeningKeepsWrites, RequestTimesOut, Settle, Restrict, TypeOK
<1>6. Framed'
  BY DEF Framed, RequestTimesOut, Settle, Restrict, TypeOK, Sent, Stream
<1>7. ClosedSocketRejects'
  BY DEF ClosedSocketRejects, RequestTimesOut, Settle, Restrict, TypeOK
<1> QED
  BY <1>1, <1>2, <1>3, <1>4, <1>5, <1>6, <1>7

\* A response is a whole frame under the id of its request.
LEMMA BrokerAnswersStep ==
    ASSUME ConnectionInv, NEW r \in Requests, BrokerAnswers(r)
    PROVE  ConnectionInv'
<1> USE BoundsAssumption DEF ConnectionInv, requestVars, socketVars, Sockets, Units,
                             ResetStream, EmptyQueue
<1>1. TypeOK'
  BY DEF TypeOK, BrokerAnswers, Frame
<1>2. SentIsCalled'
  BY DEF SentIsCalled, BrokerAnswers, Frame, TypeOK, Sent
<1>3. IdsDistinct'
  BY DEF IdsDistinct, BrokerAnswers, Frame, TypeOK, Sent
<1>4. WaitingQueued'
  BY DEF WaitingQueued, BrokerAnswers, Frame, TypeOK
<1>5. OpeningKeepsWrites'
  BY DEF OpeningKeepsWrites, BrokerAnswers, Frame, TypeOK
<1>6. Framed'
  <2>1. r \in Sent /\ id[r] \in 0..MaxId
    BY DEF BrokerAnswers, SentIsCalled, TypeOK
  <2>2. Frame(r) \in Seq(Units) /\ Len(Frame(r)) = 2
    BY <2>1 DEF Frame
  <2>3. /\ chunks \in Seq(Units) /\ wire \in Seq(Units)
        /\ chunks' = chunks /\ wire' = wire \o Frame(r)
    BY DEF BrokerAnswers, TypeOK
  <2> HIDE DEF Units
  <2>4. Stream' = Stream \o Frame(r) /\ Stream \in Seq(Units)
    BY <2>2, <2>3, StreamGrows DEF Stream
  <2>5. Len(Stream) % 2 = 0 /\ Len(Stream) \in Nat
    BY <2>4 DEF BrokerAnswers, Framed
  <2>6. /\ Len(Stream \o Frame(r)) = Len(Stream) + Len(Frame(r))
        /\ \A i \in 1..(Len(Stream) + Len(Frame(r))) : (Stream \o Frame(r))[i] =
              IF i <= Len(Stream) THEN Stream[i] ELSE Frame(r)[i - Len(Stream)]
    BY <2>2, <2>4, ConcatProperties, Zenon
  <2> HIDE DEF Stream
  <2>7. Len(Stream') = Len(Stream) + 2
    BY <2>2, <2>4, <2>6
  <2>8. ASSUME NEW i \in 1..Len(Stream')
        PROVE  /\ Stream'[i].part = "head" <=> i % 2 = 1
               /\ Stream'[i].request \in Sent
               /\ Stream'[i].id = id[Stream'[i].request]
    <3>1. CASE i \in 1..Len(Stream)
      BY <2>2, <2>4, <2>6, <3>1 DEF Framed
    <3>2. CASE i = Len(Stream) + 1
      <4>1. Stream'[i] = Frame(r)[1]
        BY <2>2, <2>4, <2>5, <2>6, <3>2
      <4>2. i % 2 = 1
        BY <2>5, <3>2
      <4> QED
        BY <2>1, <4>1, <4>2 DEF Frame
    <3>3. CASE i = Len(Stream) + 2
      <4>1. Stream'[i] = Frame(r)[2] /\ i % 2 = 0
        BY <2>2, <2>4, <2>5, <2>6, <3>3
      <4> QED
        BY <2>1, <4>1 DEF Frame
    <3> QED
      BY <2>5, <2>7, <3>1, <3>2, <3>3
  <2> QED
    BY <2>5, <2>7, <2>8 DEF Framed, BrokerAnswers, Sent
<1>7. ClosedSocketRejects'
  BY DEF ClosedSocketRejects, BrokerAnswers, Frame, TypeOK
<1> QED
  BY <1>1, <1>2, <1>3, <1>4, <1>5, <1>6, <1>7

\* The 'close' event leaves nothing of the queue waiting.
LEMMA SocketClosesStep ==
    ASSUME ConnectionInv, NEW k \in Sockets, SocketCloses(k)
    PROVE  ConnectionInv'
<1> USE BoundsAssumption DEF ConnectionInv, requestVars, socketVars, Sockets, Units,
                             ResetStream, EmptyQueue
<1>1. Framed'
  <2>1. UNCHANGED <<id, on, socket, chunks, wire>>
    BY DEF SocketCloses
  <2>2. Sent' = Sent /\ Stream' = Stream
    BY <2>1 DEF Sent, Stream
  <2>3. socket # 0 /\ state'[socket] \in {"opening", "open", "ended"} =>
            state[socket] \in {"opening", "open", "ended"}
    BY <2>1 DEF SocketCloses, TypeOK
  <2> QED
    BY <2>1, <2>2, <2>3 DEF Framed
<1>2. CASE k \in listening
  <2>1. /\ queue' = [i \in {} |-> 0]
        /\ \A r \in Requests : pc'[r] = IF \E i \in DOMAIN queue : r = queue[i]
                                        THEN IF pc[r] = "waiting" THEN "rejected" ELSE pc[r]
                                        ELSE pc[r]
    BY <1>2 DEF SocketCloses, Settle
  <2>2. pc' \in [Requests -> {"new", "waiting", "resolved", "rejected"}]
    <3>1. pc' = [r \in Requests |-> pc'[r]]
      BY <1>2 DEF SocketCloses, Settle
    <3>2. \A r \in Requests : pc'[r] \in {"new", "waiting", "resolved", "rejected"}
      BY <2>1 DEF TypeOK
    <3> QED
      BY <3>1, <3>2
  <2>3. \A r \in Requests : /\ pc'[r] = "new" <=> pc[r] = "new"
                            /\ pc'[r] = "waiting" => pc[r] = "waiting" /\ r \in forgotten
    BY <2>1 DEF WaitingQueued
  <2>4. TypeOK'
    BY <2>1, <2>3, <2>2 DEF TypeOK, SocketCloses
  <2>5. SentIsCalled'
    BY <2>1, <2>3 DEF SentIsCalled, SocketCloses, TypeOK, Sent
  <2>6. IdsDistinct'
    BY <2>1, <2>3 DEF IdsDistinct, SocketCloses, TypeOK, Sent
  <2>7. WaitingQueued'
    BY <2>1, <2>3 DEF WaitingQueued, SocketCloses, TypeOK
  <2>8. OpeningKeepsWrites'
    BY <2>1, <2>3 DEF OpeningKeepsWrites, SocketCloses, TypeOK
  <2>9. Framed'
    BY <1>1
  <2>10. ClosedSocketRejects'
    BY <2>1, <2>3 DEF ClosedSocketRejects, SocketCloses, TypeOK
  <2> QED
    BY <2>4, <2>5, <2>6, <2>7, <2>8, <2>9, <2>10
<1>3. CASE k \notin listening
  <2>1. TypeOK'
    BY <1>3 DEF TypeOK, SocketCloses
  <2>2. SentIsCalled'
    BY <1>3 DEF SentIsCalled, SocketCloses, TypeOK, Sent
  <2>3. IdsDistinct'
    BY <1>3 DEF IdsDistinct, SocketCloses, TypeOK, Sent
  <2>4. WaitingQueued'
    BY <1>3 DEF WaitingQueued, SocketCloses, TypeOK
  <2>5. OpeningKeepsWrites'
    BY <1>3 DEF OpeningKeepsWrites, SocketCloses, TypeOK
  <2>6. Framed'
    BY <1>1
  <2>7. ClosedSocketRejects'
    BY <1>3 DEF ClosedSocketRejects, SocketCloses, TypeOK
  <2> QED
    BY <2>1, <2>2, <2>3, <2>4, <2>5, <2>6, <2>7
<1> QED
  BY <1>2, <1>3

\* What 'data' does: the requests waiting under the ids of the complete frames
\* are resolved, each with its own response.
LEMMA DataArrivesEffect ==
    ASSUME ConnectionInv, NEW n \in 1..Len(wire), DataArrives(n)
    PROVE  \E ids \in SUBSET DOMAIN queue :
              LET done == {r \in Requests : \E i \in ids : queue[i] = r}
              IN  /\ queue' = Restrict(queue, DOMAIN queue \ ids)
                  /\ pc' = [r \in Requests |-> IF r \in done /\ pc[r] = "waiting"
                                               THEN "resolved" ELSE pc[r]]
                  /\ result' = [r \in Requests |-> IF r \in done /\ pc[r] = "waiting"
                                                   THEN {r} ELSE result[r]]
                  /\ timer' \subseteq timer
<1> USE DEF ConnectionInv
<1> DEFINE buf == chunks \o SubSeq(wire, 1, n)
           m == Len(buf) \div 2
           ids == {buf[2 * i - 1].id : i \in 1..m} \cap DOMAIN queue
           answers(r) == {buf[2 * i - 1].request : i \in {j \in 1..m :
                              buf[2 * j - 1].id \in ids /\ queue[buf[2 * j - 1].id] = r}}
           done == {queue[i] : i \in ids}
<1>1. /\ queue' = Restrict(queue, DOMAIN queue \ ids)
      /\ Settle(done, "resolved")
      /\ timer' \subseteq timer
      /\ result' = [r \in Requests |-> IF r \in done /\ pc[r] = "waiting"
                                       THEN answers(r) ELSE result[r]]
  BY DEF DataArrives, Complete
<1>2. chunks \in Seq(Units) /\ wire \in Seq(Units)
  BY DEF TypeOK
<1>3. /\ m \in Nat /\ 2 * m <= Len(buf) /\ Len(buf) <= Len(Stream)
      /\ \A i \in 1..Len(buf) : buf[i] = Stream[i]
  BY <1>2, StreamRead DEF Stream
<1> HIDE DEF buf, m
<1>4. ASSUME NEW j \in 1..m
      PROVE  /\ buf[2 * j - 1].request \in Sent
             /\ buf[2 * j - 1].id = id[buf[2 * j - 1].request]
  <2>1. 2 * j - 1 \in 1..Len(buf) /\ 2 * j - 1 \in 1..Len(Stream)
    <3>1. Len(buf) \in Nat /\ Len(Stream) \in Nat
      BY <1>2 DEF buf, Stream
    <3> QED
      BY <1>3, <3>1
  <2> QED
    BY <1>3, <2>1 DEF Framed
<1>5. ASSUME NEW r \in Requests, r \in done
      PROVE  answers(r) = {r}
  <2>1. ASSUME NEW j \in 1..m, buf[2 * j - 1].id \in ids, queue[buf[2 * j - 1].id] = r
        PROVE  buf[2 * j - 1].request = r
    <3>1. r \in Sent /\ id[r] = buf[2 * j - 1].id
      BY <2>1 DEF SentIsCalled, TypeOK
    <3> QED
      BY <1>4, <3>1 DEF IdsDistinct
  <2>2. PICK i \in ids : queue[i] = r
    BY <1>5
  <2>3. PICK j \in 1..m : buf[2 * j - 1].id = i
    BY <2>2
  <2> QED
    BY <2>1, <2>2, <2>3
<1>6. ids \in SUBSET DOMAIN queue
  OBVIOUS
<1>7. done = {r \in Requests : \E i \in ids : queue[i] = r}
  BY DEF TypeOK
<1> HIDE DEF ids, done, answers
<1>8. result' = [r \in Requests |-> IF r \in done /\ pc[r] = "waiting"
                                   THEN {r} ELSE result[r]]
  BY <1>1, <1>5
<1> QED
  BY <1>1, <1>6, <1>7, <1>8 DEF Settle

\* However 'data' cuts the stream, what is left of it starts with a frame.
LEMMA DataArrivesStep ==
    ASSUME ConnectionInv, NEW n \in 1..Len(wire), DataArrives(n)
    PROVE  ConnectionInv'
<1> USE DEF ConnectionInv
<1>1. UNCHANGED <<id, on, unwritten, socketVars, lastCorrelationId, inbox, forgotten>>
  BY DEF DataArrives
<1>2. PICK ids \in SUBSET DOMAIN queue :
              LET done == {r \in Requests : \E i \in ids : queue[i] = r}
              IN  /\ queue' = Restrict(queue, DOMAIN queue \ ids)
                  /\ pc' = [r \in Requests |-> IF r \in done /\ pc[r] = "waiting"
                                               THEN "resolved" ELSE pc[r]]
                  /\ result' = [r \in Requests |-> IF r \in done /\ pc[r] = "waiting"
                                                   THEN {r} ELSE result[r]]
                  /\ timer' \subseteq timer
  BY DataArrivesEffect
<1>3. PICK m \in Nat :
         /\ chunks' \in Seq(Units) /\ wire' \in Seq(Units)
         /\ Len(Stream') = Len(Stream) - 2 * m
         /\ \A i \in 1..Len(Stream') : /\ i + 2 * m \in 1..Len(Stream)
                                       /\ Stream'[i] = Stream[i + 2 * m]
  <2> DEFINE buf == chunks \o SubSeq(wire, 1, n)
             m == Len(buf) \div 2
             c2 == SubSeq(buf, 2 * m + 1, Len(buf))
             w2 == SubSeq(wire, n + 1, Len(wire))
  <2>1. chunks \in Seq(Units) /\ wire \in Seq(Units)
    BY DEF TypeOK
  <2>2. chunks' = c2 /\ wire' = w2
    BY DEF DataArrives, Complete
  <2>3. /\ c2 \in Seq(Units) /\ w2 \in Seq(Units) /\ m \in Nat
        /\ Len(c2 \o w2) = Len(chunks \o wire) - 2 * m
        /\ \A i \in 1..Len(c2 \o w2) : /\ i + 2 * m \in 1..Len(chunks \o wire)
                                      /\ (c2 \o w2)[i] = (chunks \o wire)[i + 2 * m]
    BY <2>1, StreamRead
  <2> HIDE DEF c2, w2, m
  <2> QED
    BY <2>2, <2>3 DEF Stream
<1>4. TypeOK'
  BY <1>1, <1>2, <1>3 DEF TypeOK, socketVars, Restrict
<1>5. SentIsCalled'
  BY <1>1, <1>2 DEF SentIsCalled, Sent, TypeOK, socketVars, Restrict
<1>6. IdsDistinct'
  BY <1>1, <1>2 DEF IdsDistinct, Sent
<1>7. WaitingQueued'
  BY <1>1, <1>2 DEF WaitingQueued, Restrict
<1>8. OpeningKeepsWrites'
  BY <1>1, <1>2 DEF OpeningKeepsWrites, socketVars
<1>9. Framed'
  <2>1. Len(Stream) \in Nat /\ Len(Stream') \in Nat
    BY <1>3 DEF Stream, TypeOK
  <2>2. ASSUME NEW i \in 1..Len(Stream')
        PROVE  /\ Stream'[i].part = "head" <=> i % 2 = 1
               /\ Stream'[i].request \in Sent
               /\ Stream'[i].id = id[Stream'[i].request]
    <3>1. (i + 2 * m) % 2 = i % 2
      BY <2>1
    <3> QED
      BY <1>3, <3>1 DEF Framed
  <2>3. Len(Stream) % 2 = 0 => Len(Stream') % 2 = 0
    BY <1>3, <2>1
  <2>4. UNCHANGED <<id, on, socket, state>>
    BY <1>1 DEF socketVars
  <2>5. Sent' = Sent
    BY <2>4 DEF Sent
  <2> HIDE DEF Stream
  <2> QED
    BY <2>2, <2>3, <2>4, <2>5 DEF Framed
<1>10. ClosedSocketRejects'
  BY <1>1, <1>2 DEF ClosedSocketRejects, socketVars
<1> QED
  BY <1>4, <1>5, <1>6, <1>7, <1>8, <1>9, <1>10

-----------------------------------------------------------------------------
(* The theorems.                                                           *)

\* The initial states satisfy the invariant.
LEMMA InitInv == Init => ConnectionInv
<1> SUFFICES ASSUME Init PROVE ConnectionInv
  OBVIOUS
<1> USE BoundsAssumption DEF Init
<1>1. TypeOK
  BY DEF TypeOK, Sockets, EmptyQueue
<1>2. SentIsCalled /\ IdsDistinct /\ WaitingQueued
  BY DEF SentIsCalled, IdsDistinct, WaitingQueued, Sent, EmptyQueue
<1>3. OpeningKeepsWrites /\ ClosedSocketRejects
  BY DEF OpeningKeepsWrites, ClosedSocketRejects, Sockets
<1>4. Stream = <<>>
  BY DEF Stream
<1>5. Framed
  BY <1>4 DEF Framed
<1> QED
  BY <1>1, <1>2, <1>3, <1>5 DEF ConnectionInv

\* Every step keeps the invariant.
LEMMA InvStep == ConnectionInv /\ [Next]_vars => ConnectionInv'
<1> SUFFICES ASSUME ConnectionInv, [Next]_vars
             PROVE  ConnectionInv'
  OBVIOUS
<1>1. CASE Connect \/ SocketOpens \/ SocketFails \/ Disconnect \/ SocketBreaks
  BY <1>1, ConnectStep, SocketOpensStep, SocketFailsStep, DisconnectStep,
     SocketBreaksStep
<1>2. CASE \E r \in Requests :
              SendRequest(r) \/ IdOverflows(r) \/ WriteFails(r) \/ RequestTimesOut(r)
              \/ BrokerAnswers(r)
  BY <1>2, SendRequestStep, IdOverflowsStep, WriteFailsStep, RequestTimesOutStep,
     BrokerAnswersStep
<1>3. CASE \E n \in 1..Len(wire) : DataArrives(n)
  BY <1>3, DataArrivesStep
<1>4. CASE \E k \in Sockets : SocketCloses(k)
  BY <1>4, SocketClosesStep
<1>5. CASE UNCHANGED vars
  BY <1>5 DEF vars, requestVars, socketVars, ConnectionInv, TypeOK, SentIsCalled,
              IdsDistinct, WaitingQueued, OpeningKeepsWrites, Framed, Stream, Sent,
              ClosedSocketRejects
<1> QED
  BY <1>1, <1>2, <1>3, <1>4, <1>5 DEF Next

\* The invariant holds throughout.
THEOREM Invariant == Spec => []ConnectionInv
  BY InitInv, InvStep, PTL DEF Spec

\* Every variable keeps its type; an entry of the queue is under the id of its
\* request, and that id was handed out (sendRequest(), the timer and 'close').
THEOREM TypeCorrect == Spec => []TypeOK
  BY Invariant, PTL DEF ConnectionInv

\* What handleData() has buffered and what is still to come form whole
\* responses, however the stream is cut and whatever socket it was.
THEOREM StreamStaysInSync == Spec => []StreamInSync
<1>1. ConnectionInv => StreamInSync
  BY DEF ConnectionInv, Framed, StreamInSync, Stream
<1> QED
  BY <1>1, Invariant, PTL

\* A request whose socket has closed does not wait for its timer, except where
\* disconnect() took the listeners off or connect() replaced the queue.
THEOREM ClosedSocketsReject == Spec => []ClosedSocketRejects
  BY Invariant, PTL DEF ConnectionInv

\* sendRequest() keeps the safety part of its promise (module Rpc): a request
\* settles at most once, and is resolved only with its own response.
THEOREM SafeRpc == Spec => R!Safety
<1>1. Init => R!Init
  BY DEF Init, R!Init
<1>2. ConnectionInv /\ [Next]_vars => [R!Next]_(R!vars)
  <2> SUFFICES ASSUME ConnectionInv, Next
               PROVE  R!Next \/ UNCHANGED <<pc, result>>
    BY DEF vars, requestVars, R!vars
  <2> USE DEF requestVars
  <2>1. CASE Connect \/ SocketOpens \/ Disconnect \/ SocketBreaks
    BY <2>1 DEF Connect, SocketOpens, Disconnect, SocketBreaks
  <2>2. CASE SocketFails
    BY <2>2 DEF SocketFails
  <2>3. ASSUME NEW r \in Requests, SendRequest(r)
        PROVE  R!Call(r)
    BY <2>3 DEF SendRequest, R!Call
  <2>4. ASSUME NEW r \in Requests, IdOverflows(r)
        PROVE  R!Call(r)
    BY <2>4 DEF IdOverflows, R!Call
  <2>5. ASSUME NEW r \in Requests, WriteFails(r) \/ RequestTimesOut(r)
        PROVE  \E rs \in SUBSET Requests : R!Reject(rs)
    <3> DEFINE rs == {q \in {r} : pc[q] = "waiting"}
    <3>1. Settle({r}, "rejected") /\ UNCHANGED result
      BY <2>5 DEF WriteFails, RequestTimesOut
    <3>2. R!Reject(rs)
      BY <3>1 DEF Settle, R!Reject
    <3> QED
      BY <3>2
  <2>6. ASSUME NEW k \in Sockets, SocketCloses(k)
        PROVE  (\E rs \in SUBSET Requests : R!Reject(rs)) \/ UNCHANGED <<pc, result>>
    <3>1. CASE k \in listening
      <4> DEFINE rs == {q \in Requests : /\ \E i \in DOMAIN queue : queue[i] = q
                                         /\ pc[q] = "waiting"}
      <4>1. Settle({queue[i] : i \in DOMAIN queue}, "rejected") /\ UNCHANGED result
        BY <2>6, <3>1 DEF SocketCloses
      <4>2. pc' = [q \in Requests |-> IF q \in rs THEN "rejected" ELSE pc[q]]
        BY <4>1 DEF Settle
      <4>3. R!Reject(rs)
        BY <4>1, <4>2 DEF R!Reject
      <4> QED
        BY <4>3
    <3>2. CASE k \notin listening
      BY <2>6, <3>2 DEF SocketCloses
    <3> QED
      BY <3>1, <3>2
  <2>7. ASSUME NEW r \in Requests, BrokerAnswers(r)
        PROVE  UNCHANGED <<pc, result>>
    BY <2>7 DEF BrokerAnswers
  <2>8. ASSUME NEW n \in 1..Len(wire), DataArrives(n)
        PROVE  \E rs \in SUBSET Requests : R!Resolve(rs)
    <3>1. PICK ids \in SUBSET DOMAIN queue :
                LET done == {r \in Requests : \E i \in ids : queue[i] = r}
                IN  /\ pc' = [r \in Requests |-> IF r \in done /\ pc[r] = "waiting"
                                                 THEN "resolved" ELSE pc[r]]
                    /\ result' = [r \in Requests |-> IF r \in done /\ pc[r] = "waiting"
                                                     THEN {r} ELSE result[r]]
      BY <2>8, DataArrivesEffect
    <3> DEFINE rs == {r \in Requests : /\ \E i \in ids : queue[i] = r
                                       /\ pc[r] = "waiting"}
    <3>2. R!Resolve(rs)
      BY <3>1 DEF R!Resolve
    <3> QED
      BY <3>2
  <2> QED
    BY <2>1, <2>2, <2>3, <2>4, <2>5, <2>6, <2>7, <2>8 DEF Next, R!Next
<1> QED
  BY <1>1, <1>2, Invariant, PTL DEF Spec, R!Safety
=============================================================================
