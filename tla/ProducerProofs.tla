-------------------------- MODULE ProducerProofs --------------------------
(***************************************************************************)
(* What TLC checks of Producer on three sends, proved for every set of     *)
(* sends, partitions and nodes, and for any number of lost calls, leader   *)
(* changes and lock timers.                                                *)
(***************************************************************************)
EXTENDS Producer, TLAPS

-----------------------------------------------------------------------------
(* The inductive invariant.                                                *)

\* Nothing has disturbed the locks, and neither them nor the leaders.
NoOverrun == overruns = MaxOverruns
Steady == NoOverrun /\ moves = MaxMoves

\* The request of s to n is with the client and holds, or held, the lock.
InFlight(s, n) == sub[s][n] \in {"sent", "cut"}

\* The batch of s for p has been sent, and may be in the log or on its way.
Placed(s, p) ==
    /\ p \in msgs[s]
    /\ route[s][p] \in Nodes
    /\ \/ sub[s][route[s][p]] \in {"sent", "cut", "ok"}
       \/ <<s, route[s][p]>> \in arriving
       \/ s \in log[p]

\* Every batch has a record.
HasRecords == \A s \in Sends : \A p \in msgs[s] : Records(s, p) > 0

\* A send has no request before it distributes its records, and then one for
\* each node that leads a partition of its; it resolves with the last of them.
Grouped ==
    \A s \in Sends :
        /\ pc[s] \in {"new", "connecting", "connected"} =>
              \A n \in Nodes : sub[s][n] = "none"
        /\ pc[s] \in {"sending", "recovering", "acked"} =>
              \A p \in msgs[s] : route[s][p] \in Nodes /\ sub[s][route[s][p]] # "none"
        /\ pc[s] = "acked" => \A n \in Nodes : sub[s][n] \in {"none", "ok"}
        /\ cause[s] # "none" => pc[s] \in {"recovering", "rejected"}

\* A broker handles what was sent, once; the client believes its answer.
SentOnce ==
    /\ \A s \in Sends, n \in Nodes :
          /\ <<s, n>> \in arriving =>
                sub[s][n] \notin {"none", "waiting"} /\ reply[s][n] = "none"
          /\ reply[s][n] # "none" => sub[s][n] \notin {"none", "waiting"}
          /\ sub[s][n] = "ok" => reply[s][n] = "ok"
    /\ \A p \in Partitions : \A s \in log[p] :
          /\ p \in msgs[s] /\ route[s][p] \in Nodes
          /\ sub[s][route[s][p]] \notin {"none", "waiting"}

\* No two batches in the log of a partition have the same base.
LogDistinct ==
    \A p \in Partitions : \A s, t \in log[p] : stamp[s][p] = stamp[t][p] => s = t

\* A batch that was acknowledged has its numbers in the log.
AckedNumberLogged ==
    \A s \in Sends, n \in Nodes : reply[s][n] = "ok" =>
        \A p \in Batch(s, n) : \E t \in log[p] : SameNumbers(s, t, p)

\* A producer id is in use only once the cluster has handed it out.
IdsHandedOut ==
    /\ pid = 0 \/ pid < nextPid
    /\ \A s \in Sends : pc[s] = "connected" \/ (\E n \in Nodes : sub[s][n] # "none") =>
          pid < nextPid
    /\ \A s \in Sends, p \in Partitions : Placed(s, p) => stamp[s][p].pid < nextPid

\* The sequence of the current id is past every batch that succeeded.
SequencesCount ==
    \A s \in Sends, n \in Nodes : \A p \in Batch(s, n) :
        sub[s][n] \in {"sent", "cut", "ok"} /\ stamp[s][p].pid = pid =>
            /\ stamp[s][p].seq <= seq[p]
            /\ sub[s][n] = "ok" => stamp[s][p].seq < seq[p]

\* As long as no lock timer fires, a node has one request in flight.
NodeLocked ==
    NoOverrun => \A s \in Sends, n \in Nodes : InFlight(s, n) =>
        nodeLock[n] /\ \A t \in Sends : InFlight(t, n) => t = s

\* Two batches that a node took under its lock have different numbers, unless
\* one of them failed.
OkDistinct ==
    NoOverrun => \A s, t \in Sends, n \in Nodes :
        s # t /\ sub[s][n] = "ok" /\ sub[t][n] \in {"sent", "cut", "ok"} =>
            \A p \in Batch(s, n) \cap Batch(t, n) : stamp[s][p] # stamp[t][p]

\* As long as leaders stay, what the client knows of them is right.
RoutesRight ==
    moves = MaxMoves => \A p \in Partitions :
        /\ cached[p] \in {NoNode, leader[p]}
        /\ \A s \in Sends : route[s][p] \in {NoNode, leader[p]}

\* Every batch of the id i for p has a base the log has, or the next one, k.  A
\* batch in the log with base k has succeeded no request yet.
Gapless(p, i, k) ==
    /\ \A t \in Accepted(p, i) : stamp[t][p].seq = k \/ NextNumber(t, p) <= k
    /\ \/ Accepted(p, i) = {}
       \/ \E t \in Accepted(p, i) : stamp[t][p].seq = k \/ NextNumber(t, p) = k
    /\ \A s \in Sends : Placed(s, p) /\ stamp[s][p].pid = i =>
          \/ stamp[s][p].seq = k
          \/ \E t \in Accepted(p, i) : stamp[t][p].seq = stamp[s][p].seq

NoGaps ==
    Steady => \A p \in Partitions :
        /\ Gapless(p, pid, seq[p])
        /\ \A i \in Nat : \E k \in Nat : Gapless(p, i, k)

\* A request in flight has the number its success will count, or an id that is
\* no longer used, and then nothing was sent under the new one.
InFlightIsNext ==
    Steady => \A s \in Sends, n \in Nodes : InFlight(s, n) =>
        \A p \in Batch(s, n) :
            \/ stamp[s][p] = [pid |-> pid, seq |-> seq[p]]
            \/ \A t \in Sends : Placed(t, p) => stamp[t][p].pid # pid

\* The base of the batch of s for p was taken by one of another size.
Clash(s, p) ==
    \E t \in log[p] : stamp[t][p] = stamp[s][p] /\ Records(t, p) # Records(s, p)

\* Without leader changes and lock timers nothing else makes a broker refuse.
NoErrors ==
    Steady => \A s \in Sends, n \in Nodes :
        \/ reply[s][n] \in {"none", "ok"}
        \/ reply[s][n] = "outOfOrder" /\ \E p \in Batch(s, n) : Clash(s, p)

\* Without lost calls either, nothing fails but by an overflow.
NothingFails ==
    Steady /\ faults = MaxFaults /\ (\A t \in Sends : cause[t] # "overflow") =>
        \A s \in Sends :
            /\ pc[s] \notin {"recovering", "rejected"}
            /\ \A n \in Nodes : sub[s][n] \notin {"cut", "failed"}

ProducerInv ==
    /\ TypeOK /\ HasRecords /\ Grouped /\ SentOnce
    /\ LogDistinct /\ AckedNumberLogged /\ IdsHandedOut
    /\ SequencesCount /\ NodeLocked /\ OkDistinct /\ RoutesRight /\ NoGaps
    /\ InFlightIsNext /\ NoErrors /\ NothingFails

-----------------------------------------------------------------------------
(* Lemmas about the operators.                                             *)

\* What the batches and the log are made of does not change with the rest.
LEMMA BatchesStay ==
    ASSUME UNCHANGED <<msgs, route>>
    PROVE  \A s, n : Batch(s, n)' = Batch(s, n)
  BY DEF Batch

\* Nor does what a partition has accepted, with the log and the stamps.
LEMMA AcceptedStay ==
    ASSUME UNCHANGED <<log, stamp>>
    PROVE  \A p, i : Accepted(p, i)' = Accepted(p, i)
  BY DEF Accepted

\* Nor which batches have lost their base.
LEMMA ClashesStay ==
    ASSUME UNCHANGED <<log, stamp, scenario>>
    PROVE  \A s, p : Clash(s, p)' <=> Clash(s, p)
  BY DEF Clash, Records

\* Answers stay explained while the batches they answer stay as they are.
LEMMA NoErrorsStay ==
    ASSUME NoErrors, Steady' => Steady, UNCHANGED <<log, stamp, scenario, reply>>,
           \A s \in Sends, n \in Nodes :
              reply[s][n] # "none" => Batch(s, n)' = Batch(s, n)
    PROVE  NoErrors'
<1> SUFFICES ASSUME Steady', NEW s \in Sends, NEW n \in Nodes,
                    reply'[s][n] \notin {"none", "ok"}
             PROVE  /\ reply'[s][n] = "outOfOrder"
                    /\ \E p \in Batch(s, n)' : Clash(s, p)'
  BY DEF NoErrors
<1>1. reply[s][n] = "outOfOrder" /\ \E p \in Batch(s, n) : Clash(s, p)
  BY DEF NoErrors
<1>2. Batch(s, n)' = Batch(s, n)
  BY <1>1
<1> QED
  BY <1>1, <1>2, ClashesStay

\* No gap opens while the log, the stamps and the numbers stay as they are.
LEMMA NoGapsStay ==
    ASSUME TypeOK, NoGaps, Steady' => Steady, UNCHANGED <<pid, seq, log, stamp, scenario>>,
           \A s \in Sends, p \in Partitions : Placed(s, p)' => Placed(s, p)
    PROVE  NoGaps'
<1>1. ASSUME NEW p \in Partitions, NEW i \in Nat, NEW k \in Nat, Gapless(p, i, k)
      PROVE  Gapless(p, i, k)'
  <2>1. Accepted(p, i)' = Accepted(p, i)
    BY AcceptedStay
  <2>2. \A t : NextNumber(t, p)' = NextNumber(t, p)
    BY DEF NextNumber, Records
  <2> QED
    BY <1>1, <2>1, <2>2 DEF Gapless
<1>2. ASSUME NEW p \in Partitions, Steady
      PROVE  Gapless(p, pid, seq[p])'
  <2>1. PICK i \in Nat, k \in Nat : i = pid /\ k = seq[p]
    BY DEF TypeOK
  <2>2. Gapless(p, i, k)
    BY <1>2, <2>1 DEF NoGaps
  <2>3. Gapless(p, i, k)'
    BY <1>1, <2>2
  <2>4. Accepted(p, pid)' = Accepted(p, i)'
    BY <2>1 DEF Accepted
  <2> QED
    BY <2>1, <2>3, <2>4 DEF Gapless
<1> QED
  BY <1>1, <1>2 DEF NoGaps

\* A batch has a record for each partition it goes to.
LEMMA PlacedHasRecords ==
    ASSUME TypeOK, HasRecords, SentOnce, NEW p \in Partitions
    PROVE  /\ \A s \in Sends : Placed(s, p) => Records(s, p) \in Nat /\ Records(s, p) > 0
           /\ \A s \in log[p] : s \in Sends /\ Placed(s, p)
           /\ \A i : Accepted(p, i) \subseteq log[p]
           /\ \A s \in Sends : stamp[s][p] \in [pid : Nat, seq : Nat]
<1>1. \A s \in Sends : Records(s, p) \in Nat
  BY ConstantsAssumption DEF TypeOK, Records
<1>2. \A s \in log[p] : s \in Sends /\ Placed(s, p)
  BY DEF SentOnce, Placed, TypeOK
<1>3. \A s \in Sends : Placed(s, p) => Records(s, p) > 0
  BY DEF HasRecords, Placed
<1> QED
  BY <1>1, <1>2, <1>3 DEF Accepted, TypeOK

\* A broker appends a batch only if the log has no batch with its base.
LEMMA AppendIsNew ==
    ASSUME TypeOK, HasRecords, SentOnce, NEW s \in Sends, NEW n \in Nodes,
           NEW p \in Partitions, Verdict(s, n, p) = "append", NEW t \in log[p]
    PROVE  stamp[t][p] # stamp[s][p]
<1> SUFFICES ASSUME stamp[t][p] = stamp[s][p] PROVE FALSE
  OBVIOUS
<1>1. Continues(s, p)
  BY DEF Verdict
<1>2. t \in Accepted(p, stamp[s][p].pid)
  BY DEF Accepted
<1>3. NextNumber(t, p) <= stamp[s][p].seq
  BY <1>1, <1>2 DEF Continues
<1>4. /\ stamp[s][p].seq \in Nat /\ stamp[t][p].seq = stamp[s][p].seq
      /\ Records(t, p) \in Nat /\ Records(t, p) > 0
  BY PlacedHasRecords
<1> QED
  BY <1>3, <1>4 DEF NextNumber

(***************************************************************************)
(* A broker that leads p takes every batch of a log without gaps, or a     *)
(* batch of another size has its base.                                     *)
(***************************************************************************)
LEMMA VerdictGapless ==
    ASSUME TypeOK, HasRecords, SentOnce, NEW s \in Sends, NEW p \in Partitions, NEW k \in Nat,
           Gapless(p, stamp[s][p].pid, k), Placed(s, p)
    PROVE  /\ \/ Verdict(s, leader[p], p) \in {"append", "duplicate"}
              \/ Verdict(s, leader[p], p) = "outOfOrder" /\ Clash(s, p)
           /\ Verdict(s, leader[p], p) = "append" => stamp[s][p].seq = k
<1> DEFINE A == Accepted(p, stamp[s][p].pid)
           q == stamp[s][p].seq
           SameBase == \E t \in A : stamp[t][p].seq = q
<1>1. /\ q \in Nat
      /\ \A t \in A : /\ t \in log[p] /\ t \in Sends /\ stamp[t][p].pid = stamp[s][p].pid
                      /\ stamp[t][p] \in [pid : Nat, seq : Nat]
                      /\ Records(t, p) \in Nat /\ Records(t, p) > 0
                      /\ NextNumber(t, p) \in Nat /\ NextNumber(t, p) > stamp[t][p].seq
  <2>1. q \in Nat
    BY PlacedHasRecords
  <2> SUFFICES ASSUME NEW t \in A
               PROVE  /\ t \in log[p] /\ t \in Sends /\ stamp[t][p].pid = stamp[s][p].pid
                      /\ stamp[t][p] \in [pid : Nat, seq : Nat]
                      /\ Records(t, p) \in Nat /\ Records(t, p) > 0
                      /\ NextNumber(t, p) \in Nat /\ NextNumber(t, p) > stamp[t][p].seq
    BY <2>1
  <2>2. /\ t \in log[p] /\ t \in Sends /\ stamp[t][p].pid = stamp[s][p].pid
        /\ stamp[t][p] \in [pid : Nat, seq : Nat]
        /\ Records(t, p) \in Nat /\ Records(t, p) > 0
    BY PlacedHasRecords DEF Accepted
  <2> QED
    BY <2>2 DEF NextNumber
<1>2. stamp[s][p] \in [pid : Nat, seq : Nat]
  BY PlacedHasRecords
<1>3. Verdict(s, leader[p], p) = IF \E t \in log[p] : SameNumbers(s, t, p) THEN "duplicate"
                                 ELSE IF Continues(s, p) THEN "append"
                                 ELSE "outOfOrder"
  BY DEF Verdict
<1>4. /\ \A t \in A : stamp[t][p].seq = k \/ NextNumber(t, p) <= k
      /\ A = {} \/ \E t \in A : stamp[t][p].seq = k \/ NextNumber(t, p) = k
      /\ q = k \/ SameBase
  BY DEF Gapless
<1>5. Continues(s, p) <=> (A # {} => /\ \E t \in A : NextNumber(t, p) = q
                                    /\ \A t \in A : NextNumber(t, p) <= q)
  BY DEF Continues
<1>6. ASSUME SameBase
      PROVE  ~Continues(s, p) /\ ((\E t \in log[p] : SameNumbers(s, t, p)) \/ Clash(s, p))
  <2>1. PICK t \in A : stamp[t][p].seq = q
    BY <1>6
  <2>2. ~(NextNumber(t, p) <= q)
    BY <1>1, <2>1
  <2>3. t \in log[p] /\ stamp[t][p] = stamp[s][p]
    BY <1>1, <1>2, <2>1
  <2>4. ~Continues(s, p)
    BY <1>5, <2>1, <2>2
  <2> QED
    BY <2>3, <2>4 DEF SameNumbers, Clash
<1> HIDE DEF A, q
<1>7. ASSUME ~SameBase
      PROVE  q = k /\ Continues(s, p)
  <2>1. q = k
    BY <1>4, <1>7
  <2>2. \A t \in A : stamp[t][p].seq # k
    BY <1>7, <2>1
  <2> QED
    BY <1>4, <1>5, <2>1, <2>2
<1> QED
  BY <1>3, <1>6, <1>7 DEF q

\* A request goes to the nodes that lead its partitions, if no leader moves.
LEMMA LeadersRouted ==
    ASSUME TypeOK, RoutesRight, moves = MaxMoves, NEW s \in Sends, NEW n \in Nodes,
           NEW p \in Batch(s, n)
    PROVE  leader[p] = n
  BY ConstantsAssumption DEF TypeOK, RoutesRight, Batch

\* A batch that took the base of one the client waits for has failed.
LEMMA ClashFailed ==
    ASSUME ProducerInv, Steady, NEW s \in Sends, NEW n \in Nodes, sub[s][n] = "sent",
           reply[s][n] \notin {"none", "ok"}
    PROVE  \E p \in Batch(s, n) : \E t \in log[p] :
              /\ stamp[t][p] = stamp[s][p] /\ Records(t, p) # Records(s, p)
              /\ t \in Sends /\ sub[t][n] = "failed"
<1> USE DEF ProducerInv
<1>1. PICK p \in Batch(s, n) : Clash(s, p)
  BY DEF NoErrors
<1>2. PICK t \in log[p] : stamp[t][p] = stamp[s][p] /\ Records(t, p) # Records(s, p)
  BY <1>1 DEF Clash
<1>3. p \in Partitions /\ leader[p] = n
  BY LeadersRouted DEF Steady, Batch, TypeOK
<1>4. /\ t \in Sends /\ t # s /\ p \in msgs[t] /\ route[t][p] \in Nodes
      /\ sub[t][route[t][p]] \notin {"none", "waiting"}
  BY <1>2, <1>3 DEF SentOnce, TypeOK
<1>5. p \in Batch(t, route[t][p])
  BY <1>4 DEF Batch
<1>6. route[t][p] = n
  BY <1>3, <1>4, <1>5, LeadersRouted DEF Steady
<1>7. sub[t][n] \notin {"sent", "cut"}
  BY <1>4 DEF NodeLocked, InFlight, Steady
<1>8. sub[t][n] # "ok"
  BY <1>2, <1>4, <1>5, <1>6 DEF OkDistinct, Steady
<1>9. sub[t][n] = "failed"
  BY <1>4, <1>6, <1>7, <1>8 DEF TypeOK, SubStages
<1> QED
  BY <1>2, <1>4, <1>9

-----------------------------------------------------------------------------
LEMMA InitInv == Init => ProducerInv
<1> SUFFICES ASSUME Init PROVE ProducerInv
  OBVIOUS
<1>1. scenario.firstPid \in Nat /\ scenario.faults \in Nat /\ scenario.moves \in Nat
      /\ scenario.overruns \in Nat
  BY ConstantsAssumption DEF Init
<1>2. TypeOK
  <2>1. /\ faults \in 0..MaxFaults /\ moves \in 0..MaxMoves /\ overruns \in 0..MaxOverruns
        /\ nextPid \in Nat
    BY <1>1 DEF Init, MaxFaults, MaxMoves, MaxOverruns
  <2>2. /\ stamp \in [Sends -> [Partitions -> [pid : Nat, seq : Nat]]]
        /\ route \in [Sends -> [Partitions -> Nodes \cup {NoNode}]]
        /\ sub \in [Sends -> [Nodes -> SubStages]]
        /\ reply \in [Sends -> [Nodes -> {"none", "ok"} \cup Errors]]
    BY DEF Init, SubStages
  <2> QED
    BY <2>1, <2>2 DEF Init, TypeOK, Stages
<1>3. /\ \A p \in Partitions : \A i : Accepted(p, i) = {}
      /\ \A s \in Sends, p \in Partitions : ~Placed(s, p)
  BY DEF Init, Accepted, Placed
<1>4. NoGaps
  BY <1>2, <1>3 DEF NoGaps, Gapless, NextNumber, Records, TypeOK
<1>5. IdsHandedOut /\ Grouped /\ SentOnce
  BY <1>3 DEF Init, IdsHandedOut, Grouped, SentOnce
<1>6. /\ HasRecords /\ LogDistinct /\ AckedNumberLogged /\ SequencesCount
      /\ NodeLocked /\ OkDistinct /\ InFlightIsNext
  BY DEF Init, HasRecords, LogDistinct, AckedNumberLogged, SequencesCount, NodeLocked,
     OkDistinct, InFlightIsNext, InFlight
<1>7. RoutesRight /\ NoErrors /\ NothingFails
  BY DEF Init, RoutesRight, NoErrors, NothingFails
<1> QED
  BY <1>2, <1>4, <1>5, <1>6, <1>7 DEF ProducerInv

-----------------------------------------------------------------------------
(* send() up to its requests.                                              *)

\* A send that has nothing under way goes on, or rejects after a lost call.
LEMMA FrontStep ==
    ASSUME ProducerInv, TypeOK', HasRecords',
           UNCHANGED <<route, sub, stamp, cause, pid, seq, cached, nodeLock, leader, log,
                       arriving, reply, nextPid, scenario, moves, overruns>>,
           \A s \in Sends : msgs'[s] = msgs[s] \/ pc[s] = "new",
           \A s \in Sends :
              \/ pc'[s] = pc[s]
              \/ pc[s] = "new" /\ pc'[s] = "connecting"
              \/ pc[s] = "connecting" /\ pc'[s] = "connected" /\ pid < nextPid
              \/ /\ pc[s] \in {"connecting", "connected", "recovering"}
                 /\ pc'[s] = "rejected" /\ faults' # MaxFaults,
           faults' = faults \/ faults' # MaxFaults
    PROVE  ProducerInv'
<1> USE DEF ProducerInv
<1>1. /\ NoOverrun' = NoOverrun /\ Steady' = Steady /\ MaxFaults' = MaxFaults
      /\ MaxMoves' = MaxMoves
  BY DEF NoOverrun, Steady, MaxOverruns, MaxMoves, MaxFaults
<1>2. \A s \in Sends, p \in Partitions : Placed(s, p) =>
          pc[s] \notin {"new", "connecting", "connected"}
  BY DEF Placed, Grouped, SentOnce
<1>3. \A s \in Sends, p \in Partitions : Placed(s, p)' <=> Placed(s, p)
  <2> SUFFICES ASSUME NEW s \in Sends, NEW p \in Partitions
               PROVE  Placed(s, p)' <=> Placed(s, p)
    OBVIOUS
  <2>1. CASE pc[s] = "new"
    <3>1. route[s][p] \in Nodes => sub[s][route[s][p]] = "none"
      BY <2>1 DEF Grouped
    <3> QED
      BY <1>2, <2>1, <3>1 DEF Placed, SentOnce, TypeOK
  <2>2. CASE pc[s] # "new"
    BY <2>2 DEF Placed
  <2> QED
    BY <2>1, <2>2
<1>4. \A s \in Sends, n \in Nodes :
         \/ Batch(s, n)' = Batch(s, n)
         \/ sub[s][n] = "none" /\ reply[s][n] = "none"
  <2> SUFFICES ASSUME NEW s \in Sends, NEW n \in Nodes, sub[s][n] # "none" \/ reply[s][n] # "none"
               PROVE  Batch(s, n)' = Batch(s, n)
    OBVIOUS
  <2>1. pc[s] # "new"
    BY DEF Grouped, SentOnce
  <2> QED
    BY <2>1 DEF Batch
<1>5. \A p, i : Accepted(p, i)' = Accepted(p, i)
  BY DEF Accepted
<1>6. Grouped'
  BY DEF Grouped
<1>7. SentOnce'
  <2>1. \A p \in Partitions : \A s \in log[p] : p \in msgs'[s]
    <3> SUFFICES ASSUME NEW p \in Partitions, NEW s \in log[p]
                 PROVE  p \in msgs'[s]
      OBVIOUS
    <3>1. s \in Sends /\ p \in msgs[s]
      BY DEF SentOnce, TypeOK
    <3>2. pc[s] # "new"
      BY <3>1 DEF SentOnce, Grouped
    <3> QED
      BY <3>1, <3>2
  <2> QED
    BY <2>1 DEF SentOnce
<1>8. AckedNumberLogged'
  BY <1>4 DEF AckedNumberLogged, SameNumbers, Records
<1>9. IdsHandedOut'
  BY <1>3 DEF IdsHandedOut
<1>10. SequencesCount'
  BY <1>4 DEF SequencesCount
<1>11. NodeLocked'
  BY <1>1 DEF NodeLocked, InFlight
<1>12. OkDistinct'
  BY <1>1, <1>4 DEF OkDistinct
<1>13. RoutesRight'
  BY <1>1 DEF RoutesRight
<1>14. NoGaps'
  BY <1>1, <1>3, <1>5, NoGapsStay
<1>15. InFlightIsNext'
  <2> SUFFICES ASSUME Steady, NEW s \in Sends, NEW n \in Nodes, InFlight(s, n),
                      NEW p \in Batch(s, n)
               PROVE  \/ stamp[s][p] = [pid |-> pid, seq |-> seq[p]]
                      \/ \A t \in Sends : Placed(t, p) => stamp[t][p].pid # pid
    <3>1. \A s \in Sends, n \in Nodes : InFlight(s, n) => Batch(s, n)' = Batch(s, n)
      BY <1>4 DEF InFlight
    <3>2. \A s \in Sends, n \in Nodes : \A p \in Batch(s, n) : p \in Partitions
      BY DEF Batch, TypeOK
    <3>3. \A s \in Sends, n \in Nodes : InFlight(s, n)' = InFlight(s, n)
      BY DEF InFlight
    <3> QED
      BY <1>1, <1>3, <3>1, <3>2, <3>3 DEF InFlightIsNext
  <2> QED
    BY DEF InFlightIsNext
<1>16. NoErrors'
  BY <1>1, <1>4, NoErrorsStay
<1>17. NothingFails'
  BY <1>1 DEF NothingFails
<1>18. HasRecords' /\ LogDistinct'
  BY DEF HasRecords, LogDistinct, Records
<1> QED
  BY <1>6, <1>7, <1>8, <1>9, <1>10, <1>11, <1>12, <1>13, <1>14, <1>15, <1>16, <1>17, <1>18

\* A call has nothing under way yet.
LEMMA CallStep ==
    ASSUME ProducerInv, NEW s \in Sends, Call(s)
    PROVE  ProducerInv'
<1> USE DEF ProducerInv
<1>1. TypeOK'
  BY ConstantsAssumption DEF Call, clientVars, clusterVars, bounds, TypeOK, Stages,
     MaxFaults, MaxMoves, MaxOverruns
<1>2. UNCHANGED <<route, sub, stamp, cause, pid, seq, cached, nodeLock, leader, log,
                  arriving, reply, nextPid, scenario, moves, overruns>>
  BY DEF Call, clientVars, clusterVars, bounds
<1>3. /\ \A t \in Sends : msgs'[t] = msgs[t] \/ pc[t] = "new"
      /\ \A t \in Sends :
            \/ pc'[t] = pc[t]
            \/ pc[t] = "new" /\ pc'[t] = "connecting"
            \/ pc[t] = "connecting" /\ pc'[t] = "connected" /\ pid < nextPid
            \/ /\ pc[t] \in {"connecting", "connected", "recovering"}
               /\ pc'[t] = "rejected" /\ faults' # MaxFaults
      /\ faults' = faults \/ faults' # MaxFaults
  BY DEF Call, clientVars, clusterVars, bounds, TypeOK, IdsHandedOut
<1>4. HasRecords'
  BY <1>2 DEF Call, HasRecords, Records
<1> QED
  BY <1>1, <1>2, <1>3, <1>4, FrontStep

\* The shared connection starts, or is there already.
LEMMA EnsureConnectedStep ==
    ASSUME ProducerInv, EnsureConnected
    PROVE  ProducerInv'
<1> USE DEF ProducerInv
<1>1. TypeOK'
  BY ConstantsAssumption DEF EnsureConnected, Connected, ReleaseCallers, clusterVars,
     bounds, TypeOK, Stages, MaxFaults, MaxMoves, MaxOverruns
<1>2. UNCHANGED <<route, sub, stamp, cause, pid, seq, cached, nodeLock, leader, log,
                  arriving, reply, nextPid, scenario, moves, overruns>>
  BY DEF EnsureConnected, Connected, ReleaseCallers, clusterVars, bounds
<1>3. /\ \A t \in Sends : msgs'[t] = msgs[t] \/ pc[t] = "new"
      /\ \A t \in Sends :
            \/ pc'[t] = pc[t]
            \/ pc[t] = "new" /\ pc'[t] = "connecting"
            \/ pc[t] = "connecting" /\ pc'[t] = "connected" /\ pid < nextPid
            \/ /\ pc[t] \in {"connecting", "connected", "recovering"}
               /\ pc'[t] = "rejected" /\ faults' # MaxFaults
      /\ faults' = faults \/ faults' # MaxFaults
  BY DEF EnsureConnected, Connected, ReleaseCallers, clusterVars, bounds, TypeOK,
     IdsHandedOut
<1>4. HasRecords'
  BY <1>2 DEF EnsureConnected, HasRecords, Records
<1> QED
  BY <1>1, <1>2, <1>3, <1>4, FrontStep

\* The connection is back.
LEMMA ReconnectsStep ==
    ASSUME ProducerInv, Reconnects
    PROVE  ProducerInv'
<1> USE DEF ProducerInv
<1>1. TypeOK'
  BY ConstantsAssumption DEF Reconnects, Connected, ReleaseCallers, clusterVars, bounds,
     TypeOK, Stages, MaxFaults, MaxMoves, MaxOverruns
<1>2. UNCHANGED <<route, sub, stamp, cause, pid, seq, cached, nodeLock, leader, log,
                  arriving, reply, nextPid, scenario, moves, overruns>>
  BY DEF Reconnects, Connected, ReleaseCallers, clusterVars, bounds
<1>3. /\ \A t \in Sends : msgs'[t] = msgs[t] \/ pc[t] = "new"
      /\ \A t \in Sends :
            \/ pc'[t] = pc[t]
            \/ pc[t] = "new" /\ pc'[t] = "connecting"
            \/ pc[t] = "connecting" /\ pc'[t] = "connected" /\ pid < nextPid
            \/ /\ pc[t] \in {"connecting", "connected", "recovering"}
               /\ pc'[t] = "rejected" /\ faults' # MaxFaults
      /\ faults' = faults \/ faults' # MaxFaults
  BY DEF Reconnects, Connected, ReleaseCallers, clusterVars, bounds, TypeOK,
     IdsHandedOut
<1>4. HasRecords'
  BY <1>2 DEF Reconnects, HasRecords, Records
<1> QED
  BY <1>1, <1>2, <1>3, <1>4, FrontStep

\* All callers of the shared connection reject, after a lost call.
LEMMA ConnectFailsStep ==
    ASSUME ProducerInv, ConnectFails
    PROVE  ProducerInv'
<1> USE DEF ProducerInv
<1>1. TypeOK'
  BY ConstantsAssumption DEF ConnectFails, ReleaseCallers, clusterVars, TypeOK, Stages,
     MaxFaults, MaxMoves, MaxOverruns
<1>2. UNCHANGED <<route, sub, stamp, cause, pid, seq, cached, nodeLock, leader, log,
                  arriving, reply, nextPid, scenario, moves, overruns>>
  BY DEF ConnectFails, ReleaseCallers, clusterVars
<1>3. /\ \A t \in Sends : msgs'[t] = msgs[t] \/ pc[t] = "new"
      /\ \A t \in Sends :
            \/ pc'[t] = pc[t]
            \/ pc[t] = "new" /\ pc'[t] = "connecting"
            \/ pc[t] = "connecting" /\ pc'[t] = "connected" /\ pid < nextPid
            \/ /\ pc[t] \in {"connecting", "connected", "recovering"}
               /\ pc'[t] = "rejected" /\ faults' # MaxFaults
      /\ faults' = faults \/ faults' # MaxFaults
  BY DEF ConnectFails, ReleaseCallers, clusterVars, TypeOK, IdsHandedOut
<1>4. HasRecords'
  BY <1>2 DEF ConnectFails, HasRecords, Records
<1> QED
  BY <1>1, <1>2, <1>3, <1>4, FrontStep

\* A send whose metadata is lost has sent nothing.
LEMMA MetadataFailsStep ==
    ASSUME ProducerInv, NEW s \in Sends, MetadataFails(s)
    PROVE  ProducerInv'
<1> USE DEF ProducerInv
<1>1. TypeOK'
  BY ConstantsAssumption DEF MetadataFails, clientVars, clusterVars, TypeOK, Stages,
     MaxFaults, MaxMoves, MaxOverruns
<1>2. UNCHANGED <<route, sub, stamp, cause, pid, seq, cached, nodeLock, leader, log,
                  arriving, reply, nextPid, scenario, moves, overruns>>
  BY DEF MetadataFails, clientVars, clusterVars
<1>3. /\ \A t \in Sends : msgs'[t] = msgs[t] \/ pc[t] = "new"
      /\ \A t \in Sends :
            \/ pc'[t] = pc[t]
            \/ pc[t] = "new" /\ pc'[t] = "connecting"
            \/ pc[t] = "connecting" /\ pc'[t] = "connected" /\ pid < nextPid
            \/ /\ pc[t] \in {"connecting", "connected", "recovering"}
               /\ pc'[t] = "rejected" /\ faults' # MaxFaults
      /\ faults' = faults \/ faults' # MaxFaults
  BY DEF MetadataFails, clientVars, clusterVars, TypeOK, IdsHandedOut
<1>4. HasRecords'
  BY <1>2 DEF MetadataFails, HasRecords, Records
<1> QED
  BY <1>1, <1>2, <1>3, <1>4, FrontStep

\* A catch block that fails changes nothing that is shared.
LEMMA RecoverFailsStep ==
    ASSUME ProducerInv, NEW s \in Sends, RecoverFails(s)
    PROVE  ProducerInv'
<1> USE DEF ProducerInv
<1>1. TypeOK'
  BY ConstantsAssumption DEF RecoverFails, clientVars, clusterVars, TypeOK, Stages,
     MaxFaults, MaxMoves, MaxOverruns
<1>2. UNCHANGED <<route, sub, stamp, cause, pid, seq, cached, nodeLock, leader, log,
                  arriving, reply, nextPid, scenario, moves, overruns>>
  BY DEF RecoverFails, clientVars, clusterVars
<1>3. /\ \A t \in Sends : msgs'[t] = msgs[t] \/ pc[t] = "new"
      /\ \A t \in Sends :
            \/ pc'[t] = pc[t]
            \/ pc[t] = "new" /\ pc'[t] = "connecting"
            \/ pc[t] = "connecting" /\ pc'[t] = "connected" /\ pid < nextPid
            \/ /\ pc[t] \in {"connecting", "connected", "recovering"}
               /\ pc'[t] = "rejected" /\ faults' # MaxFaults
      /\ faults' = faults \/ faults' # MaxFaults
  BY DEF RecoverFails, clientVars, clusterVars, TypeOK, IdsHandedOut
<1>4. HasRecords'
  BY <1>2 DEF RecoverFails, HasRecords, Records
<1> QED
  BY <1>1, <1>2, <1>3, <1>4, FrontStep

\* A new producer id counts from 0, whatever is in flight under the old one.
LEMMA ProducerIdArrivesStep ==
    ASSUME ProducerInv, ProducerIdArrives
    PROVE  ProducerInv'
<1> USE DEF ProducerInv
<1>1. /\ pid' = nextPid /\ nextPid' = nextPid + 1 /\ seq' = [p \in Partitions |-> 0]
      /\ conn' = "idle"
      /\ pc' = [s \in Sends |-> IF pc[s] = "connecting" THEN "connected" ELSE pc[s]]
      /\ UNCHANGED <<msgs, route, sub, stamp, cause, cached, nodeLock, leader, log, arriving,
                     reply, scenario, faults, moves, overruns>>
  BY DEF ProducerIdArrives, InitProducerId, ReleaseCallers, bounds
<1>2. /\ NoOverrun' = NoOverrun /\ Steady' = Steady /\ MaxFaults' = MaxFaults
      /\ MaxMoves' = MaxMoves /\ MaxOverruns' = MaxOverruns
  BY <1>1 DEF NoOverrun, Steady, MaxOverruns, MaxMoves, MaxFaults
<1>3. /\ \A t, m : Batch(t, m)' = Batch(t, m)
      /\ \A p, i : Accepted(p, i)' = Accepted(p, i)
  BY <1>1, BatchesStay, AcceptedStay
<1>4. \A t, p : Placed(t, p)' <=> Placed(t, p)
  BY <1>1 DEF Placed
<1>5. nextPid \in Nat
  BY DEF TypeOK
<1>6. TypeOK'
  <2>1. /\ pc' \in [Sends -> Stages] /\ seq' \in [Partitions -> Nat]
        /\ pid' \in Nat /\ nextPid' \in Nat
    BY <1>1, <1>5 DEF TypeOK, Stages
  <2> QED
    BY <1>1, <1>2, <2>1 DEF TypeOK
<1>7. Grouped'
  BY <1>1, <1>2, <1>3, <1>4 DEF Grouped
<1>8. SentOnce'
  BY <1>1, <1>2, <1>3, <1>4 DEF SentOnce
<1>9. AckedNumberLogged'
  BY <1>1, <1>2, <1>3, <1>4 DEF AckedNumberLogged, SameNumbers, Records
<1>10. IdsHandedOut'
  BY <1>1, <1>4, <1>5 DEF IdsHandedOut, TypeOK
<1>11. SequencesCount'
  <2>1. \A t \in Sends, m \in Nodes : \A p \in Batch(t, m) :
           sub[t][m] \in {"sent", "cut", "ok"} => stamp[t][p].pid # nextPid
    <3>1. \A t \in Sends, m \in Nodes : \A p \in Batch(t, m) :
             sub[t][m] \in {"sent", "cut", "ok"} => p \in Partitions /\ Placed(t, p)
      BY DEF Batch, Placed, TypeOK
    <3> QED
      BY <1>5, <3>1 DEF IdsHandedOut, TypeOK
  <2> QED
    BY <1>1, <1>3, <2>1 DEF SequencesCount
<1>12. NodeLocked'
  BY <1>1, <1>2, <1>3, <1>4 DEF NodeLocked, InFlight
<1>13. OkDistinct'
  BY <1>1, <1>2, <1>3, <1>4 DEF OkDistinct
<1>14. RoutesRight'
  BY <1>1, <1>2, <1>3, <1>4 DEF RoutesRight
<1>15. NoGaps'
  <2>1. PICK id \in Nat : id = nextPid
    BY <1>5
  <2>2. \A p \in Partitions : \A t \in Sends : Placed(t, p) => stamp[t][p].pid # id
    BY <2>1 DEF IdsHandedOut, TypeOK
  <2>3. \A p \in Partitions : Accepted(p, id) = {}
    <3> SUFFICES ASSUME NEW p \in Partitions, NEW t \in log[p], stamp[t][p].pid = id
                 PROVE  FALSE
      BY DEF Accepted
    <3>1. t \in Sends /\ Placed(t, p)
      BY DEF SentOnce, Placed, TypeOK
    <3> QED
      BY <2>2, <3>1
  <2>4. \A p \in Partitions, i, k \in Nat : Gapless(p, i, k) => Gapless(p, i, k)'
    BY <1>1, <1>3, <1>4 DEF Gapless, NextNumber, Records
  <2>5. \A p \in Partitions : Gapless(p, id, 0)'
    <3> SUFFICES ASSUME NEW p \in Partitions
                 PROVE  Gapless(p, id, 0)'
      OBVIOUS
    <3>1. Accepted(p, id)' = {}
      BY <1>3, <2>3
    <3>2. \A t \in Sends : Placed(t, p)' => stamp'[t][p].pid # id
      BY <1>1, <1>4, <2>2
    <3> QED
      BY <3>1, <3>2 DEF Gapless, NextNumber, Records
  <2>6. \A p \in Partitions : Gapless(p, pid, seq[p])'
    <3> SUFFICES ASSUME NEW p \in Partitions
                 PROVE  Gapless(p, pid, seq[p])'
      OBVIOUS
    <3>1. pid' = id /\ seq'[p] = 0
      BY <1>1, <2>1
    <3>2. Accepted(p, pid)' = Accepted(p, id)'
      BY <3>1 DEF Accepted
    <3> QED
      BY <2>5, <3>1, <3>2 DEF Gapless, NextNumber, Records
  <2> QED
    BY <1>2, <2>4, <2>6 DEF NoGaps
<1>16. InFlightIsNext'
  <2>1. \A t \in Sends, p \in Partitions : Placed(t, p) => stamp[t][p].pid # nextPid
    BY <1>5 DEF IdsHandedOut, TypeOK
  <2>2. \A s \in Sends, n \in Nodes : \A p \in Batch(s, n) : p \in Partitions
    BY DEF Batch, TypeOK
  <2> QED
    BY <1>1, <1>3, <1>4, <2>1, <2>2 DEF InFlightIsNext
<1>17. NoErrors'
  BY <1>1, <1>2, <1>3, <1>4, NoErrorsStay
<1>18. NothingFails'
  BY <1>1, <1>2, <1>3, <1>4 DEF NothingFails
<1>19. HasRecords' /\ LogDistinct'
  BY <1>1 DEF HasRecords, LogDistinct, Records
<1> QED
  BY <1>6, <1>7, <1>8, <1>9, <1>10, <1>11, <1>12, <1>13, <1>14, <1>15, <1>16, <1>17,
     <1>18, <1>19

\* The records are grouped by the cached leaders, or by those just fetched.
LEMMA DistributeStep ==
    ASSUME ProducerInv, NEW s \in Sends, Distribute(s)
    PROVE  ProducerInv'
<1> USE DEF ProducerInv
<1> DEFINE view == IF \A p \in Partitions : cached[p] # NoNode THEN cached ELSE leader
<1>1. /\ pc[s] = "connected" /\ pc' = [pc EXCEPT ![s] = "sending"]
      /\ view \in [Partitions -> Nodes] /\ cached' = view
      /\ route' = [route EXCEPT ![s] = view]
      /\ sub' = [sub EXCEPT ![s] = [n \in Nodes |-> IF \E p \in msgs[s] : view[p] = n
                                                    THEN "waiting" ELSE "none"]]
      /\ UNCHANGED <<msgs, stamp, cause, conn, pid, seq, nodeLock, leader, log, arriving,
                     reply, nextPid, scenario, faults, moves, overruns>>
  BY DEF Distribute, clusterVars, bounds, TypeOK
<1>2. /\ NoOverrun' = NoOverrun /\ Steady' = Steady /\ MaxFaults' = MaxFaults
      /\ MaxMoves' = MaxMoves /\ MaxOverruns' = MaxOverruns
  BY <1>1 DEF NoOverrun, Steady, MaxOverruns, MaxMoves, MaxFaults
<1> HIDE DEF view
<1>3. /\ \A t \in Sends \ {s} : /\ pc'[t] = pc[t] /\ sub'[t] = sub[t] /\ route'[t] = route[t]
                               /\ \A m : Batch(t, m)' = Batch(t, m)
      /\ \A p, i : Accepted(p, i)' = Accepted(p, i)
  BY <1>1, AcceptedStay DEF Batch, TypeOK
<1>4. /\ pc'[s] = "sending" /\ route'[s] = view
      /\ \A n \in Nodes : /\ sub[s][n] = "none" /\ reply[s][n] = "none"
                          /\ <<s, n>> \notin arriving
                          /\ sub'[s][n] \in {"waiting", "none"}
      /\ \A p \in Partitions : s \notin log[p]
      /\ \A p \in msgs[s] : view[p] \in Nodes /\ sub'[s][view[p]] = "waiting"
  BY <1>1 DEF Grouped, SentOnce, TypeOK
<1>5. \A t \in Sends, p \in Partitions : Placed(t, p)' <=> Placed(t, p)
  <2>1. \A p \in Partitions : ~Placed(s, p)'
    BY <1>1, <1>4 DEF Placed
  <2>2. \A p \in Partitions : ~Placed(s, p)
    BY <1>1, <1>4 DEF Placed
  <2>3. \A t \in Sends \ {s}, p \in Partitions : Placed(t, p)' <=> Placed(t, p)
    BY <1>1, <1>3 DEF Placed
  <2> QED
    BY <2>1, <2>2, <2>3
<1>6. \A t \in Sends, m \in Nodes :
         \/ Batch(t, m)' = Batch(t, m) /\ sub'[t][m] = sub[t][m]
         \/ /\ t = s /\ sub'[t][m] \in {"waiting", "none"}
            /\ sub[t][m] = "none" /\ reply[t][m] = "none"
  <2> SUFFICES ASSUME NEW t \in Sends, NEW m \in Nodes
               PROVE  \/ Batch(t, m)' = Batch(t, m) /\ sub'[t][m] = sub[t][m]
                      \/ /\ t = s /\ sub'[t][m] \in {"waiting", "none"}
                         /\ sub[t][m] = "none" /\ reply[t][m] = "none"
    OBVIOUS
  <2>1. CASE t = s
    BY <1>4, <2>1
  <2>2. CASE t # s
    BY <1>3, <2>2
  <2> QED
    BY <2>1, <2>2
<1>7. UNCHANGED <<msgs, stamp, cause, conn, pid, seq, nodeLock, leader, log, arriving,
                  reply, nextPid, scenario, faults, moves, overruns>>
  BY <1>1
<1>8. TypeOK'
  <2>1. /\ pc' \in [Sends -> Stages] /\ cached' \in [Partitions -> Nodes \cup {NoNode}]
        /\ route' \in [Sends -> [Partitions -> Nodes \cup {NoNode}]]
    BY <1>1 DEF TypeOK, Stages
  <2>2. sub' \in [Sends -> [Nodes -> SubStages]]
    BY <1>1 DEF TypeOK, SubStages
  <2> QED
    BY <1>2, <1>7, <2>1, <2>2 DEF TypeOK
<1>9. Grouped'
  BY <1>1, <1>2, <1>3, <1>4, <1>5 DEF Grouped
<1>10. SentOnce'
  BY <1>1, <1>2, <1>3, <1>4, <1>5 DEF SentOnce
<1>11. AckedNumberLogged'
  BY <1>6, <1>7 DEF AckedNumberLogged, SameNumbers, Records
<1>12. IdsHandedOut'
  BY <1>1, <1>2, <1>3, <1>4, <1>5 DEF IdsHandedOut
<1>13. SequencesCount'
  BY <1>6, <1>7 DEF SequencesCount
<1>14. NodeLocked'
  BY <1>2, <1>6, <1>7 DEF NodeLocked, InFlight
<1>15. OkDistinct'
  BY <1>2, <1>6, <1>7 DEF OkDistinct
<1>16. RoutesRight'
  <2>1. moves = MaxMoves => \A p \in Partitions : view[p] = leader[p]
    BY <1>1 DEF RoutesRight, view, TypeOK
  <2> QED
    BY <1>1, <1>2, <1>3, <1>4, <1>7, <2>1 DEF RoutesRight
<1>17. NoGaps'
  BY <1>2, <1>3, <1>5, <1>7, NoGapsStay
<1>18. InFlightIsNext'
  <2> SUFFICES ASSUME Steady, NEW t \in Sends, NEW m \in Nodes, InFlight(t, m)',
                      NEW p \in Batch(t, m)'
               PROVE  \/ stamp[t][p] = [pid |-> pid, seq |-> seq[p]]
                      \/ \A u \in Sends : Placed(u, p)' => stamp[u][p].pid # pid
    BY <1>2, <1>7 DEF InFlightIsNext
  <2>1. InFlight(t, m) /\ p \in Batch(t, m)
    <3>1. sub'[t][m] = sub[t][m] /\ Batch(t, m)' = Batch(t, m)
      BY <1>6 DEF InFlight
    <3> QED
      BY <3>1 DEF InFlight
  <2>2. p \in Partitions
    BY <2>1 DEF Batch, TypeOK
  <2>3. \/ stamp[t][p] = [pid |-> pid, seq |-> seq[p]]
        \/ \A u \in Sends : Placed(u, p) => stamp[u][p].pid # pid
    BY <2>1 DEF InFlightIsNext
  <2> QED
    BY <1>5, <2>2, <2>3
<1>19. NoErrors'
  BY <1>2, <1>7, <1>6, NoErrorsStay
<1>20. NothingFails'
  BY <1>1, <1>2, <1>3, <1>4, <1>5 DEF NothingFails
<1>21. HasRecords' /\ LogDistinct'
  BY <1>1 DEF HasRecords, LogDistinct, Records
<1> QED
  BY <1>8, <1>9, <1>10, <1>11, <1>12, <1>13, <1>14, <1>15, <1>16, <1>17, <1>18, <1>19,
     <1>20, <1>21

\* The holder of the lock of a node stamps its batch with the next numbers.
LEMMA SendRequestStep ==
    ASSUME ProducerInv, NEW s \in Sends, NEW n \in Nodes, SendRequest(s, n)
    PROVE  ProducerInv'
<1> USE DEF ProducerInv
<1>1. /\ sub[s][n] = "waiting" /\ ~nodeLock[n]
      /\ nodeLock' = [nodeLock EXCEPT ![n] = TRUE]
      /\ sub' = [sub EXCEPT ![s][n] = "sent"]
      /\ stamp' = [stamp EXCEPT ![s] = [p \in Partitions |->
                      IF p \in Batch(s, n) THEN [pid |-> pid, seq |-> seq[p]] ELSE @[p]]]
      /\ arriving' = arriving \cup {<<s, n>>}
      /\ UNCHANGED <<pc, msgs, route, cause, conn, pid, seq, cached, leader, log, reply,
                     nextPid, scenario, faults, moves, overruns>>
  BY DEF SendRequest, bounds
<1>2. /\ NoOverrun' = NoOverrun /\ Steady' = Steady /\ MaxFaults' = MaxFaults
      /\ MaxMoves' = MaxMoves /\ MaxOverruns' = MaxOverruns
  BY <1>1 DEF NoOverrun, Steady, MaxOverruns, MaxMoves, MaxFaults
<1>3. \A t, m : Batch(t, m)' = Batch(t, m)
  BY <1>1, BatchesStay
<1>4. \A t \in Sends, m \in Nodes : \A p \in Batch(t, m) : p \in Partitions /\ route[t][p] = m
  BY DEF Batch, TypeOK
<1>5. \A t \in Sends, m \in Nodes : /\ (t = s /\ m = n) => sub'[t][m] = "sent"
                                    /\ (t # s \/ m # n) => sub'[t][m] = sub[t][m]
  BY <1>1 DEF TypeOK
<1>6. \A t \in Sends, p \in Partitions :
          /\ (t = s /\ p \in Batch(s, n)) => stamp'[t][p] = [pid |-> pid, seq |-> seq[p]]
          /\ (t # s \/ p \notin Batch(s, n)) => stamp'[t][p] = stamp[t][p]
  BY <1>1 DEF TypeOK
<1>7. \A t \in Sends, m \in Nodes : \A p \in Batch(t, m) :
          /\ (t = s /\ m = n) => stamp'[t][p] = [pid |-> pid, seq |-> seq[p]]
          /\ (t # s \/ m # n) => stamp'[t][p] = stamp[t][p]
  BY <1>4, <1>6
<1>8. /\ \A p \in Partitions : \A t \in log[p] :
            t \in Sends /\ Placed(t, p) /\ stamp'[t][p] = stamp[t][p]
      /\ \A t \in Sends, p \in Partitions : Placed(t, p) => stamp'[t][p] = stamp[t][p]
      /\ \A t \in Sends, p \in Partitions :
            Placed(t, p)' <=> (Placed(t, p) \/ (t = s /\ p \in Batch(s, n)))
  <2>1. \A p \in Batch(s, n) : ~Placed(s, p)
    BY <1>1, <1>4 DEF Placed, SentOnce
  <2>2. \A t \in Sends, p \in Partitions : Placed(t, p) => stamp'[t][p] = stamp[t][p]
    BY <1>6, <2>1
  <2>3. \A p \in Partitions : \A t \in log[p] : t \in Sends /\ Placed(t, p)
    BY DEF SentOnce, Placed, TypeOK
  <2>4. \A t \in Sends, p \in Partitions :
           Placed(t, p)' <=> (Placed(t, p) \/ (t = s /\ p \in Batch(s, n)))
    <3> SUFFICES ASSUME NEW t \in Sends, NEW p \in Partitions
                 PROVE  Placed(t, p)' <=> (Placed(t, p) \/ (t = s /\ p \in Batch(s, n)))
      OBVIOUS
    <3>1. /\ Placed(t, p)' <=> (/\ p \in msgs[t] /\ route[t][p] \in Nodes
                               /\ \/ sub'[t][route[t][p]] \in {"sent", "cut", "ok"}
                                  \/ <<t, route[t][p]>> \in arriving'
                                  \/ t \in log[p])
          /\ (t = s /\ p \in Batch(s, n)) <=> (t = s /\ p \in msgs[t] /\ route[t][p] = n)
      BY <1>1 DEF Placed, Batch
    <3>2. CASE t = s /\ route[t][p] = n
      <4>1. sub'[t][route[t][p]] = "sent"
        BY <1>5, <3>2
      <4>2. Placed(t, p) => p \in msgs[t]
        BY DEF Placed
      <4> QED
        BY <3>1, <3>2, <4>1, <4>2
    <3>3. CASE t # s \/ route[t][p] # n
      BY <1>1, <1>5, <3>1, <3>3 DEF Placed
    <3> QED
      BY <3>2, <3>3
  <2> QED
    BY <2>2, <2>3, <2>4
<1>9. \A p \in Partitions, i \in Nat : Accepted(p, i)' = Accepted(p, i)
  BY <1>1, <1>8 DEF Accepted
<1>10. UNCHANGED <<pc, msgs, route, cause, conn, pid, seq, cached, leader, log, reply,
                  nextPid, scenario, faults, moves, overruns>>
  BY <1>1
<1>11. \A t \in Sends, m \in Nodes : \A p \in Batch(t, m) :
         p \in Partitions /\ (sub[t][m] \in {"sent", "cut", "ok"} => Placed(t, p))
  BY <1>4 DEF Placed, Batch
<1>12. TypeOK'
  <2>1. /\ sub' \in [Sends -> [Nodes -> SubStages]] /\ nodeLock' \in [Nodes -> BOOLEAN]
    BY <1>1 DEF TypeOK, SubStages
  <2>2. stamp' \in [Sends -> [Partitions -> [pid : Nat, seq : Nat]]]
    BY <1>1 DEF TypeOK
  <2>3. arriving' \subseteq Sends \X Nodes
    BY <1>1 DEF TypeOK
  <2> QED
    BY <1>2, <1>10, <2>1, <2>2, <2>3 DEF TypeOK
<1>13. Grouped'
  BY <1>1, <1>5, <1>10 DEF Grouped
<1>14. SentOnce'
  BY <1>1, <1>5, <1>10 DEF SentOnce
<1>15. AckedNumberLogged'
  <2> SUFFICES ASSUME NEW t \in Sends, NEW m \in Nodes, reply[t][m] = "ok", NEW p \in Batch(t, m)
               PROVE  \E u \in log[p] : /\ stamp'[u][p] = stamp'[t][p]
                                        /\ Records(t, p) = Records(u, p)
    BY <1>3, <1>10 DEF AckedNumberLogged, SameNumbers, Records
  <2>1. t # s \/ m # n
    BY <1>1 DEF SentOnce
  <2>2. p \in Partitions /\ stamp'[t][p] = stamp[t][p]
    BY <1>4, <1>7, <2>1
  <2>3. PICK u \in log[p] : stamp[u][p] = stamp[t][p] /\ Records(t, p) = Records(u, p)
    BY DEF AckedNumberLogged, SameNumbers
  <2> QED
    BY <1>8, <2>2, <2>3
<1>16. IdsHandedOut'
  <2>1. pid < nextPid
    BY <1>1 DEF IdsHandedOut
  <2>2. \A t \in Sends :
           (\E m \in Nodes : sub'[t][m] # "none") => (\E m \in Nodes : sub[t][m] # "none")
    BY <1>1, <1>5
  <2>3. \A t \in Sends, p \in Partitions : Placed(t, p)' => stamp'[t][p].pid < nextPid
    <3> SUFFICES ASSUME NEW t \in Sends, NEW p \in Partitions, Placed(t, p)'
                 PROVE  stamp'[t][p].pid < nextPid
      OBVIOUS
    <3>1. CASE t = s /\ p \in Batch(s, n)
      <4>1. stamp'[t][p] = [pid |-> pid, seq |-> seq[p]]
        BY <1>6, <3>1
      <4> QED
        BY <2>1, <4>1
    <3>2. CASE t # s \/ p \notin Batch(s, n)
      <4>1. Placed(t, p) /\ stamp'[t][p] = stamp[t][p]
        BY <1>8, <1>6, <3>2
      <4> QED
        BY <4>1 DEF IdsHandedOut
    <3> QED
      BY <3>1, <3>2
  <2> QED
    BY <1>10, <2>1, <2>3 DEF IdsHandedOut
<1>17. SequencesCount'
  <2> SUFFICES ASSUME NEW t \in Sends, NEW m \in Nodes, NEW p \in Batch(t, m),
                      sub'[t][m] \in {"sent", "cut", "ok"}, stamp'[t][p].pid = pid
               PROVE  /\ stamp'[t][p].seq <= seq[p]
                      /\ sub'[t][m] = "ok" => stamp'[t][p].seq < seq[p]
    BY <1>3, <1>10 DEF SequencesCount
  <2>1. p \in Partitions /\ route[t][p] = m /\ seq[p] \in Nat
    BY <1>4 DEF TypeOK
  <2>2. CASE t = s /\ m = n
    <3>1. stamp'[t][p] = [pid |-> pid, seq |-> seq[p]]
      BY <1>7, <2>2
    <3>2. sub'[t][m] = "sent"
      BY <1>5, <2>2
    <3>3. stamp'[t][p].seq = seq[p]
      BY <3>1
    <3> QED
      BY <2>1, <3>2, <3>3
  <2>3. CASE t # s \/ m # n
    <3>1. stamp'[t][p] = stamp[t][p]
      BY <1>7, <2>3
    <3>2. sub'[t][m] = sub[t][m]
      BY <1>5, <2>3
    <3> QED
      BY <3>1, <3>2 DEF SequencesCount
  <2> QED
    BY <2>2, <2>3
<1>18. NodeLocked'
  <2>1. \A t \in Sends, m \in Nodes : InFlight(t, m)' <=> (InFlight(t, m) \/ (t = s /\ m = n))
    BY <1>5 DEF InFlight
  <2>2. NoOverrun => \A t \in Sends : ~InFlight(t, n)
    BY <1>1 DEF NodeLocked
  <2>3. \A m \in Nodes : nodeLock'[m] <=> (m = n \/ nodeLock[m])
    BY <1>1 DEF TypeOK
  <2> QED
    BY <1>2, <2>1, <2>2, <2>3 DEF NodeLocked
<1>19. OkDistinct'
  <2> SUFFICES ASSUME NoOverrun, NEW t \in Sends, NEW u \in Sends, NEW m \in Nodes, t # u,
                      sub'[t][m] = "ok", sub'[u][m] \in {"sent", "cut", "ok"},
                      NEW p \in Batch(t, m) \cap Batch(u, m)
               PROVE  stamp'[t][p] # stamp'[u][p]
    BY <1>2, <1>3 DEF OkDistinct
  <2>1. /\ sub[t][m] = "ok" /\ (t # s \/ m # n) /\ stamp'[t][p] = stamp[t][p]
        /\ p \in Partitions /\ route[u][p] = m
    BY <1>1, <1>4, <1>5, <1>7
  <2>2. CASE u = s /\ m = n
    <3>1. stamp'[u][p] = [pid |-> pid, seq |-> seq[p]]
      BY <1>7, <2>1, <2>2
    <3>2. stamp[t][p].pid = pid => stamp[t][p].seq < seq[p]
      BY <2>1 DEF SequencesCount
    <3>3. stamp[t][p] \in [pid : Nat, seq : Nat] /\ seq[p] \in Nat
      BY <2>1 DEF TypeOK
    <3> QED
      BY <2>1, <3>1, <3>2, <3>3
  <2>3. CASE u # s \/ m # n
    <3>1. stamp'[u][p] = stamp[u][p] /\ sub'[u][m] = sub[u][m]
      BY <1>5, <1>7, <2>1, <2>3
    <3> QED
      BY <2>1, <3>1 DEF OkDistinct
  <2> QED
    BY <2>2, <2>3
<1>20. RoutesRight'
  BY <1>2, <1>3, <1>4, <1>5, <1>6, <1>7, <1>8, <1>9, <1>10 DEF RoutesRight
<1>21. NoGaps'
  <2>1. \A p \in Partitions : Steady => Gapless(p, pid, seq[p])'
    <3> SUFFICES ASSUME NEW p \in Partitions, Gapless(p, pid, seq[p])
                 PROVE  Gapless(p, pid, seq[p])'
      BY DEF NoGaps
    <3>1. Accepted(p, pid)' = Accepted(p, pid)
      <4>1. PICK id \in Nat : id = pid
        BY DEF TypeOK
      <4>2. Accepted(p, id)' = Accepted(p, id)
        BY <1>9
      <4> QED
        BY <1>10, <4>1, <4>2 DEF Accepted
    <3>2. \A t \in Accepted(p, pid) : /\ stamp'[t][p] = stamp[t][p]
                                     /\ NextNumber(t, p)' = NextNumber(t, p)
      BY <1>8, <1>10 DEF Accepted, NextNumber, Records
    <3>3. \A t \in Sends : Placed(t, p)' /\ stamp'[t][p].pid = pid =>
             \/ stamp'[t][p].seq = seq[p]
             \/ \E u \in Accepted(p, pid) : stamp[u][p].seq = stamp'[t][p].seq
      <4> SUFFICES ASSUME NEW t \in Sends, Placed(t, p)', stamp'[t][p].pid = pid
                   PROVE  \/ stamp'[t][p].seq = seq[p]
                          \/ \E u \in Accepted(p, pid) : stamp[u][p].seq = stamp'[t][p].seq
        OBVIOUS
      <4>1. CASE t = s /\ p \in Batch(s, n)
        <5>1. stamp'[t][p] = [pid |-> pid, seq |-> seq[p]]
          BY <1>6, <4>1
        <5> QED
          BY <5>1
      <4>2. CASE t # s \/ p \notin Batch(s, n)
        <5>1. Placed(t, p) /\ stamp'[t][p] = stamp[t][p]
          BY <1>8, <1>6, <4>2
        <5> QED
          BY <5>1 DEF Gapless
      <4> QED
        BY <4>1, <4>2
    <3> QED
      BY <1>10, <3>1, <3>2, <3>3 DEF Gapless
  <2>2. \A p \in Partitions, i, k \in Nat : i # pid /\ Gapless(p, i, k) => Gapless(p, i, k)'
    <3> SUFFICES ASSUME NEW p \in Partitions, NEW i \in Nat, NEW k \in Nat, i # pid,
                        Gapless(p, i, k)
                 PROVE  Gapless(p, i, k)'
      OBVIOUS
    <3>1. Accepted(p, i)' = Accepted(p, i)
      BY <1>9
    <3>2. \A t \in Accepted(p, i) : /\ stamp'[t][p] = stamp[t][p]
                                   /\ NextNumber(t, p)' = NextNumber(t, p)
      BY <1>8, <1>10 DEF Accepted, NextNumber, Records
    <3>3. ASSUME NEW t \in Sends, Placed(t, p)', stamp'[t][p].pid = i
          PROVE  \/ stamp'[t][p].seq = k
                 \/ \E u \in Accepted(p, i) : stamp[u][p].seq = stamp'[t][p].seq
      <4>1. t # s \/ p \notin Batch(s, n)
        <5> SUFFICES ASSUME t = s, p \in Batch(s, n)
                     PROVE  FALSE
          OBVIOUS
        <5>1. stamp'[t][p] = [pid |-> pid, seq |-> seq[p]]
          BY <1>6
        <5> QED
          BY <3>3, <5>1
      <4>2. Placed(t, p) /\ stamp'[t][p] = stamp[t][p]
        BY <1>8, <1>6, <3>3, <4>1
      <4> QED
        BY <3>3, <4>2 DEF Gapless
    <3> QED
      BY <3>1, <3>2, <3>3 DEF Gapless
  <2>3. \A p \in Partitions : seq[p] \in Nat
    BY DEF TypeOK
  <2>4. \A p \in Partitions :
           Steady => Gapless(p, pid, seq[p])' /\ \A i \in Nat : \E k \in Nat : Gapless(p, i, k)'
    <3> SUFFICES ASSUME NEW p \in Partitions, Steady, NEW i \in Nat
                 PROVE  \E k \in Nat : Gapless(p, i, k)'
      BY <2>1
    <3>1. CASE i = pid
      <4>1. Gapless(p, i, seq[p])'
        BY <1>10, <2>1, <3>1 DEF Gapless, NextNumber, Records, Accepted
      <4> QED
        BY <2>3, <4>1, <1>10
    <3>2. CASE i # pid
      BY <2>2, <3>2 DEF NoGaps
    <3> QED
      BY <3>1, <3>2
  <2> QED
    BY <1>2, <2>4 DEF NoGaps
<1>22. InFlightIsNext'
  <2> SUFFICES ASSUME Steady, NEW t \in Sends, NEW m \in Nodes, InFlight(t, m)',
                      NEW p \in Batch(t, m)
               PROVE  \/ stamp'[t][p] = [pid |-> pid, seq |-> seq[p]]
                      \/ \A u \in Sends : Placed(u, p)' => stamp'[u][p].pid # pid
    BY <1>2, <1>3, <1>10 DEF InFlightIsNext
  <2>1. p \in Partitions /\ route[t][p] = m
    BY <1>4
  <2>2. CASE t = s /\ m = n
    BY <1>7, <2>1, <2>2
  <2>3. CASE m # n
    <3>1. InFlight(t, m) /\ stamp'[t][p] = stamp[t][p]
      BY <1>5, <1>7, <2>1, <2>3 DEF InFlight
    <3>2. p \notin Batch(s, n)
      <4>1. leader[p] = m
        BY <1>10, LeadersRouted DEF Steady
      <4> QED
        BY <2>3, <4>1, LeadersRouted DEF Steady
    <3> QED
      BY <1>8, <2>1, <3>1, <3>2 DEF InFlightIsNext
  <2>4. CASE m = n /\ t # s
    <3>1. InFlight(t, n)
      BY <1>5, <2>4 DEF InFlight
    <3> QED
      BY <1>1, <3>1 DEF NodeLocked, Steady
  <2> QED
    BY <2>2, <2>3, <2>4
<1>23. NoErrors'
  <2> SUFFICES ASSUME Steady, NEW t \in Sends, NEW m \in Nodes, reply[t][m] \notin {"none", "ok"}
               PROVE  reply[t][m] = "outOfOrder" /\ \E p \in Batch(t, m) : Clash(t, p)'
    BY <1>2, <1>3, <1>10 DEF NoErrors
  <2>1. t # s \/ m # n
    BY <1>1 DEF SentOnce
  <2>2. PICK p \in Batch(t, m) : reply[t][m] = "outOfOrder" /\ Clash(t, p)
    BY DEF NoErrors
  <2>3. p \in Partitions /\ stamp'[t][p] = stamp[t][p]
    BY <1>4, <1>7, <2>1
  <2>4. Clash(t, p)'
    BY <1>8, <1>10, <2>2, <2>3 DEF Clash, Records
  <2> QED
    BY <2>2, <2>4
<1>24. NothingFails'
  BY <1>2, <1>3, <1>4, <1>5, <1>6, <1>7, <1>8, <1>9, <1>10 DEF NothingFails
<1>25. HasRecords' /\ LogDistinct'
  <2>1. HasRecords'
    BY <1>1 DEF HasRecords, Records
  <2>2. LogDistinct'
    BY <1>8, <1>10 DEF LogDistinct
  <2> QED
    BY <2>1, <2>2
<1> QED
  BY <1>12, <1>13, <1>14, <1>15, <1>16, <1>17, <1>18, <1>19, <1>20, <1>21, <1>22, <1>23,
     <1>24, <1>25

\* A lock timer that fires ends what is promised of the locks.
LEMMA LockTimerFiresStep ==
    ASSUME ProducerInv, NEW n \in Nodes, LockTimerFires(n)
    PROVE  ProducerInv'
<1> USE DEF ProducerInv
<1>1. /\ nodeLock' = [nodeLock EXCEPT ![n] = FALSE]
      /\ overruns > 0 /\ overruns' = overruns - 1
      /\ UNCHANGED <<pc, msgs, route, sub, stamp, cause, conn, pid, seq, cached, leader, log,
                     arriving, reply, nextPid, scenario, faults, moves>>
  BY DEF LockTimerFires, sendVars, clusterVars
<1>2. /\ ~NoOverrun' /\ ~Steady' /\ MaxFaults' = MaxFaults /\ MaxMoves' = MaxMoves
      /\ overruns' \in 0..MaxOverruns'
  BY <1>1, ConstantsAssumption DEF NoOverrun, Steady, MaxOverruns, MaxMoves, MaxFaults,
     TypeOK
<1>3. /\ \A t, m : Batch(t, m)' = Batch(t, m)
      /\ \A p, i : Accepted(p, i)' = Accepted(p, i)
  BY <1>1, BatchesStay, AcceptedStay
<1>4. \A t, p : Placed(t, p)' <=> Placed(t, p)
  BY <1>1 DEF Placed
<1>5. TypeOK'
  BY <1>1, <1>2, <1>3, <1>4 DEF TypeOK, Stages, SubStages
<1>6. Grouped'
  BY <1>1, <1>2, <1>3, <1>4 DEF Grouped
<1>7. SentOnce'
  BY <1>1, <1>2, <1>3, <1>4 DEF SentOnce
<1>8. AckedNumberLogged'
  BY <1>1, <1>2, <1>3, <1>4 DEF AckedNumberLogged, SameNumbers, Records
<1>9. IdsHandedOut'
  BY <1>1, <1>2, <1>3, <1>4 DEF IdsHandedOut
<1>10. SequencesCount'
  BY <1>1, <1>2, <1>3, <1>4 DEF SequencesCount
<1>11. NodeLocked'
  BY <1>1, <1>2, <1>3, <1>4 DEF NodeLocked, InFlight
<1>12. OkDistinct'
  BY <1>1, <1>2, <1>3, <1>4 DEF OkDistinct
<1>13. RoutesRight'
  BY <1>1, <1>2, <1>3, <1>4 DEF RoutesRight
<1>14. NoGaps'
  BY <1>1, <1>2, <1>3, <1>4, NoGapsStay
<1>15. InFlightIsNext'
  BY <1>1, <1>2, <1>3, <1>4 DEF InFlightIsNext, InFlight
<1>16. NoErrors'
  BY <1>1, <1>2, <1>3, <1>4, NoErrorsStay
<1>17. NothingFails'
  BY <1>1, <1>2, <1>3, <1>4 DEF NothingFails
<1>18. HasRecords' /\ LogDistinct'
  BY <1>1 DEF HasRecords, LogDistinct, Records
<1> QED
  BY <1>5, <1>6, <1>7, <1>8, <1>9, <1>10, <1>11, <1>12, <1>13, <1>14, <1>15, <1>16,
     <1>17, <1>18

\* What a request has sent is counted before its lock is free again.
LEMMA RequestSucceedsStep ==
    ASSUME ProducerInv, NEW s \in Sends, NEW n \in Nodes, RequestSucceeds(s, n)
    PROVE  ProducerInv'
<1> USE DEF ProducerInv
<1>1. /\ sub[s][n] = "sent" /\ reply[s][n] = "ok"
      /\ sub' = [sub EXCEPT ![s][n] = "ok"]
      /\ seq' = [p \in Partitions |->
                    IF p \in Batch(s, n) THEN seq[p] + Records(s, p) ELSE seq[p]]
      /\ nodeLock' = [nodeLock EXCEPT ![n] = FALSE]
      /\ pc' = IF /\ pc[s] = "sending"
                  /\ \A m \in Nodes \ {n} : sub[s][m] \in {"none", "ok"}
               THEN [pc EXCEPT ![s] = "acked"] ELSE pc
  BY DEF RequestSucceeds
<1>2. UNCHANGED <<msgs, route, stamp, cause, conn, pid, cached, leader, log, arriving, reply,
                  nextPid, scenario, faults, moves, overruns>>
  BY DEF RequestSucceeds, clusterVars, bounds
<1>3. /\ NoOverrun' = NoOverrun /\ Steady' = Steady /\ MaxFaults' = MaxFaults
      /\ MaxMoves' = MaxMoves /\ MaxOverruns' = MaxOverruns
  BY <1>2 DEF NoOverrun, Steady, MaxOverruns, MaxMoves, MaxFaults
<1>4. \A t, m : Batch(t, m)' = Batch(t, m)
  BY <1>2, BatchesStay
<1>5. \A p, i : Accepted(p, i)' = Accepted(p, i)
  BY <1>2, AcceptedStay
<1>6. \A t \in Sends, m \in Nodes : /\ (t = s /\ m = n) => sub'[t][m] = "ok"
                                    /\ (t # s \/ m # n) => sub'[t][m] = sub[t][m]
  BY <1>1 DEF TypeOK
<1>7. \A p \in Partitions :
         /\ p \in Batch(s, n) => /\ seq'[p] = seq[p] + Records(s, p)
                                 /\ Records(s, p) \in Nat /\ Records(s, p) > 0
         /\ p \notin Batch(s, n) => seq'[p] = seq[p]
         /\ seq[p] \in Nat /\ seq'[p] \in Nat /\ seq'[p] >= seq[p]
  <2> SUFFICES ASSUME NEW p \in Partitions
               PROVE  /\ p \in Batch(s, n) => /\ seq'[p] = seq[p] + Records(s, p)
                                              /\ Records(s, p) \in Nat /\ Records(s, p) > 0
                      /\ p \notin Batch(s, n) => seq'[p] = seq[p]
                      /\ seq[p] \in Nat /\ seq'[p] \in Nat /\ seq'[p] >= seq[p]
    OBVIOUS
  <2>1. Records(s, p) \in Nat
    BY ConstantsAssumption DEF TypeOK, Records
  <2>2. p \in Batch(s, n) => Records(s, p) > 0
    BY DEF Batch, HasRecords
  <2>3. /\ p \in Batch(s, n) => seq'[p] = seq[p] + Records(s, p)
        /\ p \notin Batch(s, n) => seq'[p] = seq[p]
        /\ seq[p] \in Nat
    BY <1>1 DEF TypeOK
  <2> QED
    BY <2>1, <2>2, <2>3
<1>8. \A t \in Sends, m \in Nodes : \A p \in Batch(t, m) : p \in Partitions /\ route[t][p] = m
  BY DEF Batch, TypeOK
<1>9. \A t \in Sends : /\ pc'[t] = pc[t] \/ pc'[t] = "acked"
                       /\ (t # s \/ pc[t] # "sending") => pc'[t] = pc[t]
                       /\ (t = s /\ pc'[t] = "acked" /\ pc[t] # "acked") =>
                             pc[t] = "sending" /\ \A m \in Nodes \ {n} : sub[s][m] \in {"none", "ok"}
  BY <1>1 DEF TypeOK
<1>10. \A t \in Sends, p \in Partitions : Placed(t, p)' <=> Placed(t, p)
  <2> SUFFICES ASSUME NEW t \in Sends, NEW p \in Partitions
               PROVE  Placed(t, p)' <=> Placed(t, p)
    OBVIOUS
  <2>1. CASE t = s /\ route[t][p] = n
    <3>1. sub'[t][route[t][p]] = "ok" /\ sub[t][route[t][p]] = "sent"
      BY <1>1, <1>6, <2>1
    <3> QED
      BY <1>2, <3>1 DEF Placed
  <2>2. CASE t # s \/ route[t][p] # n
    BY <1>2, <1>6, <2>2 DEF Placed
  <2> QED
    BY <2>1, <2>2
<1>11. \A t \in Sends, m \in Nodes : InFlight(t, m)' <=> (InFlight(t, m) /\ (t # s \/ m # n))
  BY <1>6 DEF InFlight
<1>12. InFlight(s, n)
  BY <1>1 DEF InFlight
<1>13. \A t \in Sends, m \in Nodes : /\ sub'[t][m] = "none" <=> sub[t][m] = "none"
                                     /\ sub'[t][m] \in {"none", "waiting"} <=> sub[t][m] \in {"none", "waiting"}
                                     /\ sub'[t][m] \in {"sent", "cut", "ok"} <=> sub[t][m] \in {"sent", "cut", "ok"}
                                     /\ sub'[t][m] \in {"cut", "failed"} <=> sub[t][m] \in {"cut", "failed"}
                                     /\ sub'[t][m] = "ok" => (sub[t][m] = "ok" \/ (t = s /\ m = n))
  BY <1>1, <1>6
<1>14. TypeOK'
  <2>1. sub' \in [Sends -> [Nodes -> SubStages]] /\ nodeLock' \in [Nodes -> BOOLEAN]
    BY <1>1 DEF TypeOK, SubStages
  <2>2. seq' \in [Partitions -> Nat] /\ pc' \in [Sends -> Stages]
    BY <1>1, <1>7 DEF TypeOK, Stages
  <2> QED
    BY <1>2, <1>3, <2>1, <2>2 DEF TypeOK
<1>15. Grouped'
  <2> SUFFICES ASSUME NEW t \in Sends
               PROVE  /\ pc'[t] \in {"new", "connecting", "connected"} =>
                            \A m \in Nodes : sub'[t][m] = "none"
                      /\ pc'[t] \in {"sending", "recovering", "acked"} =>
                            \A p \in msgs[t] : route[t][p] \in Nodes /\ sub'[t][route[t][p]] # "none"
                      /\ pc'[t] = "acked" => \A m \in Nodes : sub'[t][m] \in {"none", "ok"}
                      /\ cause[t] # "none" => pc'[t] \in {"recovering", "rejected"}
    BY <1>2 DEF Grouped
  <2>1. CASE pc'[t] = pc[t]
    BY <1>6, <1>13, <2>1 DEF Grouped
  <2>2. CASE pc'[t] # pc[t]
    <3>1. t = s /\ pc[t] = "sending" /\ pc'[t] = "acked"
      BY <1>9, <2>2
    <3>2. \A m \in Nodes : sub'[t][m] \in {"none", "ok"}
      BY <1>6, <1>9, <3>1
    <3> QED
      BY <1>13, <3>1, <3>2 DEF Grouped
  <2> QED
    BY <2>1, <2>2
<1>16. SentOnce'
  BY <1>1, <1>2, <1>13 DEF SentOnce
<1>17. AckedNumberLogged'
  BY <1>2, <1>4 DEF AckedNumberLogged, SameNumbers, Records
<1>18. IdsHandedOut'
  <2>1. \A t \in Sends : pc'[t] = "connected" => pc[t] = "connected"
    BY <1>9
  <2> QED
    BY <1>2, <1>10, <1>13, <2>1 DEF IdsHandedOut
<1>19. SequencesCount'
  <2> SUFFICES ASSUME NEW t \in Sends, NEW m \in Nodes, NEW p \in Batch(t, m),
                      sub'[t][m] \in {"sent", "cut", "ok"}, stamp[t][p].pid = pid
               PROVE  /\ stamp[t][p].seq <= seq'[p]
                      /\ sub'[t][m] = "ok" => stamp[t][p].seq < seq'[p]
    BY <1>2, <1>4 DEF SequencesCount
  <2>1. p \in Partitions /\ stamp[t][p].seq \in Nat
    BY <1>8 DEF TypeOK
  <2>2. /\ stamp[t][p].seq <= seq[p]
        /\ sub[t][m] = "ok" => stamp[t][p].seq < seq[p]
    BY <1>13 DEF SequencesCount
  <2>3. sub'[t][m] = "ok" => sub[t][m] = "ok" \/ seq'[p] > seq[p]
    <3>1. p \in Batch(s, n) => seq'[p] > seq[p]
      BY <1>7, <2>1
    <3> QED
      BY <1>13, <3>1
  <2>4. seq[p] \in Nat /\ seq'[p] \in Nat /\ seq'[p] >= seq[p]
    BY <1>7, <2>1
  <2> QED
    BY <2>1, <2>2, <2>3, <2>4
<1>20. NodeLocked'
  <2>1. NoOverrun => \A t \in Sends : ~InFlight(t, n)'
    BY <1>11, <1>12 DEF NodeLocked
  <2>2. \A m \in Nodes : m # n => nodeLock'[m] = nodeLock[m]
    BY <1>1 DEF TypeOK
  <2> QED
    BY <1>3, <1>11, <2>1, <2>2 DEF NodeLocked
<1>21. OkDistinct'
  <2> SUFFICES ASSUME NoOverrun, NEW t \in Sends, NEW u \in Sends, NEW m \in Nodes, t # u,
                      sub'[t][m] = "ok", sub'[u][m] \in {"sent", "cut", "ok"},
                      NEW p \in Batch(t, m) \cap Batch(u, m)
               PROVE  stamp[t][p] # stamp[u][p]
    BY <1>2, <1>3, <1>4 DEF OkDistinct
  <2>1. sub[u][m] \in {"sent", "cut", "ok"} /\ sub[t][m] \in {"sent", "cut", "ok"}
    BY <1>13
  <2>2. CASE sub[t][m] = "ok"
    BY <2>1, <2>2 DEF OkDistinct
  <2>3. CASE sub[t][m] # "ok"
    <3>1. t = s /\ m = n
      BY <1>13, <2>3
    <3>2. sub[u][m] = "ok"
      <4>1. ~InFlight(u, n)
        BY <1>12, <3>1 DEF NodeLocked
      <4> QED
        BY <2>1, <3>1, <4>1 DEF InFlight
    <3> QED
      BY <2>1, <3>2 DEF OkDistinct
  <2> QED
    BY <2>2, <2>3
<1>22. RoutesRight'
  BY <1>2, <1>3 DEF RoutesRight
<1>23. NoGaps'
  <2>1. \A p \in Partitions, i, k \in Nat : Gapless(p, i, k) => Gapless(p, i, k)'
    BY <1>2, <1>5, <1>10 DEF Gapless, NextNumber, Records
  <2>2. \A p \in Partitions : Steady => Gapless(p, pid, seq[p])'
    <3> SUFFICES ASSUME NEW p \in Partitions, Steady
                 PROVE  Gapless(p, pid, seq[p])'
      OBVIOUS
    <3>1. PICK i \in Nat, k \in Nat : i = pid /\ k = seq'[p]
      <4>1. seq'[p] \in Nat
        BY <1>7
      <4> QED
        BY <4>1 DEF TypeOK
    <3>2. seq[p] \in Nat /\ Gapless(p, i, seq[p])
      BY <3>1 DEF NoGaps, TypeOK
    <3>3. CASE p \notin Batch(s, n)
      <4>1. Gapless(p, i, k)'
        BY <1>7, <2>1, <3>1, <3>2, <3>3
      <4> QED
        BY <1>2, <3>1, <4>1 DEF Gapless, NextNumber, Records, Accepted
    <3>4. CASE p \in Batch(s, n)
      <4>1. k = seq[p] + Records(s, p) /\ Records(s, p) \in Nat
        BY <1>7, <3>1, <3>4
      <4>2. /\ \A t \in Accepted(p, i) : stamp[t][p].seq = seq[p] \/ NextNumber(t, p) <= seq[p]
            /\ \A t \in Sends : Placed(t, p) /\ stamp[t][p].pid = i =>
                  \/ stamp[t][p].seq = seq[p]
                  \/ \E u \in Accepted(p, i) : stamp[u][p].seq = stamp[t][p].seq
        BY <3>2 DEF Gapless
      <4>3. /\ \A t \in log[p] : t \in Sends /\ Placed(t, p)
            /\ \A t \in Accepted(p, i) : /\ t \in log[p] /\ stamp[t][p].pid = i
                                          /\ stamp[t][p] \in [pid : Nat, seq : Nat]
                                          /\ NextNumber(t, p) \in Nat
        <5>1. \A t \in log[p] : t \in Sends /\ Placed(t, p)
          BY PlacedHasRecords
        <5>2. \A t \in Accepted(p, i) : t \in log[p] /\ stamp[t][p].pid = i
          BY DEF Accepted
        <5>3. \A t \in Accepted(p, i) : /\ stamp[t][p] \in [pid : Nat, seq : Nat]
                                        /\ Records(t, p) \in Nat
          BY <5>1, <5>2, PlacedHasRecords
        <5> QED
          BY <5>1, <5>2, <5>3 DEF NextNumber
      <4>4. ASSUME stamp[s][p] = [pid |-> pid, seq |-> seq[p]]
            PROVE  Gapless(p, i, k)
        <5>1. PICK t \in log[p] : SameNumbers(s, t, p)
          BY <1>1, <3>4 DEF AckedNumberLogged
        <5>2. /\ t \in Accepted(p, i) /\ stamp[t][p].seq = seq[p]
              /\ stamp[t][p] = [pid |-> i, seq |-> seq[p]] /\ NextNumber(t, p) = k
          BY <3>1, <4>1, <4>4, <5>1 DEF Accepted, SameNumbers, NextNumber
        <5>3. \A u \in Accepted(p, i) : stamp[u][p].seq = seq[p] => u = t
          <6> SUFFICES ASSUME NEW u \in Accepted(p, i), stamp[u][p].seq = seq[p]
                       PROVE  u = t
            OBVIOUS
          <6>1. stamp[u][p] = stamp[t][p]
            BY <4>3, <5>2
          <6> QED
            BY <4>3, <5>1, <6>1 DEF LogDistinct
        <5>4. \A u \in Accepted(p, i) : NextNumber(u, p) <= k
          <6>1. \A u \in Accepted(p, i) : u = t \/ NextNumber(u, p) <= seq[p]
            BY <4>2, <5>3
          <6>2. k \in Nat /\ seq[p] \in Nat /\ seq[p] <= k
            BY <3>2, <4>1
          <6> QED
            BY <4>3, <5>2, <6>1, <6>2
        <5> QED
          BY <4>2, <5>2, <5>4 DEF Gapless
      <4>5. ASSUME \A t \in Sends : Placed(t, p) => stamp[t][p].pid # i
            PROVE  Gapless(p, i, k)
        <5>1. Accepted(p, i) = {}
          BY <4>3, <4>5
        <5> QED
          BY <4>5, <5>1 DEF Gapless
      <4>6. Gapless(p, i, k)
        BY <1>12, <3>1, <3>4, <4>4, <4>5 DEF InFlightIsNext
      <4>7. Gapless(p, i, k)'
        BY <2>1, <4>6
      <4> QED
        BY <1>2, <3>1, <4>7 DEF Gapless, NextNumber, Records, Accepted
    <3> QED
      BY <3>3, <3>4
  <2> QED
    BY <1>3, <2>1, <2>2 DEF NoGaps
<1>24. InFlightIsNext'
  <2> SUFFICES ASSUME Steady, NEW t \in Sends, NEW m \in Nodes, InFlight(t, m)',
                      NEW p \in Batch(t, m)
               PROVE  \/ stamp[t][p] = [pid |-> pid, seq |-> seq'[p]]
                      \/ \A u \in Sends : Placed(u, p)' => stamp[u][p].pid # pid
    BY <1>2, <1>3, <1>4 DEF InFlightIsNext
  <2>1. p \in Partitions /\ InFlight(t, m) /\ (t # s \/ m # n)
    BY <1>8, <1>11
  <2>2. p \notin Batch(s, n)
    <3> SUFFICES ASSUME p \in Batch(s, n)
                 PROVE  FALSE
      OBVIOUS
    <3>1. leader[p] = m /\ leader[p] = n
      BY LeadersRouted DEF Steady
    <3> QED
      BY <1>12, <2>1, <3>1 DEF NodeLocked, Steady
  <2>3. seq'[p] = seq[p]
    BY <1>7, <2>1, <2>2
  <2> QED
    BY <1>10, <2>1, <2>3 DEF InFlightIsNext
<1>25. NoErrors'
  BY <1>2, <1>3, <1>4, NoErrorsStay
<1>26. NothingFails'
  <2>1. \A t \in Sends : pc'[t] \in {"recovering", "rejected"} => pc'[t] = pc[t]
    BY <1>9
  <2> QED
    BY <1>2, <1>3, <1>13, <2>1 DEF NothingFails
<1>27. HasRecords' /\ LogDistinct'
  BY <1>2 DEF HasRecords, LogDistinct, Records
<1> QED
  BY <1>14, <1>15, <1>16, <1>17, <1>18, <1>19, <1>20, <1>21, <1>22, <1>23, <1>24, <1>25,
     <1>26, <1>27

\* A request that fails keeps the sequences, and may still reach the log.
LEMMA RejectStep ==
    ASSUME ProducerInv, NEW s \in Sends, NEW n \in Nodes, NEW e \in Errors, RequestRejects(s, n, e),
           sub[s][n] \in {"waiting", "sent", "cut"}, sub[s][n] = "waiting" => ~nodeLock[n],
           faults' \in 0..MaxFaults, UNCHANGED <<scenario, moves, overruns>>,
           Steady /\ faults' = MaxFaults => \E t \in Sends : cause'[t] = "overflow"
    PROVE  ProducerInv'
<1> USE DEF ProducerInv
<1>1. /\ sub' = [sub EXCEPT ![s][n] = "failed"]
      /\ nodeLock' = [nodeLock EXCEPT ![n] = FALSE]
      /\ \/ /\ pc[s] = "sending" /\ pc' = [pc EXCEPT ![s] = "recovering"]
            /\ cause' = [cause EXCEPT ![s] = e]
         \/ pc[s] # "sending" /\ UNCHANGED <<pc, cause>>
      /\ UNCHANGED <<msgs, route, stamp, conn, pid, seq, cached, leader, log, arriving, reply,
                     nextPid>>
  BY DEF RequestRejects, clusterVars
<1>2. /\ NoOverrun' = NoOverrun /\ Steady' = Steady /\ MaxFaults' = MaxFaults
      /\ MaxMoves' = MaxMoves /\ MaxOverruns' = MaxOverruns
  BY DEF NoOverrun, Steady, MaxOverruns, MaxMoves, MaxFaults
<1>3. /\ \A t, m : Batch(t, m)' = Batch(t, m)
      /\ \A p, i : Accepted(p, i)' = Accepted(p, i)
  BY <1>1, BatchesStay, AcceptedStay
<1>4. \A t \in Sends, m \in Nodes : /\ (t = s /\ m = n) => sub'[t][m] = "failed"
                                    /\ (t # s \/ m # n) => sub'[t][m] = sub[t][m]
  BY <1>1 DEF TypeOK
<1>5. \A t \in Sends : \/ pc'[t] = pc[t] /\ cause'[t] = cause[t]
                       \/ t = s /\ pc[t] = "sending" /\ pc'[t] = "recovering"
  <2>1. CASE pc[s] = "sending"
    BY <1>1, <2>1 DEF TypeOK
  <2>2. CASE pc[s] # "sending"
    BY <1>1, <2>2
  <2> QED
    BY <2>1, <2>2
<1>6. UNCHANGED <<msgs, route, stamp, conn, pid, seq, cached, leader, log, arriving, reply,
                  nextPid>>
  BY <1>1
<1>7. \A t \in Sends, m \in Nodes :
         /\ sub'[t][m] = "none" <=> sub[t][m] = "none"
         /\ sub[t][m] \notin {"none", "waiting"} => sub'[t][m] \notin {"none", "waiting"}
         /\ sub'[t][m] \in {"sent", "cut", "ok"} => sub'[t][m] = sub[t][m]
  BY <1>4
<1>8. \A t \in Sends, p \in Partitions : Placed(t, p)' => Placed(t, p)
  <2> SUFFICES ASSUME NEW t \in Sends, NEW p \in Partitions, Placed(t, p)'
               PROVE  Placed(t, p)
    OBVIOUS
  <2>1. route[t][p] \in Nodes
    BY <1>6 DEF Placed
  <2>2. sub'[t][route[t][p]] \in {"sent", "cut", "ok"} => sub'[t][route[t][p]] = sub[t][route[t][p]]
    BY <1>7, <2>1
  <2> QED
    BY <1>6, <2>2 DEF Placed
<1>9. \A t \in Sends, m \in Nodes : InFlight(t, m)' <=> (InFlight(t, m) /\ (t # s \/ m # n))
  BY <1>4 DEF InFlight
<1>10. \A t \in Sends, m \in Nodes : \A p \in Batch(t, m) : p \in Partitions
  BY DEF Batch, TypeOK
<1>11. TypeOK'
  <2>1. sub' \in [Sends -> [Nodes -> SubStages]] /\ nodeLock' \in [Nodes -> BOOLEAN]
    BY <1>1 DEF TypeOK, SubStages
  <2>2. pc' \in [Sends -> Stages] /\ cause' \in [Sends -> Errors \cup {"none"}]
    <3>1. CASE pc[s] = "sending"
      <4>1. pc' = [pc EXCEPT ![s] = "recovering"] /\ cause' = [cause EXCEPT ![s] = e]
        BY <1>1, <3>1
      <4>2. pc' \in [Sends -> Stages]
        BY <4>1 DEF TypeOK, Stages
      <4>3. cause' \in [Sends -> Errors \cup {"none"}]
        BY <4>1 DEF TypeOK
      <4> QED
        BY <4>2, <4>3
    <3>2. CASE pc[s] # "sending"
      BY <1>1, <3>2 DEF TypeOK
    <3> QED
      BY <3>1, <3>2
  <2> QED
    BY <1>2, <1>6, <2>1, <2>2 DEF TypeOK
<1>12. Grouped'
  <2> SUFFICES ASSUME NEW t \in Sends
               PROVE  /\ pc'[t] \in {"new", "connecting", "connected"} =>
                            \A m \in Nodes : sub'[t][m] = "none"
                      /\ pc'[t] \in {"sending", "recovering", "acked"} =>
                            \A p \in msgs[t] : route[t][p] \in Nodes /\ sub'[t][route[t][p]] # "none"
                      /\ pc'[t] = "acked" => \A m \in Nodes : sub'[t][m] \in {"none", "ok"}
                      /\ cause'[t] # "none" => pc'[t] \in {"recovering", "rejected"}
    BY <1>6 DEF Grouped
  <2>1. CASE pc'[t] = pc[t] /\ cause'[t] = cause[t]
    <3>1. pc[s] # "acked"
      BY DEF Grouped
    <3>2. pc'[t] = "acked" => \A m \in Nodes : sub'[t][m] \in {"none", "ok"}
      <4>1. t # s => \A m \in Nodes : sub'[t][m] = sub[t][m]
        BY <1>4
      <4> QED
        BY <2>1, <3>1, <4>1 DEF Grouped
    <3>3. pc'[t] \in {"new", "connecting", "connected"} => \A m \in Nodes : sub'[t][m] = "none"
      BY <1>7, <2>1 DEF Grouped
    <3>4. pc'[t] \in {"sending", "recovering", "acked"} =>
             \A p \in msgs[t] : route[t][p] \in Nodes /\ sub'[t][route[t][p]] # "none"
      BY <1>7, <2>1 DEF Grouped
    <3> QED
      BY <2>1, <3>2, <3>3, <3>4 DEF Grouped
  <2>2. CASE t = s /\ pc[t] = "sending" /\ pc'[t] = "recovering"
    BY <1>7, <2>2 DEF Grouped
  <2> QED
    BY <1>5, <2>1, <2>2
<1>13. SentOnce'
  <2>1. \A t \in Sends, m \in Nodes : sub'[t][m] = "ok" => sub[t][m] = "ok"
    BY <1>7
  <2> QED
    BY <1>6, <1>7, <2>1 DEF SentOnce, TypeOK
<1>14. AckedNumberLogged'
  BY <1>3, <1>6 DEF AckedNumberLogged, SameNumbers, Records
<1>15. IdsHandedOut'
  BY <1>5, <1>6, <1>7, <1>8 DEF IdsHandedOut
<1>16. SequencesCount'
  BY <1>3, <1>6, <1>7 DEF SequencesCount
<1>17. NodeLocked'
  <2>1. NoOverrun => \A t \in Sends : ~InFlight(t, n)'
    <3> SUFFICES ASSUME NoOverrun, NEW t \in Sends, InFlight(t, n), t # s
                 PROVE  FALSE
      BY <1>9
    <3>1. nodeLock[n]
      BY DEF NodeLocked
    <3>2. InFlight(s, n)
      BY <3>1 DEF InFlight
    <3> QED
      BY <3>2 DEF NodeLocked
  <2>2. \A m \in Nodes : m # n => nodeLock'[m] = nodeLock[m]
    BY <1>1 DEF TypeOK
  <2> QED
    BY <1>2, <1>9, <2>1, <2>2 DEF NodeLocked
<1>18. OkDistinct'
  <2>1. \A t \in Sends, m \in Nodes : sub'[t][m] = "ok" => sub[t][m] = "ok"
    BY <1>7
  <2>2. \A t \in Sends, m \in Nodes : sub'[t][m] \in {"sent", "cut", "ok"} =>
           sub[t][m] \in {"sent", "cut", "ok"}
    BY <1>7
  <2> QED
    BY <1>2, <1>3, <1>6, <2>1, <2>2 DEF OkDistinct
<1>19. RoutesRight'
  BY <1>2, <1>6 DEF RoutesRight
<1>20. NoGaps'
  BY <1>2, <1>3, <1>6, <1>8, NoGapsStay
<1>21. InFlightIsNext'
  BY <1>2, <1>3, <1>6, <1>8, <1>9, <1>10 DEF InFlightIsNext
<1>22. NoErrors'
  BY <1>2, <1>6, <1>3, NoErrorsStay
<1>23. NothingFails'
  BY <1>2 DEF NothingFails
<1>24. HasRecords' /\ LogDistinct'
  BY <1>6 DEF HasRecords, LogDistinct, Records
<1> QED
  BY <1>11, <1>12, <1>13, <1>14, <1>15, <1>16, <1>17, <1>18, <1>19, <1>20, <1>21, <1>22,
     <1>23, <1>24

\* An overflow is recorded, or follows one that was.
LEMMA SequenceOverflowsStep ==
    ASSUME ProducerInv, NEW s \in Sends, NEW n \in Nodes, SequenceOverflows(s, n)
    PROVE  ProducerInv'
<1> USE DEF ProducerInv
<1>1. /\ RequestRejects(s, n, "overflow") /\ sub[s][n] = "waiting" /\ ~nodeLock[n]
      /\ UNCHANGED <<scenario, faults, moves, overruns>>
  BY DEF SequenceOverflows, bounds
<1>2. faults' \in 0..MaxFaults
  BY <1>1 DEF TypeOK
<1>3. Steady /\ faults' = MaxFaults => \E t \in Sends : cause'[t] = "overflow"
  <2>1. CASE pc[s] = "sending"
    BY <1>1, <2>1 DEF RequestRejects, TypeOK
  <2>2. CASE pc[s] # "sending"
    <3>1. cause' = cause
      BY <1>1, <2>2 DEF RequestRejects
    <3>2. pc[s] \in {"recovering", "rejected"}
      <4>1. pc[s] \notin {"new", "connecting", "connected"}
        BY <1>1 DEF Grouped
      <4>2. pc[s] # "acked"
        BY <1>1 DEF Grouped
      <4> QED
        BY <2>2, <4>1, <4>2 DEF TypeOK, Stages
    <3> QED
      BY <1>1, <3>1, <3>2 DEF NothingFails
  <2> QED
    BY <2>1, <2>2
<1> QED
  BY <1>1, <1>2, <1>3, RejectStep DEF Errors

\* An error of a broker shows that a leader moved, a lock timer fired or an
\* earlier request failed.
LEMMA ErrorArrivesStep ==
    ASSUME ProducerInv, NEW s \in Sends, NEW n \in Nodes, ErrorArrives(s, n)
    PROVE  ProducerInv'
<1> USE DEF ProducerInv
<1>1. /\ RequestRejects(s, n, reply[s][n]) /\ sub[s][n] = "sent" /\ reply[s][n] \in Errors
      /\ UNCHANGED <<scenario, faults, moves, overruns>>
  BY DEF ErrorArrives, bounds
<1>2. faults' \in 0..MaxFaults
  BY <1>1 DEF TypeOK
<1>3. Steady => \E t \in Sends : sub[t][n] = "failed"
  BY <1>1, ClashFailed DEF Errors
<1>4. Steady /\ faults' = MaxFaults => \E t \in Sends : cause'[t] = "overflow"
  <2> SUFFICES ASSUME Steady, faults = MaxFaults
               PROVE  \E t \in Sends : cause'[t] = "overflow"
    BY <1>1
  <2>1. PICK t \in Sends : cause[t] = "overflow"
    BY <1>3 DEF NothingFails
  <2>2. pc[t] # "sending"
    BY <2>1 DEF Grouped
  <2>3. cause'[t] = cause[t]
    BY <1>1, <2>2 DEF RequestRejects, TypeOK
  <2> QED
    BY <2>1, <2>3
<1> QED
  BY <1>1, <1>2, <1>4, RejectStep

\* A lost request is a fault; a cut one follows an earlier failure.
LEMMA RequestFailsStep ==
    ASSUME ProducerInv, NEW s \in Sends, NEW n \in Nodes, RequestFails(s, n)
    PROVE  ProducerInv'
<1> USE DEF ProducerInv
<1>1. /\ RequestRejects(s, n, "network") /\ sub[s][n] \in {"sent", "cut"}
      /\ (sub[s][n] = "cut" /\ faults' = faults) \/ (faults > 0 /\ faults' = faults - 1)
      /\ UNCHANGED <<scenario, moves, overruns>>
  BY DEF RequestFails
<1>2. faults' \in 0..MaxFaults /\ MaxFaults \in Nat /\ faults \in 0..MaxFaults
  <2>1. scenario.faults \in Nat
    BY ConstantsAssumption DEF TypeOK
  <2> QED
    BY <1>1, <2>1 DEF TypeOK, MaxFaults
<1>3. Steady /\ faults' = MaxFaults => \E t \in Sends : cause'[t] = "overflow"
  <2> SUFFICES ASSUME Steady, faults' = MaxFaults
               PROVE  \E t \in Sends : cause'[t] = "overflow"
    OBVIOUS
  <2>1. sub[s][n] = "cut" /\ faults = MaxFaults
    BY <1>1, <1>2
  <2>2. PICK t \in Sends : cause[t] = "overflow"
    BY <2>1 DEF NothingFails
  <2>3. pc[t] # "sending"
    BY <2>2 DEF Grouped
  <2>4. cause'[t] = cause[t]
    BY <1>1, <2>3 DEF RequestRejects, TypeOK
  <2> QED
    BY <2>2, <2>4
<1> QED
  BY <1>1, <1>2, <1>3, RejectStep DEF Errors

\* Requests that are cut off stay in flight; a new id leaves them behind.
LEMMA CatchStep ==
    ASSUME ProducerInv, TypeOK',
           UNCHANGED <<msgs, route, stamp, cause, nodeLock, leader, log, arriving, reply,
                       scenario, moves, overruns>>,
           \A t \in Sends, m \in Nodes : \/ sub'[t][m] = sub[t][m]
                                         \/ sub[t][m] = "sent" /\ sub'[t][m] = "cut",
           \A t \in Sends : pc'[t] = pc[t] \/ (pc[t] = "recovering" /\ pc'[t] = "rejected"),
           cached' = cached \/ cached' = leader,
           \/ UNCHANGED <<pid, nextPid, seq>>
           \/ /\ pid' = nextPid /\ nextPid' = nextPid + 1
              /\ seq' = [p \in Partitions |-> 0],
           faults' = MaxFaults => faults = MaxFaults /\ \E t \in Sends : pc[t] = "recovering"
    PROVE  ProducerInv'
<1> USE DEF ProducerInv
<1>1. /\ NoOverrun' = NoOverrun /\ Steady' = Steady /\ MaxFaults' = MaxFaults
      /\ MaxMoves' = MaxMoves /\ MaxOverruns' = MaxOverruns
  BY DEF NoOverrun, Steady, MaxOverruns, MaxMoves, MaxFaults
<1>2. /\ \A t, m : Batch(t, m)' = Batch(t, m)
      /\ \A p, i : Accepted(p, i)' = Accepted(p, i)
  BY BatchesStay, AcceptedStay
<1>3. \A t \in Sends, m \in Nodes :
         /\ sub'[t][m] = "none" <=> sub[t][m] = "none"
         /\ sub'[t][m] = "ok" <=> sub[t][m] = "ok"
         /\ sub'[t][m] \in {"none", "waiting"} <=> sub[t][m] \in {"none", "waiting"}
         /\ sub'[t][m] \in {"sent", "cut"} <=> sub[t][m] \in {"sent", "cut"}
         /\ sub'[t][m] \in {"sent", "cut", "ok"} <=> sub[t][m] \in {"sent", "cut", "ok"}
         /\ sub[t][m] \in {"none", "ok"} => sub'[t][m] \in {"none", "ok"}
  OBVIOUS
<1>4. \A t \in Sends, m \in Nodes : InFlight(t, m)' <=> InFlight(t, m)
  BY <1>3 DEF InFlight
<1>5. \A t \in Sends, p \in Partitions : Placed(t, p)' <=> Placed(t, p)
  BY <1>3 DEF Placed
<1>6. \A t \in Sends, m \in Nodes : \A p \in Batch(t, m) : p \in Partitions /\ route[t][p] = m
  BY DEF Batch, TypeOK
<1>7. ASSUME UNCHANGED <<pid, nextPid, seq>>
      PROVE  IdsHandedOut' /\ SequencesCount' /\ NoGaps' /\ InFlightIsNext'
  <2>1. IdsHandedOut' /\ SequencesCount'
    BY <1>2, <1>3, <1>5, <1>7 DEF IdsHandedOut, SequencesCount
  <2>2. NoGaps'
    BY <1>1, <1>5, <1>7, NoGapsStay
  <2>3. InFlightIsNext'
    BY <1>1, <1>2, <1>4, <1>5, <1>6, <1>7 DEF InFlightIsNext
  <2> QED
    BY <2>1, <2>2, <2>3
<1>8. ASSUME pid' = nextPid, nextPid' = nextPid + 1, seq' = [p \in Partitions |-> 0]
      PROVE  IdsHandedOut' /\ SequencesCount' /\ NoGaps' /\ InFlightIsNext'
  <2>1. /\ pid' = nextPid /\ nextPid' = nextPid + 1 /\ seq' = [p \in Partitions |-> 0]
        /\ UNCHANGED <<msgs, route, stamp, log>>
    BY <1>8
  <2>2. nextPid \in Nat
    BY DEF TypeOK
  <2>3. IdsHandedOut'
    <3>1. \A t \in Sends : pc'[t] = "connected" => pc[t] = "connected"
      OBVIOUS
    <3> QED
      BY <1>3, <1>5, <2>1, <2>2, <3>1 DEF IdsHandedOut, TypeOK
  <2>4. SequencesCount'
    <3>1. \A t \in Sends, m \in Nodes : \A p \in Batch(t, m) :
             sub[t][m] \in {"sent", "cut", "ok"} => stamp[t][p].pid # nextPid
      <4>1. \A t \in Sends, m \in Nodes : \A p \in Batch(t, m) :
               sub[t][m] \in {"sent", "cut", "ok"} => p \in Partitions /\ Placed(t, p)
        BY DEF Batch, Placed, TypeOK
      <4> QED
        BY <2>2, <4>1 DEF IdsHandedOut, TypeOK
    <3> QED
      BY <2>1, <1>2, <3>1 DEF SequencesCount
  <2>5. NoGaps'
    <3>1. PICK id \in Nat : id = nextPid
      BY <2>2
    <3>2. \A p \in Partitions : \A t \in Sends : Placed(t, p) => stamp[t][p].pid # id
      BY <3>1 DEF IdsHandedOut, TypeOK
    <3>3. \A p \in Partitions : Accepted(p, id) = {}
      <4> SUFFICES ASSUME NEW p \in Partitions, NEW t \in log[p], stamp[t][p].pid = id
                   PROVE  FALSE
        BY DEF Accepted
      <4>1. t \in Sends /\ Placed(t, p)
        BY DEF SentOnce, Placed, TypeOK
      <4> QED
        BY <3>2, <4>1
    <3>4. \A p \in Partitions, i, k \in Nat : Gapless(p, i, k) => Gapless(p, i, k)'
      BY <2>1, <1>2, <1>5 DEF Gapless, NextNumber, Records
    <3>5. \A p \in Partitions : Gapless(p, id, 0)'
      <4> SUFFICES ASSUME NEW p \in Partitions
                   PROVE  Gapless(p, id, 0)'
        OBVIOUS
      <4>1. Accepted(p, id)' = {}
        BY <1>2, <3>3
      <4>2. \A t \in Sends : Placed(t, p)' => stamp'[t][p].pid # id
        BY <2>1, <1>5, <3>2
      <4> QED
        BY <4>1, <4>2 DEF Gapless, NextNumber, Records
    <3>6. \A p \in Partitions : Gapless(p, pid, seq[p])'
      <4> SUFFICES ASSUME NEW p \in Partitions
                   PROVE  Gapless(p, pid, seq[p])'
        OBVIOUS
      <4>1. pid' = id /\ seq'[p] = 0
        BY <2>1, <3>1
      <4>2. Accepted(p, pid)' = Accepted(p, id)'
        BY <4>1 DEF Accepted
      <4> QED
        BY <3>5, <4>1, <4>2 DEF Gapless, NextNumber, Records
    <3> QED
      BY <1>1, <3>4, <3>6 DEF NoGaps
  <2>6. InFlightIsNext'
    <3>1. \A t \in Sends, p \in Partitions : Placed(t, p) => stamp[t][p].pid # nextPid
      BY <2>2 DEF IdsHandedOut, TypeOK
    <3>2. \A s \in Sends, n \in Nodes : \A p \in Batch(s, n) : p \in Partitions
      BY DEF Batch, TypeOK
    <3> QED
      BY <2>1, <1>2, <1>5, <3>1, <3>2 DEF InFlightIsNext
  <2> QED
    BY <2>3, <2>4, <2>5, <2>6
<1>9. IdsHandedOut' /\ SequencesCount' /\ NoGaps' /\ InFlightIsNext'
  BY <1>7, <1>8
<1>10. Grouped'
  <2>1. \A t \in Sends : /\ pc'[t] \in {"new", "connecting", "connected", "sending", "acked"} => pc'[t] = pc[t]
                         /\ pc[t] \in {"recovering", "rejected"} => pc'[t] \in {"recovering", "rejected"}
                         /\ pc'[t] = "recovering" => pc[t] = "recovering"
    OBVIOUS
  <2> QED
    BY <1>3, <2>1 DEF Grouped
<1>11. SentOnce'
  BY <1>3 DEF SentOnce, TypeOK
<1>12. AckedNumberLogged'
  BY <1>2 DEF AckedNumberLogged, SameNumbers, Records
<1>13. NodeLocked'
  BY <1>1, <1>4 DEF NodeLocked
<1>14. OkDistinct'
  BY <1>1, <1>2, <1>3 DEF OkDistinct
<1>15. RoutesRight'
  BY <1>1 DEF RoutesRight
<1>16. NoErrors'
  BY <1>1, <1>2, NoErrorsStay
<1>17. NothingFails'
  BY <1>1 DEF NothingFails
<1>18. HasRecords' /\ LogDistinct'
  BY DEF HasRecords, LogDistinct, Records
<1> QED
  BY <1>9, <1>10, <1>11, <1>12, <1>13, <1>14, <1>15, <1>16, <1>17, <1>18

\* The cut requests are some of those that were sent.
LEMMA DisconnectCuts ==
    ASSUME TypeOK, Disconnect
    PROVE  /\ \A t \in Sends, m \in Nodes : \/ sub'[t][m] = sub[t][m]
                                            \/ sub[t][m] = "sent" /\ sub'[t][m] = "cut"
           /\ sub' \in [Sends -> [Nodes -> SubStages]]
           /\ conn' \in {"fresh", "idle", "reconnecting", "init", "stranded"}
<1>1. PICK lost \in SUBSET {r \in Sends \X Nodes : sub[r[1]][r[2]] = "sent"} :
         sub' = [s \in Sends |-> [n \in Nodes |->
                     IF <<s, n>> \in lost THEN "cut" ELSE sub[s][n]]]
  BY DEF Disconnect
<1>2. \A t \in Sends, m \in Nodes : /\ <<t, m>> \in lost => sub[t][m] = "sent"
                                    /\ sub'[t][m] = (IF <<t, m>> \in lost THEN "cut" ELSE sub[t][m])
  BY <1>1
<1>3. sub' \in [Sends -> [Nodes -> SubStages]]
  BY <1>1 DEF TypeOK, SubStages
<1>4. conn' \in {"fresh", "idle", "reconnecting", "init", "stranded"}
  BY DEF Disconnect, TypeOK
<1> QED
  BY <1>2, <1>3, <1>4

\* The catch block.
LEMMA RecoverStep ==
    ASSUME ProducerInv, NEW s \in Sends, Recover(s)
    PROVE  ProducerInv'
<1> USE DEF ProducerInv
<1>1. /\ pc[s] = "recovering" /\ pc' = [pc EXCEPT ![s] = "rejected"]
      /\ cached' = cached \/ cached' = leader
      /\ UNCHANGED <<msgs, route, stamp, cause, nodeLock, leader, log, arriving, reply,
                     scenario, faults, moves, overruns>>
  BY DEF Recover, bounds
<1>2. \/ UNCHANGED <<pid, nextPid, seq>>
      \/ /\ pid' = nextPid /\ nextPid' = nextPid + 1
         /\ seq' = [p \in Partitions |-> 0]
  BY DEF Recover, InitProducerId
<1>3. /\ \A t \in Sends, m \in Nodes : \/ sub'[t][m] = sub[t][m]
                                       \/ sub[t][m] = "sent" /\ sub'[t][m] = "cut"
      /\ sub' \in [Sends -> [Nodes -> SubStages]]
      /\ conn' \in {"fresh", "idle", "reconnecting", "init", "stranded"}
  BY DisconnectCuts DEF Recover
<1>4. TypeOK'
  <2>1. pid' \in Nat /\ nextPid' \in Nat /\ seq' \in [Partitions -> Nat]
    BY <1>2 DEF TypeOK
  <2>2. pc' \in [Sends -> Stages] /\ cached' \in [Partitions -> Nodes \cup {NoNode}]
    BY <1>1 DEF TypeOK, Stages
  <2> QED
    BY <1>1, <1>3, <2>1, <2>2 DEF TypeOK, MaxFaults, MaxMoves, MaxOverruns
<1>5. \A t \in Sends : pc'[t] = pc[t] \/ (pc[t] = "recovering" /\ pc'[t] = "rejected")
  BY <1>1 DEF TypeOK
<1>6. faults' = MaxFaults => faults = MaxFaults /\ \E t \in Sends : pc[t] = "recovering"
  BY <1>1
<1>7. cached' = cached \/ cached' = leader
  BY <1>1
<1> QED
  BY <1>1, <1>2, <1>3, <1>4, <1>5, <1>6, <1>7, CatchStep

\* close() cuts requests as the catch block does.
LEMMA CloseStep ==
    ASSUME ProducerInv, Close
    PROVE  ProducerInv'
<1> USE DEF ProducerInv
<1>1. /\ faults > 0 /\ faults' = faults - 1
      /\ UNCHANGED <<pc, msgs, route, stamp, cause, pid, nextPid, seq, cached, nodeLock,
                     leader, log, arriving, reply, scenario, moves, overruns>>
  BY DEF Close, clusterVars
<1>2. /\ \A t \in Sends, m \in Nodes : \/ sub'[t][m] = sub[t][m]
                                       \/ sub[t][m] = "sent" /\ sub'[t][m] = "cut"
      /\ sub' \in [Sends -> [Nodes -> SubStages]]
      /\ conn' \in {"fresh", "idle", "reconnecting", "init", "stranded"}
  BY DisconnectCuts DEF Close
<1>3. faults' \in 0..MaxFaults /\ faults' # MaxFaults
  <2>1. scenario.faults \in Nat
    BY ConstantsAssumption DEF TypeOK
  <2> QED
    BY <1>1, <2>1 DEF TypeOK, MaxFaults
<1>4. TypeOK'
  BY <1>1, <1>2, <1>3 DEF TypeOK, MaxFaults, MaxMoves, MaxOverruns
<1> QED
  BY <1>1, <1>2, <1>3, <1>4, CatchStep

\* A broker adds to the log only what is next, and says ok only of what is there.
LEMMA BrokerHandlesStep ==
    ASSUME ProducerInv, NEW s \in Sends, NEW n \in Nodes, BrokerHandles(s, n)
    PROVE  ProducerInv'
<1> USE DEF ProducerInv
<1> DEFINE errs == {Verdict(s, n, p) : p \in Batch(s, n)} \cap Errors
<1>1. PICK r \in (IF errs = {} THEN {"ok"} ELSE errs) :
         /\ <<s, n>> \in arriving /\ arriving' = arriving \ {<<s, n>>}
         /\ log' = [p \in Partitions |->
                       IF p \in Batch(s, n) /\ Verdict(s, n, p) = "append"
                       THEN log[p] \cup {s} ELSE log[p]]
         /\ reply' = [reply EXCEPT ![s][n] = r]
         /\ UNCHANGED <<pc, msgs, route, sub, stamp, cause, conn, pid, seq, cached, nodeLock,
                        leader, nextPid, scenario, faults, moves, overruns>>
  BY DEF BrokerHandles, sendVars, clientVars, bounds
<1>2. UNCHANGED <<pc, msgs, route, sub, stamp, cause, conn, pid, seq, cached, nodeLock,
                  leader, nextPid, scenario, faults, moves, overruns>>
  BY <1>1
<1>3. /\ NoOverrun' = NoOverrun /\ Steady' = Steady /\ MaxFaults' = MaxFaults
      /\ MaxMoves' = MaxMoves /\ MaxOverruns' = MaxOverruns
  BY <1>2 DEF NoOverrun, Steady, MaxOverruns, MaxMoves, MaxFaults
<1>4. \A t, m : Batch(t, m)' = Batch(t, m)
  BY <1>2, BatchesStay
<1>5. \A t \in Sends, m \in Nodes : \A p \in Batch(t, m) :
         p \in Partitions /\ route[t][p] = m /\ p \in msgs[t]
  BY DEF Batch, TypeOK
<1>6. /\ sub[s][n] \notin {"none", "waiting", "ok"} /\ reply[s][n] = "none"
      /\ \A p \in Batch(s, n) : Placed(s, p)
  BY <1>1, <1>5 DEF SentOnce, Placed
<1>7. \A p \in Partitions :
         /\ (p \in Batch(s, n) /\ Verdict(s, n, p) = "append") => log'[p] = log[p] \cup {s}
         /\ (p \notin Batch(s, n) \/ Verdict(s, n, p) # "append") => log'[p] = log[p]
  BY <1>1
<1>8. \A t \in Sends, m \in Nodes : /\ (t = s /\ m = n) => reply'[t][m] = r
                                    /\ (t # s \/ m # n) => reply'[t][m] = reply[t][m]
  BY <1>1 DEF TypeOK
<1>9. \A t \in Sends, p \in Partitions : Placed(t, p)' => Placed(t, p)
  <2> SUFFICES ASSUME NEW t \in Sends, NEW p \in Partitions, Placed(t, p)'
               PROVE  Placed(t, p)
    OBVIOUS
  <2>1. t \in log'[p] => t \in log[p] \/ Placed(t, p)
    BY <1>6, <1>7
  <2> QED
    BY <1>1, <1>2, <2>1 DEF Placed
<1>10. r \in {"ok"} \cup Errors /\ (r = "ok" => errs = {})
  BY DEF Errors
<1>11. \A t \in Sends, m \in Nodes : InFlight(t, m)' <=> InFlight(t, m)
  BY <1>2 DEF InFlight
<1>12. \A p \in Partitions : log'[p] \subseteq log[p] \cup {s} /\ log[p] \subseteq log'[p]
  BY <1>7
<1>13. Steady => \A p \in Batch(s, n) :
          \/ Verdict(s, n, p) \in {"append", "duplicate"}
          \/ Verdict(s, n, p) = "outOfOrder" /\ Clash(s, p)
  <2> SUFFICES ASSUME Steady, NEW p \in Batch(s, n)
               PROVE  \/ Verdict(s, n, p) \in {"append", "duplicate"}
                      \/ Verdict(s, n, p) = "outOfOrder" /\ Clash(s, p)
    OBVIOUS
  <2>1. leader[p] = n /\ p \in Partitions
    BY <1>5, LeadersRouted DEF Steady
  <2>2. stamp[s][p].pid \in Nat
    BY <2>1 DEF TypeOK
  <2>3. PICK k \in Nat : Gapless(p, stamp[s][p].pid, k)
    BY <2>1, <2>2 DEF NoGaps
  <2> QED
    BY <1>6, <2>1, <2>3, VerdictGapless
<1>14. TypeOK'
  <2>1. arriving' \subseteq Sends \X Nodes /\ log' \in [Partitions -> SUBSET Sends]
    BY <1>1 DEF TypeOK
  <2>2. reply' \in [Sends -> [Nodes -> {"none", "ok"} \cup Errors]]
    BY <1>1, <1>10 DEF TypeOK
  <2> QED
    BY <1>2, <1>3, <2>1, <2>2 DEF TypeOK
<1>15. Grouped'
  BY <1>2 DEF Grouped
<1>16. SentOnce'
  <2>1. \A t \in Sends, m \in Nodes :
           /\ <<t, m>> \in arriving' =>
                 sub[t][m] \notin {"none", "waiting"} /\ reply'[t][m] = "none"
           /\ reply'[t][m] # "none" => sub[t][m] \notin {"none", "waiting"}
           /\ sub[t][m] = "ok" => reply'[t][m] = "ok"
    <3> SUFFICES ASSUME NEW t \in Sends, NEW m \in Nodes
                 PROVE  /\ <<t, m>> \in arriving' =>
                              sub[t][m] \notin {"none", "waiting"} /\ reply'[t][m] = "none"
                        /\ reply'[t][m] # "none" => sub[t][m] \notin {"none", "waiting"}
                        /\ sub[t][m] = "ok" => reply'[t][m] = "ok"
      OBVIOUS
    <3>1. CASE t = s /\ m = n
      BY <1>1, <1>6, <3>1
    <3>2. CASE t # s \/ m # n
      BY <1>1, <1>8, <3>2 DEF SentOnce
    <3> QED
      BY <3>1, <3>2
  <2>2. \A p \in Partitions : \A t \in log'[p] :
           /\ p \in msgs[t] /\ route[t][p] \in Nodes
           /\ sub[t][route[t][p]] \notin {"none", "waiting"}
    <3> SUFFICES ASSUME NEW p \in Partitions, NEW t \in log'[p]
                 PROVE  /\ p \in msgs[t] /\ route[t][p] \in Nodes
                        /\ sub[t][route[t][p]] \notin {"none", "waiting"}
      OBVIOUS
    <3>1. CASE t \in log[p]
      BY <3>1 DEF SentOnce
    <3>2. CASE t \notin log[p]
      <4>1. t = s /\ p \in Batch(s, n)
        BY <1>7, <3>2
      <4> QED
        BY <1>5, <1>6, <4>1
    <3> QED
      BY <3>1, <3>2
  <2> QED
    BY <1>2, <2>1, <2>2 DEF SentOnce
<1>17. AckedNumberLogged'
  <2> SUFFICES ASSUME NEW t \in Sends, NEW m \in Nodes, reply'[t][m] = "ok", NEW p \in Batch(t, m)
               PROVE  \E u \in log'[p] : SameNumbers(t, u, p)
    BY <1>2, <1>4 DEF AckedNumberLogged, SameNumbers, Records
  <2>1. p \in Partitions
    BY <1>5
  <2>2. CASE t # s \/ m # n
    <3>1. PICK u \in log[p] : SameNumbers(t, u, p)
      BY <1>8, <2>2 DEF AckedNumberLogged
    <3> QED
      BY <1>12, <2>1, <3>1
  <2>3. CASE t = s /\ m = n
    <3>1. Verdict(s, n, p) \notin Errors
      <4>1. errs = {}
        BY <1>8, <1>10, <2>3
      <4> QED
        BY <2>3, <4>1
    <3>2. CASE Verdict(s, n, p) = "append"
      BY <1>7, <2>1, <2>3, <3>2 DEF SameNumbers
    <3>3. CASE Verdict(s, n, p) # "append"
      <4>1. PICK u \in log[p] : SameNumbers(s, u, p)
        BY <3>1, <3>3 DEF Verdict, Errors
      <4> QED
        BY <1>12, <2>1, <2>3, <4>1
    <3> QED
      BY <3>2, <3>3
  <2> QED
    BY <2>2, <2>3
<1>18. IdsHandedOut'
  BY <1>2, <1>9 DEF IdsHandedOut
<1>19. SequencesCount'
  BY <1>2, <1>4 DEF SequencesCount
<1>20. NodeLocked'
  BY <1>2, <1>3, <1>11 DEF NodeLocked
<1>21. OkDistinct'
  BY <1>2, <1>3, <1>4 DEF OkDistinct
<1>22. RoutesRight'
  BY <1>2, <1>3 DEF RoutesRight
<1>23. NoGaps'
  <2> SUFFICES ASSUME Steady
               PROVE  NoGaps'
    BY <1>3 DEF NoGaps
  <2>1. ASSUME NEW p \in Partitions, NEW i \in Nat, NEW k \in Nat, Gapless(p, i, k)
        PROVE  Gapless(p, i, k)'
    <3>1. CASE Accepted(p, i)' = Accepted(p, i)
      BY <1>2, <1>9, <2>1, <3>1 DEF Gapless, NextNumber, Records
    <3>2. CASE Accepted(p, i)' # Accepted(p, i)
      <4>1. /\ p \in Batch(s, n) /\ Verdict(s, n, p) = "append" /\ log'[p] = log[p] \cup {s}
            /\ stamp[s][p].pid = i
        <5>1. log'[p] # log[p]
          BY <1>2, <3>2 DEF Accepted
        <5>2. p \in Batch(s, n) /\ Verdict(s, n, p) = "append" /\ log'[p] = log[p] \cup {s}
          BY <1>7, <5>1
        <5>3. ASSUME stamp[s][p].pid # i
              PROVE  FALSE
          <6>1. {u \in log'[p] : stamp'[u][p].pid = i} = {u \in log[p] : stamp[u][p].pid = i}
            BY <1>2, <5>2, <5>3
          <6> QED
            BY <1>2, <3>2, <6>1 DEF Accepted
        <5> QED
          BY <5>2, <5>3
      <4>2. stamp[s][p].seq = k
        <5>1. leader[p] = n
          BY <4>1, LeadersRouted DEF Steady
        <5> QED
          BY <1>6, <2>1, <4>1, <5>1, VerdictGapless
      <4>3. Accepted(p, i)' = Accepted(p, i) \cup {s}
        BY <1>2, <4>1 DEF Accepted
      <4>4. \A t : stamp'[t][p] = stamp[t][p] /\ NextNumber(t, p)' = NextNumber(t, p)
        BY <1>2 DEF NextNumber, Records
      <4>5. \A t \in Sends : Placed(t, p)' => Placed(t, p)
        BY <1>9
      <4> QED
        BY <2>1, <4>2, <4>3, <4>4, <4>5 DEF Gapless
    <3> QED
      BY <3>1, <3>2
  <2>2. \A p \in Partitions : Gapless(p, pid, seq[p])'
    <3> SUFFICES ASSUME NEW p \in Partitions
                 PROVE  Gapless(p, pid, seq[p])'
      OBVIOUS
    <3>1. PICK i \in Nat, k \in Nat : i = pid /\ k = seq[p]
      BY DEF TypeOK
    <3>2. Gapless(p, i, k)
      BY <3>1 DEF NoGaps
    <3>3. Gapless(p, i, k)'
      BY <2>1, <3>2
    <3>4. i = pid' /\ k = seq'[p]
      BY <1>2, <3>1
    <3>5. Accepted(p, pid)' = Accepted(p, i)'
      BY <3>4 DEF Accepted
    <3> QED
      BY <3>3, <3>4, <3>5 DEF Gapless, NextNumber, Records
  <2>3. \A p \in Partitions, i \in Nat : \E k \in Nat : Gapless(p, i, k)'
    BY <2>1 DEF NoGaps
  <2> QED
    BY <2>2, <2>3 DEF NoGaps
<1>24. InFlightIsNext'
  BY <1>2, <1>3, <1>4, <1>5, <1>9, <1>11 DEF InFlightIsNext
<1>25. NoErrors'
  <2> SUFFICES ASSUME Steady, NEW t \in Sends, NEW m \in Nodes, reply'[t][m] \notin {"none", "ok"}
               PROVE  /\ reply'[t][m] = "outOfOrder"
                      /\ \E p \in Batch(t, m) : Clash(t, p)'
    BY <1>3, <1>4 DEF NoErrors
  <2>1. \A p \in Batch(t, m) : Clash(t, p) => Clash(t, p)'
    BY <1>2, <1>5, <1>12 DEF Clash, Records
  <2>2. CASE t = s /\ m = n
    <3>1. r = reply'[s][n] /\ r # "ok"
      BY <1>8, <2>2
    <3>2. PICK p \in Batch(s, n) : r = Verdict(s, n, p) /\ r \in Errors
      BY <1>1, <3>1
    <3>3. r = "outOfOrder" /\ Clash(s, p)
      BY <1>13, <3>2 DEF Errors
    <3> QED
      BY <2>1, <2>2, <3>1, <3>2, <3>3
  <2>3. CASE t # s \/ m # n
    <3>1. reply[t][m] = reply'[t][m]
      BY <1>8, <2>3
    <3> QED
      BY <2>1, <3>1 DEF NoErrors
  <2> QED
    BY <2>2, <2>3
<1>26. NothingFails'
  BY <1>2, <1>3 DEF NothingFails
<1>27. HasRecords' /\ LogDistinct'
  <2>1. HasRecords'
    BY <1>2 DEF HasRecords, Records
  <2>2. LogDistinct'
    <3> SUFFICES ASSUME NEW p \in Partitions, NEW t \in log'[p], NEW u \in log'[p],
                        stamp[t][p] = stamp[u][p], t # u
                 PROVE  FALSE
      BY <1>2 DEF LogDistinct
    <3>1. ~(t \in log[p] /\ u \in log[p])
      BY DEF LogDistinct
    <3>2. Verdict(s, n, p) = "append" /\ t \in log[p] \cup {s} /\ u \in log[p] \cup {s}
      BY <1>7, <3>1
    <3>3. \A x \in log[p] : stamp[x][p] # stamp[s][p]
      BY <3>2, AppendIsNew
    <3> QED
      BY <3>1, <3>2, <3>3
  <2> QED
    BY <2>1, <2>2
<1> QED
  BY <1>14, <1>15, <1>16, <1>17, <1>18, <1>19, <1>20, <1>21, <1>22, <1>23, <1>24, <1>25,
     <1>26, <1>27

\* A leader that moves ends what is promised of the routes and the sequences.
LEMMA MoveLeaderStep ==
    ASSUME ProducerInv, NEW p \in Partitions, NEW n \in Nodes, MoveLeader(p, n)
    PROVE  ProducerInv'
<1> USE DEF ProducerInv
<1>1. /\ leader' = [leader EXCEPT ![p] = n] /\ moves > 0 /\ moves' = moves - 1
      /\ UNCHANGED <<pc, msgs, route, sub, stamp, cause, conn, pid, seq, cached, nodeLock,
                     log, arriving, reply, nextPid, scenario, faults, overruns>>
  BY DEF MoveLeader, sendVars, clientVars
<1>2. /\ NoOverrun' = NoOverrun /\ MaxFaults' = MaxFaults /\ MaxMoves' = MaxMoves
      /\ MaxOverruns' = MaxOverruns
  BY <1>1 DEF NoOverrun, MaxOverruns, MaxMoves, MaxFaults
<1>3. moves' \in 0..MaxMoves' /\ moves' # MaxMoves' /\ ~Steady'
  <2>1. scenario.moves \in Nat
    BY ConstantsAssumption DEF TypeOK
  <2> QED
    BY <1>1, <2>1 DEF TypeOK, MaxMoves, Steady
<1>4. /\ \A t, m : Batch(t, m)' = Batch(t, m)
      /\ \A t, q : Placed(t, q)' <=> Placed(t, q)
  BY <1>1, BatchesStay DEF Placed
<1>5. TypeOK'
  BY <1>1, <1>2, <1>3, <1>4 DEF TypeOK, Stages, SubStages
<1>6. Grouped'
  BY <1>1, <1>2, <1>3, <1>4 DEF Grouped
<1>7. SentOnce'
  BY <1>1, <1>2, <1>3, <1>4 DEF SentOnce
<1>8. AckedNumberLogged'
  BY <1>1, <1>2, <1>3, <1>4 DEF AckedNumberLogged, SameNumbers, Records
<1>9. IdsHandedOut'
  BY <1>1, <1>2, <1>3, <1>4 DEF IdsHandedOut
<1>10. SequencesCount'
  BY <1>1, <1>2, <1>3, <1>4 DEF SequencesCount
<1>11. NodeLocked'
  BY <1>1, <1>2, <1>3, <1>4 DEF NodeLocked, InFlight
<1>12. OkDistinct'
  BY <1>1, <1>2, <1>3, <1>4 DEF OkDistinct
<1>13. RoutesRight'
  BY <1>1, <1>2, <1>3, <1>4 DEF RoutesRight
<1>14. NoGaps'
  BY <1>1, <1>2, <1>3, <1>4, NoGapsStay
<1>15. InFlightIsNext'
  BY <1>1, <1>2, <1>3, <1>4 DEF InFlightIsNext, InFlight
<1>16. NoErrors'
  BY <1>1, <1>2, <1>3, <1>4, NoErrorsStay
<1>17. NothingFails'
  BY <1>1, <1>2, <1>3, <1>4 DEF NothingFails
<1>18. HasRecords' /\ LogDistinct'
  BY <1>1 DEF HasRecords, LogDistinct, Records
<1> QED
  BY <1>5, <1>6, <1>7, <1>8, <1>9, <1>10, <1>11, <1>12, <1>13, <1>14, <1>15, <1>16,
     <1>17, <1>18

\* Nor does a step that changes nothing.
LEMMA StutterStep ==
    ASSUME ProducerInv, UNCHANGED vars
    PROVE  ProducerInv'
<1> USE DEF ProducerInv
<1>1. UNCHANGED <<pc, msgs, route, sub, stamp, cause, conn, pid, seq, cached, nodeLock, leader,
                  log, arriving, reply, nextPid, scenario, faults, moves, overruns>>
  BY DEF vars, sendVars, clientVars, clusterVars, bounds
<1>2. /\ NoOverrun' = NoOverrun /\ Steady' = Steady /\ MaxFaults' = MaxFaults
      /\ MaxMoves' = MaxMoves /\ MaxOverruns' = MaxOverruns
  BY <1>1 DEF NoOverrun, Steady, MaxOverruns, MaxMoves, MaxFaults
<1>3. /\ \A t, m : Batch(t, m)' = Batch(t, m)
      /\ \A t, q : Placed(t, q)' <=> Placed(t, q)
      /\ \A q, i : Accepted(q, i)' = Accepted(q, i)
  BY <1>1, BatchesStay, AcceptedStay DEF Placed
<1>4. TypeOK'
  BY <1>1, <1>2, <1>3 DEF TypeOK, Stages, SubStages
<1>5. Grouped'
  BY <1>1, <1>2, <1>3 DEF Grouped
<1>6. SentOnce'
  BY <1>1, <1>2, <1>3 DEF SentOnce
<1>7. AckedNumberLogged'
  BY <1>1, <1>2, <1>3 DEF AckedNumberLogged, SameNumbers, Records
<1>8. IdsHandedOut'
  BY <1>1, <1>2, <1>3 DEF IdsHandedOut
<1>9. SequencesCount'
  BY <1>1, <1>2, <1>3 DEF SequencesCount
<1>10. NodeLocked'
  BY <1>1, <1>2, <1>3 DEF NodeLocked, InFlight
<1>11. OkDistinct'
  BY <1>1, <1>2, <1>3 DEF OkDistinct
<1>12. RoutesRight'
  BY <1>1, <1>2, <1>3 DEF RoutesRight
<1>13. NoGaps'
  BY <1>1, <1>2, <1>3, NoGapsStay
<1>14. InFlightIsNext'
  BY <1>1, <1>2, <1>3 DEF InFlightIsNext, InFlight
<1>15. NoErrors'
  BY <1>1, <1>2, <1>3, NoErrorsStay
<1>16. NothingFails'
  BY <1>1, <1>2, <1>3 DEF NothingFails
<1>17. HasRecords' /\ LogDistinct'
  BY <1>1 DEF HasRecords, LogDistinct, Records
<1> QED
  BY <1>4, <1>5, <1>6, <1>7, <1>8, <1>9, <1>10, <1>11, <1>12, <1>13, <1>14, <1>15, <1>16, <1>17

-----------------------------------------------------------------------------
(* The theorems.                                                           *)

\* Every step keeps the invariant.
LEMMA InvStep == ProducerInv /\ [Next]_vars => ProducerInv'
<1> SUFFICES ASSUME ProducerInv, [Next]_vars
             PROVE  ProducerInv'
  OBVIOUS
<1>1. ASSUME NEW s \in Sends,
             Call(s) \/ Distribute(s) \/ MetadataFails(s) \/ Recover(s) \/ RecoverFails(s)
      PROVE  ProducerInv'
  BY <1>1, CallStep, DistributeStep, MetadataFailsStep, RecoverStep, RecoverFailsStep
<1>2. ASSUME NEW s \in Sends, NEW n \in Nodes,
             \/ SendRequest(s, n) \/ RequestSucceeds(s, n) \/ ErrorArrives(s, n)
             \/ SequenceOverflows(s, n) \/ RequestFails(s, n) \/ BrokerHandles(s, n)
      PROVE  ProducerInv'
  BY <1>2, SendRequestStep, RequestSucceedsStep, ErrorArrivesStep,
     SequenceOverflowsStep,
     RequestFailsStep, BrokerHandlesStep
<1>3. CASE EnsureConnected \/ Reconnects \/ ProducerIdArrives \/ ConnectFails \/ Close
  BY <1>3, EnsureConnectedStep, ReconnectsStep, ProducerIdArrivesStep, ConnectFailsStep,
     CloseStep
<1>4. CASE \E n \in Nodes : LockTimerFires(n) \/ \E p \in Partitions : MoveLeader(p, n)
  BY <1>4, LockTimerFiresStep, MoveLeaderStep
<1>5. CASE UNCHANGED vars
  BY <1>5, StutterStep
<1> QED
  BY <1>1, <1>2, <1>3, <1>4, <1>5 DEF Next

\* The inductive invariant holds in every state of send() and its brokers.
THEOREM Invariant == Spec => []ProducerInv
  BY InitInv, InvStep, PTL DEF Spec

\* The state of every send, of the shared producer and of the log has its type.
THEOREM TypeCorrect == Spec => []TypeOK
<1>1. ProducerInv => TypeOK
  BY DEF ProducerInv
<1> QED
  BY <1>1, Invariant, PTL

(***************************************************************************)
(* An acknowledged batch that is not in the log lost its numbers to one of *)
(* as many records whose request failed, or that went to another node,     *)
(* unless a lock timer has fired: while requests succeed, leaders stay and *)
(* timers are quiet, what send() acknowledges is in the log, for any       *)
(* number of sends.                                                        *)
(***************************************************************************)
THEOREM LossesExplained == Spec => []LossExplained
<1>1. ASSUME ProducerInv PROVE LossExplained
  <2> USE <1>1 DEF ProducerInv
  <2> SUFFICES ASSUME NEW s \in Sends, NEW p \in Partitions, AckedButMissing(s, p)
               PROVE  \E t \in log[p] \ {s} :
                         /\ SameNumbers(s, t, p)
                         /\ \/ sub[t][route[t][p]] # "ok"
                            \/ route[t][p] # route[s][p]
                            \/ overruns < MaxOverruns
    BY DEF LossExplained
  <2>1. pc[s] = "acked" /\ p \in msgs[s] /\ s \notin log[p]
    BY DEF AckedButMissing
  <2>2. route[s][p] \in Nodes /\ sub[s][route[s][p]] = "ok" /\ p \in Batch(s, route[s][p])
    BY <2>1 DEF Grouped, Batch
  <2>3. reply[s][route[s][p]] = "ok"
    BY <2>2 DEF SentOnce
  <2>4. PICK t \in log[p] : SameNumbers(s, t, p) /\ stamp[t][p] = stamp[s][p]
    BY <2>2, <2>3 DEF AckedNumberLogged, SameNumbers
  <2>5. t \in Sends /\ t # s /\ p \in msgs[t]
    BY <2>1, <2>4 DEF SentOnce, TypeOK
  <2>6. CASE sub[t][route[t][p]] = "ok" /\ route[t][p] = route[s][p]
    <3>1. p \in Batch(s, route[s][p]) \cap Batch(t, route[s][p])
      BY <2>2, <2>5, <2>6 DEF Batch
    <3>2. ~NoOverrun
      BY <2>2, <2>4, <2>5, <2>6, <3>1 DEF OkDistinct
    <3>3. overruns < MaxOverruns
      <4>1. scenario.overruns \in Nat
        BY ConstantsAssumption DEF TypeOK
      <4>2. overruns \in 0..MaxOverruns
        BY DEF TypeOK
      <4> QED
        BY <3>2, <4>1, <4>2 DEF NoOverrun, MaxOverruns
    <3> QED
      BY <2>4, <2>5, <3>3
  <2>7. CASE sub[t][route[t][p]] # "ok" \/ route[t][p] # route[s][p]
    BY <2>4, <2>5, <2>7
  <2> QED
    BY <2>6, <2>7
<1> QED
  BY <1>1, Invariant, PTL

(***************************************************************************)
(* While leaders stay and lock timers are quiet, a request of send() is    *)
(* refused as OUT_OF_ORDER_SEQUENCE_NUMBER only if an earlier batch with   *)
(* another number of records has its base in the log, and the request of   *)
(* that batch failed: lost calls, late broker work and new producer ids    *)
(* leave no gap in the sequence numbers.                                   *)
(***************************************************************************)
THEOREM GapsExplained == Spec => []GapExplained
<1>1. ProducerInv => GapExplained
  <2> SUFFICES ASSUME ProducerInv, NEW s \in Sends, NEW n \in Nodes,
                      sub[s][n] = "sent", reply[s][n] = "outOfOrder"
               PROVE  \/ moves < MaxMoves \/ overruns < MaxOverruns
                      \/ \E p \in Batch(s, n) : \E t \in log[p] :
                            /\ stamp[t][p] = stamp[s][p] /\ Records(t, p) # Records(s, p)
                            /\ sub[t][n] = "failed"
    BY DEF GapExplained
  <2>1. scenario.moves \in Nat /\ scenario.overruns \in Nat
    BY ConstantsAssumption DEF ProducerInv, TypeOK
  <2>2. moves \in 0..MaxMoves /\ overruns \in 0..MaxOverruns
    BY DEF ProducerInv, TypeOK
  <2>3. CASE Steady
    BY <2>3, ClashFailed
  <2>4. CASE ~Steady
    BY <2>1, <2>2, <2>4 DEF Steady, NoOverrun, MaxMoves, MaxOverruns
  <2> QED
    BY <2>3, <2>4
<1> QED
  BY <1>1, Invariant, PTL

(***************************************************************************)
(* Calls of send() that overlap do not make each other fail: one rejects   *)
(* only after a lost call, a leader change, a lock timer or an overflow of *)
(* a sequence number.                                                      *)
(***************************************************************************)
THEOREM RejectionsExplained == Spec => []RejectionExplained
<1>1. ProducerInv => RejectionExplained
  <2> SUFFICES ASSUME ProducerInv, NEW s \in Sends, pc[s] = "rejected"
               PROVE  \/ faults < MaxFaults \/ moves < MaxMoves \/ overruns < MaxOverruns
                      \/ \E t \in Sends : cause[t] = "overflow"
    BY DEF RejectionExplained
  <2>1. ~(Steady /\ faults = MaxFaults) \/ \E t \in Sends : cause[t] = "overflow"
    BY DEF ProducerInv, NothingFails
  <2>2. scenario.faults \in Nat /\ scenario.moves \in Nat /\ scenario.overruns \in Nat
    BY ConstantsAssumption DEF ProducerInv, TypeOK
  <2>3. /\ faults \in 0..MaxFaults /\ moves \in 0..MaxMoves /\ overruns \in 0..MaxOverruns
    BY DEF ProducerInv, TypeOK
  <2> QED
    BY <2>1, <2>2, <2>3 DEF Steady, NoOverrun, MaxFaults, MaxMoves, MaxOverruns
<1> QED
  BY <1>1, Invariant, PTL
=============================================================================
