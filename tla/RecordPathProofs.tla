-------------------------- MODULE RecordPathProofs --------------------------
(***************************************************************************)
(* The path of the records, from send() to the handler of the consumer.    *)
(* Messages without a key are spread evenly.  What the encoders write, the *)
(* decoders return: a record, a batch, a fetch response, a produce         *)
(* request, and the batches of a response that is cut anywhere.  From this *)
(* follows PathInv, the inductive invariant: what the bytes of each log,   *)
(* request and response hold, as the decoder reads them, is what was sent. *)
(* So each record is delivered as it was sent, and none is skipped.        *)
(*                                                                         *)
(* The induction theorems of the library take an operator, so induction    *)
(* here goes over the set of the numbers of which something is true.       *)
(***************************************************************************)
EXTENDS RecordPath, FiniteSetTheorems, SequenceTheorems, WellFoundedInduction, TLAPS

-----------------------------------------------------------------------------
(* Induction and recursion.                                                *)

\* A set of natural numbers has a least one.
LEMMA Least ==
    ASSUME NEW T \in SUBSET Nat, T # {}
    PROVE  \E n \in T : \A k \in T : n <= k
<1> DEFINE R == OpToRel(<, Nat)
<1>1. IsWellFoundedOn(R, Nat)
  BY NatLessThanWellFounded
<1>2. \A x, y \in Nat : x < y => <<x, y>> \in R
  BY DEF OpToRel
<1> HIDE DEF R
<1>3. PICK x \in T : \A y \in T : ~ (<<y, x>> \in R)
  BY <1>1, WFMin
<1>4. ASSUME NEW k \in T PROVE x <= k
  <2>1. ~ (k < x)
    BY <1>2, <1>3
  <2> QED
    BY <2>1
<1> QED
  BY <1>4

\* Induction, over the set of the numbers of which something is true.
LEMMA Induct ==
    ASSUME NEW S, 0 \in S, \A n \in Nat : n \in S => n + 1 \in S
    PROVE  \A n \in Nat : n \in S
<1> SUFFICES ASSUME NEW l \in Nat, l \notin S PROVE FALSE
  OBVIOUS
<1> DEFINE T == {k \in Nat : k \notin S}
<1>1. T # {} /\ T \in SUBSET Nat
  OBVIOUS
<1>2. PICK n \in T : \A k \in T : n <= k
  BY <1>1, Least
<1>3. n \in Nat /\ n # 0 /\ n - 1 \in Nat /\ n = (n - 1) + 1
  BY <1>2
<1>4. n - 1 \in S
  BY <1>2, <1>3
<1> QED
  BY <1>2, <1>3, <1>4

\* f is made of base and of step, which gives every value from the one before it.
Steps(f, n, base, step) ==
    f[0] = base /\ \A i \in 1 .. n : f[i] = step[i][f[i - 1]]

\* Such a function exists.
LEMMA Recursion ==
    ASSUME NEW X, NEW n \in Nat, NEW base \in X, NEW step \in [1 .. n -> [X -> X]]
    PROVE  \E f \in [0 .. n -> X] : Steps(f, n, base, step)
<1> USE DEF Steps
<1> DEFINE Good(f, k) == /\ f \in [0 .. k -> X] /\ f[0] = base
                         /\ \A i \in 1 .. k : f[i] = step[i][f[i - 1]]
           S == {k \in Nat : k <= n => \E f : Good(f, k)}
<1>1. 0 \in S
  <2>1. Good([i \in 0 .. 0 |-> base], 0)
    OBVIOUS
  <2> QED
    BY <2>1
<1>2. ASSUME NEW k \in Nat, k \in S PROVE k + 1 \in S
  <2> SUFFICES ASSUME k + 1 <= n PROVE \E f : Good(f, k + 1)
    OBVIOUS
  <2>1. PICK f : Good(f, k)
    BY <1>2
  <2> DEFINE g == [i \in 0 .. k + 1 |-> IF i = k + 1 THEN step[k + 1][f[k]] ELSE f[i]]
  <2>2. step[k + 1] \in [X -> X] /\ f[k] \in X
    BY <2>1
  <2>3. g \in [0 .. k + 1 -> X]
    BY <2>1, <2>2
  <2>4. ASSUME NEW i \in 1 .. k + 1 PROVE g[i] = step[i][g[i - 1]]
    <3>1. CASE i = k + 1
      BY <3>1
    <3>2. CASE i \in 1 .. k
      <4>1. i # k + 1 /\ i - 1 # k + 1 /\ i \in 0 .. k + 1 /\ i - 1 \in 0 .. k + 1
        BY <3>2
      <4>2. g[i] = f[i] /\ g[i - 1] = f[i - 1]
        BY <4>1
      <4> QED
        BY <2>1, <3>2, <4>2
    <3> QED
      BY <3>1, <3>2
  <2>5. Good(g, k + 1)
    BY <2>1, <2>3, <2>4
  <2> QED
    BY <2>5
<1> HIDE DEF S
<1>3. n \in S
  BY <1>1, <1>2, Induct
<1> QED
  BY <1>3 DEF S
\* f is made so as long as its values are of the kind that step is for ...
Made(f, X, n, base, step) ==
    /\ f = [i \in 0 .. n |-> f[i]] /\ f[0] = base
    /\ \A i \in 1 .. n : f[i - 1] \in X => f[i] = step[i][f[i - 1]]

\* ... which they are.
LEMMA StepsTyped ==
    ASSUME NEW X, NEW n \in Nat, NEW base \in X, NEW step \in [1 .. n -> [X -> X]],
           NEW f, Made(f, X, n, base, step)
    PROVE  f \in [0 .. n -> X] /\ Steps(f, n, base, step)
<1> USE DEF Made
<1> DEFINE S == {k \in Nat : k <= n => f[k] \in X}
<1>1. 0 \in S
  OBVIOUS
<1>2. ASSUME NEW k \in Nat, k \in S PROVE k + 1 \in S
  <2> SUFFICES ASSUME k + 1 <= n PROVE f[k + 1] \in X
    OBVIOUS
  <2>1. k + 1 \in 1 .. n /\ f[(k + 1) - 1] \in X /\ (k + 1) - 1 = k
    BY <1>2
  <2>2. f[k + 1] = step[k + 1][f[k]]
    BY <2>1
  <2>3. step[k + 1] \in [X -> X]
    BY <2>1
  <2> QED
    BY <2>1, <2>2, <2>3
<1>3. \A k \in Nat : k \in S
  <2> HIDE DEF S
  <2> QED
    BY <1>1, <1>2, Induct
<1>4. \A k \in 0 .. n : f[k] \in X
  BY <1>3
<1>5. \A i \in 1 .. n : f[i - 1] \in X
  BY <1>4
<1> QED
  BY <1>4, <1>5 DEF Steps

-----------------------------------------------------------------------------
(* Division.                                                               *)

\* The quotient and the remainder are the only numbers that are made so.
LEMMA Division ==
    ASSUME NEW a \in Nat, NEW n \in Nat \ {0}
    PROVE  /\ a \div n \in Nat /\ a % n \in 0 .. n - 1 /\ a = n * (a \div n) + (a % n)
           /\ \A q \in Int, r \in 0 .. n - 1 : a = n * q + r => q = a \div n /\ r = a % n
<1>1. a \div n \in Nat /\ a % n \in 0 .. n - 1 /\ a = n * (a \div n) + (a % n)
  OBVIOUS
<1>2. ASSUME NEW q \in Int, NEW r \in 0 .. n - 1, a = n * q + r
      PROVE  q = a \div n /\ r = a % n
  <2> DEFINE d == a \div n
             e == a % n
  <2>1. d \in Int /\ e \in 0 .. n - 1 /\ n * q + r = n * d + e
    BY <1>1, <1>2
  <2> HIDE DEF d, e
  <2>2. ASSUME NEW x \in Int, NEW y \in Int, x < y PROVE n * x + n <= n * y
    <3>1. x + 1 <= y
      BY <2>2
    <3>2. n * (x + 1) <= n * y
      BY <3>1
    <3>3. n * (x + 1) = n * x + n
      OBVIOUS
    <3> QED
      BY <3>2, <3>3
  <2>3. ~ (q < d) /\ ~ (d < q)
    <3> DEFINE u == n * q
               v == n * d
    <3>1. u \in Int /\ v \in Int /\ u + r = v + e
      BY <2>1
    <3>2. q < d => u + n <= v
      BY <2>1, <2>2
    <3>3. d < q => v + n <= u
      BY <2>1, <2>2
    <3> HIDE DEF u, v
    <3> QED
      BY <2>1, <3>1, <3>2, <3>3
  <2>4. q = d
    BY <2>1, <2>3
  <2>5. r = e
    BY <2>1, <2>4
  <2> QED
    BY <2>4, <2>5 DEF d, e
<1> QED
  BY <1>1, <1>2

\* What the next number has.
LEMMA NextDivision ==
    ASSUME NEW a \in Nat, NEW n \in Nat \ {0}
    PROVE  \/ /\ (a % n) + 1 < n
              /\ (a + 1) \div n = a \div n /\ (a + 1) % n = (a % n) + 1
           \/ /\ (a % n) + 1 = n
              /\ (a + 1) \div n = (a \div n) + 1 /\ (a + 1) % n = 0
<1> DEFINE d == a \div n
           e == a % n
<1>1. d \in Nat /\ e \in 0 .. n - 1 /\ a = n * d + e
  BY Division
<1>2. \A q \in Int, r \in 0 .. n - 1 :
         a + 1 = n * q + r => q = (a + 1) \div n /\ r = (a + 1) % n
  <2>1. a + 1 \in Nat
    OBVIOUS
  <2> QED
    BY <2>1, Division
<1> HIDE DEF d, e
<1>3. CASE e + 1 < n
  <2>1. e + 1 \in 0 .. n - 1 /\ a + 1 = n * d + (e + 1)
    BY <1>1, <1>3
  <2>2. d = (a + 1) \div n /\ e + 1 = (a + 1) % n
    BY <1>1, <1>2, <2>1
  <2> QED
    BY <1>3, <2>2 DEF d, e
<1>4. CASE e + 1 = n
  <2>1. n * (d + 1) = n * d + n
    BY <1>1
  <2>2. 0 \in 0 .. n - 1 /\ d + 1 \in Int /\ a + 1 = n * (d + 1) + 0
    BY <1>1, <1>4, <2>1
  <2>3. d + 1 = (a + 1) \div n /\ 0 = (a + 1) % n
    BY <1>2, <2>2
  <2> QED
    BY <1>4, <2>3 DEF d, e
<1> QED
  BY <1>1, <1>3, <1>4

-----------------------------------------------------------------------------
(* The partitions of messages without a key.                               *)

\* The partitions before the next one have one message more than the others.
Ahead(p, c) == IF p < Wrapped(c) % NumPartitions THEN 1 ELSE 0

(***************************************************************************)
(* What partitions got, got, up to a counter c, differs by one for every   *)
(* time the counter wrapped around, and by where c is in its round: this   *)
(* is what one more message preserves, and KeylessSpread is not.           *)
(***************************************************************************)
Balanced(c, got) ==
    \A p, q \in Partitions :
        got[p] - got[q] <= (c \div PositiveRange) + Ahead(p, c) - Ahead(q, c)

\* The partition that the counter is at gets the next message.
LEMMA BalancedNext ==
    ASSUME NEW c \in Nat, NEW got \in [Partitions -> Nat], NEW more \in [Partitions -> Nat],
           Balanced(c, got),
           \A p \in Partitions :
               more[p] = got[p] + IF p = Wrapped(c) % NumPartitions THEN 1 ELSE 0
    PROVE  Balanced(c + 1, more)
<1> DEFINE N == NumPartitions
           x == Wrapped(c)
           r == x % N
           s == Wrapped(c + 1) % N
           w == c \div PositiveRange
           z == (c + 1) \div PositiveRange
<1>1. N \in Nat \ {0} /\ PositiveRange \in Nat \ {0}
  BY ScenarioAssumption, RangeAssumption
<1>2. x \in Nat /\ w \in Nat /\ z \in Nat
  <2>1. c % PositiveRange \in 0 .. PositiveRange - 1 /\ c \div PositiveRange \in Nat
    BY <1>1, Division
  <2>2. c + 1 \in Nat
    OBVIOUS
  <2>3. (c + 1) \div PositiveRange \in Nat
    BY <1>1, <2>2, Division
  <2> QED
    BY <1>1, <2>1, <2>3 DEF Wrapped
<1>3. r \in 0 .. N - 1
  BY <1>1, <1>2, Division
<1>4. \/ z = w /\ r + 1 < N /\ s = r + 1
      \/ z = w /\ r + 1 = N /\ s = 0
      \/ z = w + 1 /\ s = 0
  <2>1. \/ z = w /\ Wrapped(c + 1) = x + 1
        \/ z = w + 1 /\ Wrapped(c + 1) = 0
    BY <1>1, NextDivision DEF Wrapped
  <2>2. \/ r + 1 < N /\ (x + 1) % N = r + 1
        \/ r + 1 = N /\ (x + 1) % N = 0
    BY <1>1, <1>2, NextDivision
  <2>3. 0 % N = 0
    BY <1>1
  <2> QED
    BY <2>1, <2>2, <2>3
<1> SUFFICES ASSUME NEW p \in Partitions, NEW q \in Partitions
             PROVE  more[p] - more[q] <= z + Ahead(p, c + 1) - Ahead(q, c + 1)
  BY DEF Balanced
<1>5. p \in 0 .. N - 1 /\ q \in 0 .. N - 1
  BY DEF Partitions
<1>6. /\ Ahead(p, c) = (IF p < r THEN 1 ELSE 0) /\ Ahead(q, c) = (IF q < r THEN 1 ELSE 0)
      /\ Ahead(p, c + 1) = (IF p < s THEN 1 ELSE 0) /\ Ahead(q, c + 1) = (IF q < s THEN 1 ELSE 0)
  BY DEF Ahead
<1>7. got[p] - got[q] <= w + Ahead(p, c) - Ahead(q, c)
  BY DEF Balanced
<1>8. /\ got[p] \in Nat /\ got[q] \in Nat
      /\ more[p] = got[p] + (IF p = r THEN 1 ELSE 0)
      /\ more[q] = got[q] + (IF q = r THEN 1 ELSE 0)
  OBVIOUS
<1> HIDE DEF N, x, r, s, w, z
<1> QED
  BY <1>1, <1>2, <1>3, <1>4, <1>5, <1>6, <1>7, <1>8

-----------------------------------------------------------------------------
(* A send.                                                                 *)

\* The messages of a send, placed one after the other.
LEMMA PartitionedDef ==
    ASSUME NEW messages \in Seq(Message), counter \in Nat
    PROVE  \E C \in [0 .. Len(messages) -> Nat] :
              /\ C[0] = counter
              /\ \A i \in 1 .. Len(messages) :
                    C[i] = IF TakesTurn(messages[i]) THEN C[i - 1] + 1 ELSE C[i - 1]
              /\ DOMAIN Partitioned(messages) = 1 .. Len(messages)
              /\ Partitioned(messages) \in Seq({Partitioned(messages)[i] : i \in 1 .. Len(messages)})
              /\ \A i \in 1 .. Len(messages) :
                    LET e == Partitioned(messages)[i]
                    IN  /\ e.counter = C[i] /\ e.message = messages[i]
                        /\ TakesTurn(messages[i]) =>
                              e.index = Wrapped(C[i - 1]) % NumPartitions
<1> DEFINE n == Len(messages)
           partition(i, before) == Partition(messages[i], before, NumPartitions)
           next(i, c) == IF TakesTurn(messages[i]) THEN c + 1 ELSE c
           step == [i \in 1 .. n |-> [c \in Nat |-> next(i, c)]]
           eq(g) == g = [i \in 0 .. n |-> IF i = 0 THEN counter ELSE partition(i, g[i - 1]).counter]
           counters == CHOOSE g : eq(g)
<1>1. n \in Nat /\ counter \in Nat
  OBVIOUS
<1>2. \A i, c : partition(i, c).counter = next(i, c)
  BY DEF Partition
<1>3. step \in [1 .. n -> [Nat -> Nat]]
  <2> DEFINE X == [Nat -> Nat]
             e(i) == [c \in Nat |-> next(i, c)]
  <2>1. ASSUME NEW i \in 1 .. n PROVE e(i) \in X
    <3>1. \A c \in Nat : next(i, c) \in Nat
      OBVIOUS
    <3> HIDE DEF next
    <3> QED
      BY <3>1
  <2> HIDE DEF X, e
  <2>2. [i \in 1 .. n |-> e(i)] \in [1 .. n -> X]
    BY <2>1
  <2> QED
    BY <2>2 DEF X, e
<1>4. \A i \in 1 .. n, c \in Nat : step[i][c] = next(i, c)
  OBVIOUS
<1>5. PICK f \in [0 .. n -> Nat] : Steps(f, n, counter, step)
  <2> HIDE DEF step, n
  <2> QED
    BY <1>1, <1>3, Recursion
<1>6. eq(f)
  <2> HIDE DEF step, n, partition, next
  <2>1. ASSUME NEW i \in 1 .. n PROVE f[i] = partition(i, f[i - 1]).counter
    <3>1. i - 1 \in 0 .. n
      BY <1>1
    <3> QED
      BY <1>2, <1>4, <1>5, <3>1 DEF Steps
  <2>2. f = [i \in 0 .. n |-> f[i]] /\ f[0] = counter
    BY <1>5 DEF Steps
  <2>3. \A i \in 0 .. n : f[i] = IF i = 0 THEN counter ELSE partition(i, f[i - 1]).counter
    <3>1. ASSUME NEW i \in 0 .. n
          PROVE  f[i] = IF i = 0 THEN counter ELSE partition(i, f[i - 1]).counter
      <4>1. CASE i = 0
        BY <2>2, <4>1
      <4>2. CASE i # 0
        <5>1. i \in 1 .. n
          BY <1>1, <4>2
        <5> QED
          BY <2>1, <4>2, <5>1
      <4> QED
        BY <4>1, <4>2
    <3> QED
      BY <3>1
  <2> QED
    BY <2>2, <2>3
<1>7. eq(counters)
  BY <1>6
<1> HIDE DEF counters
<1>8. /\ counters = [i \in 0 .. n |-> counters[i]] /\ counters[0] = counter
      /\ \A i \in 1 .. n : counters[i] = next(i, counters[i - 1])
  <2> HIDE DEF step, n, partition, next
  <2>1. \A i \in 0 .. n :
           counters[i] = IF i = 0 THEN counter ELSE partition(i, counters[i - 1]).counter
    BY <1>7
  <2>2. counters = [i \in 0 .. n |-> counters[i]]
    <3> DEFINE e(i) == IF i = 0 THEN counter ELSE partition(i, counters[i - 1]).counter
    <3>1. counters = [i \in 0 .. n |-> e(i)]
      BY <1>7
    <3> HIDE DEF e
    <3> QED
      BY <3>1
  <2>3. counters[0] = counter
    BY <1>1, <2>1
  <2>4. ASSUME NEW i \in 1 .. n PROVE counters[i] = next(i, counters[i - 1])
    <3>1. i \in 0 .. n /\ i # 0
      BY <1>1
    <3>2. counters[i] = partition(i, counters[i - 1]).counter
      BY <2>1, <3>1
    <3> QED
      BY <1>2, <3>2
  <2> QED
    BY <2>2, <2>3, <2>4
<1>9. counters \in [0 .. n -> Nat] /\ Steps(counters, n, counter, step)
  <2> HIDE DEF step, n, next
  <2>1. Made(counters, Nat, n, counter, step)
    BY <1>4, <1>8 DEF Made
  <2> QED
    BY <1>1, <1>3, <2>1, StepsTyped
<1> DEFINE placed(i) == [index |-> partition(i, counters[i - 1]).index,
                         counter |-> counters[i], message |-> messages[i]]
<1>10. Partitioned(messages) = [i \in 1 .. n |-> placed(i)]
  BY DEF Partitioned, counters
<1>11. ASSUME NEW i \in 1 .. n, TakesTurn(messages[i])
       PROVE  partition(i, counters[i - 1]).index = Wrapped(counters[i - 1]) % NumPartitions
  BY <1>11 DEF Partition, TakesTurn
<1>12. ASSUME NEW i \in 1 .. n
       PROVE  /\ Partitioned(messages)[i].counter = counters[i]
              /\ Partitioned(messages)[i].message = messages[i]
              /\ Partitioned(messages)[i].index = partition(i, counters[i - 1]).index
  <2> HIDE DEF partition
  <2> QED
    BY <1>10
<1>13. /\ DOMAIN Partitioned(messages) = 1 .. n
       /\ Partitioned(messages) \in Seq({Partitioned(messages)[i] : i \in 1 .. n})
  <2> HIDE DEF placed, n
  <2>1. DOMAIN Partitioned(messages) = 1 .. n
    BY <1>10
  <2> DEFINE P == Partitioned(messages)
             X == {P[i] : i \in 1 .. n}
  <2>2. P = [i \in 1 .. n |-> P[i]]
    BY <1>10
  <2>3. \A i \in 1 .. n : P[i] \in X
    OBVIOUS
  <2> HIDE DEF P, X
  <2>4. P \in [1 .. n -> X]
    BY <2>2, <2>3
  <2>5. P \in Seq(X)
    BY <1>1, <2>4
  <2> QED
    BY <2>1, <2>5 DEF P, X
<1> HIDE DEF partition
<1>14. counters \in [0 .. Len(messages) -> Nat]
  BY <1>9
<1> USE <1>14
<1> WITNESS counters \in [0 .. Len(messages) -> Nat]
<1>15. \A i \in 1 .. n : TakesTurn(messages[i]) =>
          Partitioned(messages)[i].index = Wrapped(counters[i - 1]) % NumPartitions
  BY <1>11, <1>12
<1> QED
  BY <1>8, <1>12, <1>13, <1>15

\* The partitions stay balanced over all messages of a send.
LEMMA BalancedSend ==
    ASSUME NEW messages \in Seq(Message), messages # <<>>, counter \in Nat,
           turns \in [Partitions -> Nat], Balanced(counter, turns),
           emptyKeyed \in [Partitions -> Nat], Requested(Partitioned(messages))
    PROVE  /\ counter' \in Nat /\ turns' \in [Partitions -> Nat] /\ Balanced(counter', turns')
           /\ emptyKeyed' \in [Partitions -> Nat]
<1> DEFINE n == Len(messages)
           P == Partitioned(messages)
           of(p, k) == {i \in 1 .. k : P[i].index = p /\ TakesTurn(P[i].message)}
           got(k) == [p \in Partitions |-> turns[p] + Cardinality(of(p, k))]
<1>1. n \in Nat /\ n > 0
  OBVIOUS
<1>2. PICK C \in [0 .. n -> Nat] :
         /\ C[0] = counter
         /\ \A i \in 1 .. n : C[i] = IF TakesTurn(messages[i]) THEN C[i - 1] + 1 ELSE C[i - 1]
         /\ DOMAIN P = 1 .. n
         /\ P \in Seq({P[i] : i \in 1 .. n})
         /\ \A i \in 1 .. n :
               /\ P[i].counter = C[i] /\ P[i].message = messages[i]
               /\ TakesTurn(messages[i]) => P[i].index = Wrapped(C[i - 1]) % NumPartitions
  BY PartitionedDef
<1> HIDE DEF P, n
<1>3. \A k \in Nat, p \in Partitions : IsFiniteSet(of(p, k)) /\ Cardinality(of(p, k)) \in Nat
  <2> SUFFICES ASSUME NEW k \in Nat, NEW p \in Partitions
               PROVE  IsFiniteSet(of(p, k)) /\ Cardinality(of(p, k)) \in Nat
    OBVIOUS
  <2>1. IsFiniteSet(1 .. k)
    BY FS_Interval
  <2>2. IsFiniteSet(of(p, k))
    BY <2>1, FS_Subset
  <2> QED
    BY <2>2, FS_CardinalityType
<1>4. \A k \in Nat : got(k) \in [Partitions -> Nat]
  <2> SUFFICES ASSUME NEW k \in Nat PROVE got(k) \in [Partitions -> Nat]
    OBVIOUS
  <2> DEFINE e(p) == turns[p] + Cardinality(of(p, k))
  <2>1. ASSUME NEW p \in Partitions PROVE e(p) \in Nat
    <3>1. Cardinality(of(p, k)) \in Nat /\ turns[p] \in Nat
      BY <1>3
    <3> HIDE DEF of
    <3> QED
      BY <3>1
  <2> HIDE DEF e
  <2>2. [p \in Partitions |-> e(p)] \in [Partitions -> Nat]
    BY <2>1
  <2> QED
    BY <2>2 DEF e
<1> DEFINE S == {k \in Nat : k <= n => Balanced(C[k], got(k))}
<1>5. 0 \in S
  <2>1. \A p \in Partitions : of(p, 0) = {}
    BY <1>1
  <2>2. \A p \in Partitions : Cardinality(of(p, 0)) = 0
    BY <2>1, FS_EmptySet
  <2>3. \A p \in Partitions : got(0)[p] = turns[p]
    <3> HIDE DEF of
    <3> QED
      BY <2>2
  <2> HIDE DEF got
  <2>4. Balanced(C[0], got(0))
    BY <1>2, <2>3 DEF Balanced
  <2> QED
    BY <2>4
<1>6. ASSUME NEW k \in Nat, k \in S PROVE k + 1 \in S
  <2> SUFFICES ASSUME k + 1 <= n PROVE Balanced(C[k + 1], got(k + 1))
    OBVIOUS
  <2>1. /\ k + 1 \in 1 .. n /\ (k + 1) - 1 = k /\ k \in 0 .. n
        /\ C[k] \in Nat /\ Balanced(C[k], got(k)) /\ k + 1 \in Nat
    BY <1>1, <1>2, <1>6
  <2>2. CASE ~ TakesTurn(messages[k + 1])
    <3>1. C[k + 1] = C[k]
      BY <1>2, <2>1, <2>2
    <3>2. \A p \in Partitions : of(p, k + 1) = of(p, k)
      <4>1. ~ TakesTurn(P[k + 1].message)
        BY <1>2, <2>1, <2>2
      <4> QED
        BY <2>1, <4>1
    <3>3. got(k + 1) = got(k)
      <4> HIDE DEF of
      <4> QED
        BY <3>2
    <3> QED
      BY <2>1, <3>1, <3>3
  <2>3. CASE TakesTurn(messages[k + 1])
    <3> DEFINE r == Wrapped(C[k]) % NumPartitions
    <3>1. C[k + 1] = C[k] + 1
      BY <1>2, <2>1, <2>3
    <3>2. P[k + 1].index = r /\ TakesTurn(P[k + 1].message)
      BY <1>2, <2>1, <2>3
    <3> HIDE DEF r
    <3>3. ASSUME NEW p \in Partitions, p # r PROVE of(p, k + 1) = of(p, k)
      BY <2>1, <3>2, <3>3
    <3>4. ASSUME NEW p \in Partitions, p = r
          PROVE  of(p, k + 1) = of(p, k) \cup {k + 1} /\ k + 1 \notin of(p, k)
      BY <2>1, <3>2, <3>4
    <3>5. ASSUME NEW p \in Partitions
          PROVE  Cardinality(of(p, k + 1))
                    = Cardinality(of(p, k)) + IF p = r THEN 1 ELSE 0
      <4>1. CASE p # r
        <5>1. Cardinality(of(p, k)) \in Nat
          BY <1>3
        <5> HIDE DEF of
        <5> QED
          BY <3>3, <4>1, <5>1
      <4>2. CASE p = r
        <5>1. IsFiniteSet(of(p, k))
          BY <1>3
        <5> HIDE DEF of
        <5> QED
          BY <3>4, <4>2, <5>1, FS_AddElement
      <4> QED
        BY <4>1, <4>2
    <3>6. \A p \in Partitions : got(k + 1)[p] = got(k)[p] + IF p = r THEN 1 ELSE 0
      <4> DEFINE before(p) == Cardinality(of(p, k))
                 after(p) == Cardinality(of(p, k + 1))
      <4>1. \A p \in Partitions : /\ before(p) \in Nat /\ turns[p] \in Nat
                                  /\ after(p) = before(p) + IF p = r THEN 1 ELSE 0
        BY <1>3, <3>5
      <4>2. \A p \in Partitions : got(k + 1)[p] = turns[p] + after(p)
                                  /\ got(k)[p] = turns[p] + before(p)
        OBVIOUS
      <4> HIDE DEF before, after, got, of
      <4> QED
        BY <4>1, <4>2
    <3>7. got(k) \in [Partitions -> Nat] /\ got(k + 1) \in [Partitions -> Nat]
      BY <1>4, <2>1
    <3> HIDE DEF got, of
    <3> QED
      BY <2>1, <3>1, <3>6, <3>7, BalancedNext DEF r
  <2> QED
    BY <2>2, <2>3
<1>7. Balanced(C[n], got(n))
  <2> HIDE DEF S
  <2>1. \A k \in Nat : k \in S
    BY <1>5, <1>6, Induct
  <2> HIDE DEF got
  <2> QED
    BY <1>1, <2>1 DEF S
<1>8. counter' = C[n]
  <2>1. counter' = P[Len(P)].counter
    BY DEF Requested, Last, P
  <2> HIDE DEF got, of, S
  <2>2. Len(P) = n /\ n \in 1 .. n
    BY <1>1, <1>2
  <2>3. \A i \in 1 .. n : P[i].counter = C[i]
    BY <1>2
  <2> QED
    BY <2>1, <2>2, <2>3
<1>9. turns' = got(n)
  <2>1. turns' = [p \in Partitions |-> turns[p] + Cardinality({i \in DOMAIN P :
                                             P[i].index = p /\ TakesTurn(P[i].message)})]
    BY DEF Requested, DealtTo, P
  <2> QED
    BY <1>2, <2>1
<1>10. C[n] \in Nat
  BY <1>1, <1>2
<1>11. emptyKeyed' \in [Partitions -> Nat]
  <2> DEFINE more(p) == {i \in DealtTo(p, P) : P[i].message.key = <<>>}
  <2>1. ASSUME NEW p \in Partitions PROVE emptyKeyed[p] + Cardinality(more(p)) \in Nat
    <3>1. DealtTo(p, P) = of(p, n)
      BY <1>2 DEF DealtTo
    <3>2. IsFiniteSet(DealtTo(p, P))
      BY <1>1, <1>3, <3>1
    <3>3. more(p) \subseteq DealtTo(p, P)
      OBVIOUS
    <3> HIDE DEF more
    <3>4. Cardinality(more(p)) \in Nat
      BY <3>2, <3>3, FS_Subset, FS_CardinalityType
    <3> QED
      BY <3>4
  <2>2. emptyKeyed' = [p \in Partitions |-> emptyKeyed[p] + Cardinality(more(p))]
    BY DEF Requested, P
  <2> HIDE DEF more
  <2> QED
    BY <2>1, <2>2
<1> QED
  BY <1>1, <1>4, <1>7, <1>8, <1>9, <1>10, <1>11

-----------------------------------------------------------------------------
(* The specification.                                                      *)

\* The balance, and what it is about.
SpreadInv ==
    /\ scenario \in Scenarios
    /\ sent \in 0 .. Len(scenario.sends)
    /\ counter \in Nat
    /\ turns \in [Partitions -> Nat] /\ emptyKeyed \in [Partitions -> Nat]
    /\ Balanced(counter, turns)

\* Nothing is sent: all counts are 0.
LEMMA SpreadInit == Init => SpreadInv
<1> SUFFICES ASSUME Init PROVE SpreadInv
  OBVIOUS
<1> USE DEF Init
<1>1. /\ scenario \in Scenarios /\ sent = 0 /\ counter = 0
      /\ turns = [p \in Partitions |-> 0] /\ emptyKeyed = [p \in Partitions |-> 0]
  OBVIOUS
<1>2. Len(scenario.sends) \in Nat
  BY <1>1, ScenarioAssumption
<1>3. Balanced(counter, turns)
  <2>1. NumPartitions \in Nat \ {0} /\ PositiveRange \in Nat \ {0}
    BY ScenarioAssumption, RangeAssumption
  <2>2. 0 \div PositiveRange = 0 /\ 0 % PositiveRange = 0 /\ 0 % NumPartitions = 0
    <3>1. 0 \in Nat /\ \A n \in Nat \ {0} : 0 \in 0 .. n - 1 /\ 0 = n * 0 + 0
      OBVIOUS
    <3> QED
      BY <2>1, <3>1, Division
  <2>3. \A p \in Partitions : Ahead(p, 0) = 0
    BY <2>1, <2>2 DEF Ahead, Wrapped, Partitions
  <2> QED
    BY <1>1, <2>2, <2>3 DEF Balanced
<1>4. sent \in 0 .. Len(scenario.sends)
  BY <1>1, <1>2
<1>5. turns \in [Partitions -> Nat] /\ emptyKeyed \in [Partitions -> Nat]
  BY <1>1
<1>6. counter \in Nat
  BY <1>1
<1> HIDE DEF Init
<1> QED
  BY <1>1, <1>3, <1>4, <1>5, <1>6 DEF SpreadInv

\* Only Send counts messages.
LEMMA SpreadNext == SpreadInv /\ [Next]_vars => SpreadInv'
<1> SUFFICES ASSUME SpreadInv, [Next]_vars PROVE SpreadInv'
  OBVIOUS
<1>1. CASE Send
  <2> DEFINE messages == scenario.sends[sent + 1]
  <2>1. /\ scenario' = scenario /\ sent' = sent + 1 /\ sent < Len(scenario.sends)
        /\ Requested(Partitioned(messages))
    BY <1>1 DEF Send
  <2>2. /\ scenario.sends \in Seq(Seq(Message) \ {<<>>}) /\ sent \in Nat
        /\ sent + 1 \in 1 .. Len(scenario.sends)
    BY <2>1, ScenarioAssumption DEF SpreadInv
  <2>3. messages \in Seq(Message) /\ messages # <<>>
    BY <2>2
  <2>4. /\ counter \in Nat /\ turns \in [Partitions -> Nat] /\ Balanced(counter, turns)
        /\ emptyKeyed \in [Partitions -> Nat]
    BY DEF SpreadInv
  <2> HIDE DEF messages
  <2>5. /\ counter' \in Nat /\ turns' \in [Partitions -> Nat] /\ Balanced(counter', turns')
        /\ emptyKeyed' \in [Partitions -> Nat]
    BY <2>1, <2>3, <2>4, BalancedSend
  <2> QED
    BY <2>1, <2>2, <2>5 DEF SpreadInv, Balanced
<1>2. CASE UNCHANGED <<scenario, sent, counter, dealtVars>>
  BY <1>2 DEF SpreadInv, Balanced, Ahead, dealtVars
<1>3. CASE Next /\ ~ Send
  <2>1. UNCHANGED <<scenario, sent, counter, dealtVars>>
    <3> USE DEF producerVars, historyVars
    <3>1. CASE Produced \/ ForeignBatch
      BY <3>1 DEF Produced, ForeignBatch
    <3>2. ASSUME NEW p, NEW i, TakeRecords(p, i) \/ TakeBatch(p, i)
          PROVE  UNCHANGED <<scenario, sent, counter, dealtVars>>
      BY <3>2 DEF TakeRecords, TakeBatch, CleanedEntry
    <3>3. CASE Fetch \/ Process
      BY <3>3 DEF Fetch, Process
    <3> QED
      BY <1>3, <3>1, <3>2, <3>3 DEF Next
  <2> QED
    BY <1>2, <2>1
<1>4. CASE UNCHANGED vars
  BY <1>2, <1>4 DEF vars, producerVars, historyVars
<1> QED
  BY <1>1, <1>3, <1>4

(***************************************************************************)
(* Messages without a key are spread evenly over any number of partitions, *)
(* whatever lies between them and however they are put into sends          *)
(* (partitioner.ts:12), but for the turns that messages with an empty key  *)
(* take and the one that is lost when the counter wraps around.            *)
(***************************************************************************)
THEOREM KeylessSpreadsEvenly == Spec => []KeylessSpread
<1>1. SpreadInv => KeylessSpread
  <2> SUFFICES ASSUME SpreadInv, NEW p \in Partitions, NEW q \in Partitions
               PROVE  (turns[p] - emptyKeyed[p]) - (turns[q] - emptyKeyed[q])
                          <= 1 + emptyKeyed[q] + counter \div PositiveRange
    BY DEF KeylessSpread
  <2>1. turns[p] - turns[q]
           <= (counter \div PositiveRange) + Ahead(p, counter) - Ahead(q, counter)
    BY DEF SpreadInv, Balanced
  <2>2. /\ Ahead(p, counter) \in {0, 1} /\ Ahead(q, counter) \in {0, 1}
        /\ counter \div PositiveRange \in Nat
        /\ turns[p] \in Nat /\ turns[q] \in Nat
        /\ emptyKeyed[p] \in Nat /\ emptyKeyed[q] \in Nat
    BY RangeAssumption, Division DEF SpreadInv, Ahead
  <2> QED
    BY <2>1, <2>2
<1> QED
  BY <1>1, SpreadInit, SpreadNext, PTL DEF Spec

-----------------------------------------------------------------------------
(* Bytes in a buffer.                                                      *)

\* The bytes w stand in the buffer b at the offset o.
Stands(w, b, o) ==
    /\ o + Len(w) <= Len(b)
    /\ \A i \in 1 .. Len(w) : b[o + i] = w[i]

\* What stands somewhere stands there in parts.
LEMMA StandsApart ==
    ASSUME NEW S, NEW v \in Seq(S), NEW w \in Seq(S), NEW b \in Seq(S), NEW o \in Nat,
           Stands(v \o w, b, o)
    PROVE  Stands(v, b, o) /\ Stands(w, b, o + Len(v))
<1>1. Len(v) \in Nat /\ Len(w) \in Nat /\ Len(v \o w) = Len(v) + Len(w)
  OBVIOUS
<1>2. \A i \in 1 .. Len(v) : (v \o w)[i] = v[i]
  OBVIOUS
<1>3. \A i \in 1 .. Len(w) : (v \o w)[Len(v) + i] = w[i]
  OBVIOUS
<1>4. ASSUME NEW i \in 1 .. Len(v) PROVE b[o + i] = v[i]
  BY <1>1, <1>2 DEF Stands
<1>5. ASSUME NEW i \in 1 .. Len(w) PROVE b[o + Len(v) + i] = w[i]
  <2>1. Len(v) + i \in 1 .. Len(v \o w) /\ o + (Len(v) + i) = o + Len(v) + i
    BY <1>1
  <2>2. b[o + (Len(v) + i)] = (v \o w)[Len(v) + i]
    BY <2>1 DEF Stands
  <2> QED
    BY <1>3, <2>1, <2>2
<1> QED
  BY <1>1, <1>4, <1>5 DEF Stands

\* One byte that stands somewhere.
LEMMA StandsByte ==
    ASSUME NEW x, NEW b, NEW o \in Nat, Stands(<<x>>, b, o)
    PROVE  o + 1 <= Len(b) /\ b[o + 1] = x
<1>1. Len(<<x>>) = 1 /\ <<x>>[1] = x
  OBVIOUS
<1>2. \A i \in 1 .. 1 : b[o + i] = <<x>>[i]
  BY <1>1 DEF Stands
<1>3. o + 1 <= Len(b)
  BY <1>1 DEF Stands
<1> QED
  BY <1>1, <1>2, <1>3

\* A function over 1 .. n is a sequence.
LEMMA FunctionIsSeq ==
    ASSUME NEW X, NEW n \in Nat
    PROVE  \A f \in [1 .. n -> X] : f \in Seq(X) /\ Len(f) = n
  OBVIOUS

\* Bytes are numbers that are not negative.
LEMMA ByteIsNat == Byte \subseteq Nat
  BY DEF Byte

-----------------------------------------------------------------------------
(* Integers.                                                               *)

\* The bytes of a number are its digits to the base 256.
Written(A, v, n) ==
    /\ A = Above(v, n) /\ A \in [0 .. n - 1 -> Int] /\ A[0] = v
    /\ \A i \in 1 .. n - 1 : A[i] = A[i - 1] \div 256
    /\ BigEndian(v, n) = [i \in 1 .. n |-> A[n - i] % 256]

\* What the recursion of BigEndian returns.
LEMMA BigEndianDef ==
    ASSUME NEW v \in Int, NEW n \in Nat, n > 0
    PROVE  \E A : Written(A, v, n)
<1> DEFINE step == [i \in 1 .. n - 1 |-> [x \in Int |-> x \div 256]]
           eq(g) == g = [i \in 0 .. n - 1 |-> IF i = 0 THEN v ELSE g[i - 1] \div 256]
           above == CHOOSE g : eq(g)
<1>1. n - 1 \in Nat /\ step \in [1 .. n - 1 -> [Int -> Int]]
  OBVIOUS
<1>2. PICK f \in [0 .. n - 1 -> Int] :
         f[0] = v /\ \A i \in 1 .. n - 1 : f[i] = step[i][f[i - 1]]
  <2> DEFINE Z == Int
             k == n - 1
  <2>1. v \in Z /\ k \in Nat /\ step \in [1 .. k -> [Z -> Z]]
    BY <1>1
  <2> HIDE DEF step, Z, k
  <2>2. \E f \in [0 .. k -> Z] : Steps(f, k, v, step)
    BY <2>1, Recursion
  <2> QED
    BY <2>2 DEF Z, k, Steps
<1>3. ASSUME NEW i \in 1 .. n - 1 PROVE f[i] = f[i - 1] \div 256
  <2>1. step[i] = [x \in Int |-> x \div 256] /\ i - 1 \in 0 .. n - 1
    OBVIOUS
  <2>2. f[i - 1] \in Int
    BY <1>2, <2>1
  <2>3. f[i] = step[i][f[i - 1]]
    BY <1>2
  <2> QED
    BY <2>1, <2>2, <2>3
<1>4. eq(f)
  BY <1>2, <1>3
<1>5. eq(above)
  <2> HIDE DEF eq
  <2> QED
    BY <1>4
<1>13. above = Above(v, n)
  BY DEF Above
<1> HIDE DEF above
<1>6. \A i \in 0 .. n - 1 : above[i] = IF i = 0 THEN v ELSE above[i - 1] \div 256
  BY <1>5
<1>7. above = [i \in 0 .. n - 1 |-> above[i]] /\ above[0] = v
  BY <1>1, <1>5, <1>6
<1>8. ASSUME NEW i \in 1 .. n - 1 PROVE above[i] = above[i - 1] \div 256
  BY <1>6
<1>9. ASSUME NEW i \in 1 .. n - 1, above[i - 1] \in Int PROVE above[i] = step[i][above[i - 1]]
  BY <1>8, <1>9
<1>10. above \in [0 .. n - 1 -> Int]
  <2> DEFINE Z == Int
             k == n - 1
  <2>1. /\ v \in Z /\ k \in Nat /\ step \in [1 .. k -> [Z -> Z]]
        /\ Made(above, Z, k, v, step)
    BY <1>1, <1>7, <1>9 DEF Made
  <2> HIDE DEF step, Z, k
  <2>2. above \in [0 .. k -> Z]
    BY <2>1, StepsTyped
  <2> QED
    BY <2>2 DEF Z, k
<1>11. BigEndian(v, n) = [i \in 1 .. n |-> above[n - i] % 256]
  BY <1>13 DEF BigEndian
<1>12. Written(above, v, n)
  BY <1>7, <1>8, <1>10, <1>11, <1>13 DEF Written
<1> QED
  BY <1>12

\* A number is read digit by digit, after the sign that the first byte has.
ReadDigits(N, b, o, n) ==
    /\ N \in [0 .. n -> Int] /\ N[0] = IF b[o + 1] >= 128 THEN -1 ELSE 0
    /\ \A i \in 1 .. n : N[i] = 256 * N[i - 1] + b[o + i]
    /\ ReadInt(n, b, o) = [value |-> N[n], at |-> o + n]

\* What the recursion of ReadInt returns.
LEMMA ReadIntDef ==
    ASSUME NEW b \in Seq(Byte), NEW o \in Nat, NEW n \in Nat, n > 0, o + n <= Len(b)
    PROVE  \E N : ReadDigits(N, b, o, n)
<1> DEFINE sign == IF b[o + 1] >= 128 THEN -1 ELSE 0
           step == [i \in 1 .. n |-> [x \in Int |-> 256 * x + b[o + i]]]
           eq(g) == g = [i \in 0 .. n |-> IF i = 0 THEN sign ELSE 256 * g[i - 1] + b[o + i]]
           number == CHOOSE g : eq(g)
<1>1. \A i \in 1 .. n : b[o + i] \in Int
  <2>1. \A i \in 1 .. n : o + i \in 1 .. Len(b)
    OBVIOUS
  <2>2. \A i \in 1 .. Len(b) : b[i] \in Byte
    OBVIOUS
  <2>3. Byte \subseteq Int
    BY DEF Byte
  <2> QED
    BY <2>1, <2>2, <2>3
<1>2. sign \in Int /\ step \in [1 .. n -> [Int -> Int]]
  <2>1. ASSUME NEW i \in 1 .. n PROVE [x \in Int |-> 256 * x + b[o + i]] \in [Int -> Int]
    <3> DEFINE c == b[o + i]
    <3>1. c \in Int
      BY <1>1
    <3> HIDE DEF c
    <3>2. [x \in Int |-> 256 * x + c] \in [Int -> Int]
      BY <3>1
    <3> QED
      BY <3>2 DEF c
  <2>2. step \in [1 .. n -> [Int -> Int]]
    <3> DEFINE e(i) == [x \in Int |-> 256 * x + b[o + i]]
               X == [Int -> Int]
    <3>1. \A i \in 1 .. n : e(i) \in X
      BY <2>1
    <3> HIDE DEF e, X
    <3>2. [i \in 1 .. n |-> e(i)] \in [1 .. n -> X]
      BY <3>1
    <3> QED
      BY <3>2 DEF e, X
  <2>3. sign \in Int
    OBVIOUS
  <2> HIDE DEF step, sign
  <2> QED
    BY <2>2, <2>3
<1>3. PICK f \in [0 .. n -> Int] : Steps(f, n, sign, step)
  <2> DEFINE Z == Int
  <2>1. sign \in Z /\ step \in [1 .. n -> [Z -> Z]]
    BY <1>2
  <2> HIDE DEF step, Z, sign
  <2>2. \E f \in [0 .. n -> Z] : Steps(f, n, sign, step)
    BY <2>1, Recursion
  <2> QED
    BY <2>2 DEF Z
<1>4. ASSUME NEW i \in 1 .. n PROVE f[i] = 256 * f[i - 1] + b[o + i]
  <2>1. i - 1 \in 0 .. n
    OBVIOUS
  <2>3. f[i] = step[i][f[i - 1]]
    <3> HIDE DEF step, sign
    <3> QED
      BY <1>3 DEF Steps
  <2>2. f[i - 1] \in Int
    BY <1>3, <2>1
  <2> QED
    BY <2>1, <2>2, <2>3
<1>5. eq(f)
  <2> HIDE DEF sign
  <2> QED
    BY <1>3, <1>4 DEF Steps
<1>6. eq(number)
  <2> HIDE DEF eq
  <2> QED
    BY <1>5
<1> HIDE DEF number, sign
<1>7. \A i \in 0 .. n : number[i] = IF i = 0 THEN sign ELSE 256 * number[i - 1] + b[o + i]
  BY <1>6
<1>8. number = [i \in 0 .. n |-> number[i]] /\ number[0] = sign
  BY <1>6, <1>7
<1>9. ASSUME NEW i \in 1 .. n PROVE number[i] = 256 * number[i - 1] + b[o + i]
  BY <1>7
<1>10. number \in [0 .. n -> Int]
  <2> DEFINE Z == Int
  <2>1. /\ sign \in Z /\ step \in [1 .. n -> [Z -> Z]]
        /\ Made(number, Z, n, sign, step)
    BY <1>2, <1>8, <1>9 DEF Made
  <2> HIDE DEF step, Z
  <2>2. number \in [0 .. n -> Z]
    BY <2>1, StepsTyped
  <2> QED
    BY <2>2 DEF Z
<1>11. ReadInt(n, b, o) = [value |-> number[n], at |-> o + n]
  BY DEF ReadInt, number, sign
<1>12. ReadDigits(number, b, o, n)
  BY <1>8, <1>9, <1>10, <1>11 DEF sign, ReadDigits
<1> QED
  BY <1>12

\* A signed byte, from its bits.
LEMMA SignOfByte ==
    \A x \in -128 .. 127 : x = 256 * (IF x % 256 >= 128 THEN -1 ELSE 0) + (x % 256)
<1>1. ASSUME NEW x \in Int, x >= 0, x <= 127 PROVE x % 256 = x
  BY <1>1
<1>2. ASSUME NEW x \in Int, x < 0, x >= -128 PROVE x % 256 = x + 256
  BY <1>2
<1> QED
  BY <1>1, <1>2

\* A number is its lower digits and its lowest.
LEMMA Digits ==
    \A x \in Int : x \div 256 \in Int /\ x % 256 \in 0 .. 255 /\ x = 256 * (x \div 256) + (x % 256)
  OBVIOUS

\* A number whose highest digit is one of a signed byte is read as it was written.
Echoes(N, A, n) ==
    /\ N \in [0 .. n -> Int] /\ N[0] = IF A[n - 1] % 256 >= 128 THEN -1 ELSE 0
    /\ \A i \in 1 .. n : N[i] = 256 * N[i - 1] + (A[n - i] % 256)

\* Reading the digits of a number one by one builds up the number.
LEMMA DigitsRead ==
    ASSUME NEW n \in Nat, n > 0, NEW v, NEW A, NEW N, Written(A, v, n), Echoes(N, A, n),
           A[n - 1] \in -128 .. 127
    PROVE  N[n] = v
<1>1. /\ A \in [0 .. n - 1 -> Int] /\ A[0] = v
      /\ \A i \in 1 .. n - 1 : A[i] = A[i - 1] \div 256
      /\ N \in [0 .. n -> Int]
      /\ N[0] = IF A[n - 1] % 256 >= 128 THEN -1 ELSE 0
      /\ \A i \in 1 .. n : N[i] = 256 * N[i - 1] + (A[n - i] % 256)
  BY DEF Written, Echoes
<1> DEFINE S == {k \in Nat : k + 1 <= n => N[k + 1] = A[n - (k + 1)]}
<1>2. 0 \in S
  <2>1. 1 \in 1 .. n /\ 1 - 1 = 0
    OBVIOUS
  <2>2. N[1] = 256 * N[0] + (A[n - 1] % 256)
    <3> DEFINE e(i) == 256 * N[i - 1] + (A[n - i] % 256)
    <3>1. \A i \in 1 .. n : N[i] = e(i)
      BY <1>1
    <3> HIDE DEF e
    <3>2. N[1] = e(1)
      BY <2>1, <3>1
    <3> QED
      BY <2>1, <3>2 DEF e
  <2>3. A[n - 1] = 256 * N[0] + (A[n - 1] % 256)
    <3> DEFINE x == A[n - 1]
    <3>1. x \in -128 .. 127 /\ N[0] = IF x % 256 >= 128 THEN -1 ELSE 0
      BY <1>1
    <3> HIDE DEF x
    <3>2. x = 256 * (IF x % 256 >= 128 THEN -1 ELSE 0) + (x % 256)
      BY <3>1, SignOfByte
    <3>3. x = 256 * N[0] + (x % 256)
      BY <3>1, <3>2
    <3> QED
      BY <3>3 DEF x
  <2> QED
    BY <2>2, <2>3
<1>3. ASSUME NEW k \in Nat, k \in S PROVE k + 1 \in S
  <2> SUFFICES ASSUME k + 2 <= n PROVE N[k + 2] = A[n - (k + 2)]
    OBVIOUS
  <2> DEFINE j == n - (k + 2)
  <2>1. /\ k + 2 \in 1 .. n /\ (k + 2) - 1 = k + 1
        /\ j \in 0 .. n - 1 /\ n - (k + 1) = j + 1 /\ j + 1 \in 1 .. n - 1 /\ (j + 1) - 1 = j
    OBVIOUS
  <2>2. N[k + 1] = A[j + 1]
    BY <1>3, <2>1
  <2>3. N[k + 2] = 256 * N[k + 1] + (A[j] % 256)
    BY <1>1, <2>1
  <2> HIDE DEF j
  <2>4. A[j + 1] = A[j] \div 256 /\ A[j] \in Int
    <3>1. A[j + 1] = A[(j + 1) - 1] \div 256
      BY <1>1, <2>1
    <3> QED
      BY <1>1, <2>1, <3>1
  <2> DEFINE x == A[j]
  <2>5. x \in Int /\ N[k + 2] = 256 * (x \div 256) + (x % 256)
    BY <2>2, <2>3, <2>4
  <2> HIDE DEF x
  <2>6. N[k + 2] = x
    BY <2>5, Digits
  <2> QED
    BY <2>6 DEF j, x
<1>4. n - 1 \in S
  <2> HIDE DEF S
  <2>1. \A k \in Nat : k \in S
    BY <1>2, <1>3, Induct
  <2> QED
    BY <2>1
<1> QED
  BY <1>1, <1>4

\* A number is written in as many bytes as its type has.
LEMMA IntType ==
    ASSUME NEW n \in Nat, n > 0, NEW v \in Int
    PROVE  BigEndian(v, n) \in Seq(Byte) /\ Len(BigEndian(v, n)) = n
<1>1. PICK A : Written(A, v, n)
  BY BigEndianDef
<1> DEFINE w == BigEndian(v, n)
           e(i) == A[n - i] % 256
<1>2. ASSUME NEW i \in 1 .. n PROVE e(i) \in Byte
  <2>1. n - i \in 0 .. n - 1
    OBVIOUS
  <2> DEFINE x == A[n - i]
  <2>2. x \in Int
    BY <1>1, <2>1 DEF Written
  <2> HIDE DEF x
  <2>3. x % 256 \in Byte
    BY <2>2, Digits DEF Byte
  <2> QED
    BY <2>3 DEF x
<1>3. w = [i \in 1 .. n |-> e(i)]
  BY <1>1 DEF Written
<1> HIDE DEF w, e
<1>4. w \in [1 .. n -> Byte]
  BY <1>2, <1>3
<1>5. w \in Seq(Byte) /\ Len(w) = n
  BY <1>4, FunctionIsSeq
<1> QED
  BY <1>5 DEF w

\* writeInt32 writes four bytes.
LEMMA Int32Type == \A v \in Int : Int32(v) \in Seq(Byte) /\ Len(Int32(v)) = 4
<1>1. 4 \in Nat /\ 4 > 0
  OBVIOUS
<1> QED
  BY <1>1, IntType DEF Int32

\* A number is read as it was written when its leading digit has its sign.
LEMMA IntRead ==
    ASSUME NEW n \in Nat, n > 0, NEW v \in Int, NEW b \in Seq(Byte), NEW o \in Nat,
           Stands(BigEndian(v, n), b, o), NEW A, Written(A, v, n), A[n - 1] \in -128 .. 127
    PROVE  ReadInt(n, b, o) = [value |-> v, at |-> o + n]
<1> DEFINE w == BigEndian(v, n)
<1>1. \A i \in 1 .. n : w[i] = A[n - i] % 256
  BY DEF Written
<1>2. Len(w) = n
  BY IntType
<1>3. o + n <= Len(b) /\ \A i \in 1 .. n : b[o + i] = A[n - i] % 256
  <2>1. Stands(w, b, o)
    OBVIOUS
  <2> HIDE DEF w
  <2>2. o + Len(w) <= Len(b) /\ \A i \in 1 .. Len(w) : b[o + i] = w[i]
    BY <2>1 DEF Stands
  <2>3. o + n <= Len(b) /\ \A i \in 1 .. n : b[o + i] = w[i]
    BY <1>2, <2>2
  <2> DEFINE e(i) == A[n - i] % 256
  <2>4. \A i \in 1 .. n : w[i] = e(i)
    BY <1>1
  <2> HIDE DEF e
  <2>5. \A i \in 1 .. n : b[o + i] = e(i)
    BY <2>3, <2>4
  <2> QED
    BY <2>3, <2>5 DEF e
<1> HIDE DEF w
<1>4. PICK N : ReadDigits(N, b, o, n)
  BY <1>3, ReadIntDef
<1>5. Echoes(N, A, n)
  <2>1. /\ N \in [0 .. n -> Int] /\ N[0] = IF b[o + 1] >= 128 THEN -1 ELSE 0
        /\ \A i \in 1 .. n : N[i] = 256 * N[i - 1] + b[o + i]
    BY <1>4 DEF ReadDigits
  <2>2. 1 \in 1 .. n
    OBVIOUS
  <2>3. b[o + 1] = A[n - 1] % 256
    BY <1>3, <2>2
  <2>4. N[0] = IF A[n - 1] % 256 >= 128 THEN -1 ELSE 0
    BY <2>1, <2>3
  <2>5. \A i \in 1 .. n : N[i] = 256 * N[i - 1] + (A[n - i] % 256)
    BY <1>3, <2>1
  <2> QED
    BY <2>1, <2>4, <2>5 DEF Echoes
<1>6. N[n] = v
  BY <1>5, DigitsRead
<1>7. ReadInt(n, b, o) = [value |-> N[n], at |-> o + n]
  BY <1>4 DEF ReadDigits
<1> QED
  BY <1>6, <1>7

\* A number that the encoder can write is read back.
LEMMA FitsRead ==
    ASSUME NEW n \in Nat, n > 0, NEW v \in Int, Fits(v, n), NEW b \in Seq(Byte), NEW o \in Nat,
           Stands(BigEndian(v, n), b, o)
    PROVE  ReadInt(n, b, o) = [value |-> v, at |-> o + n]
<1>1. PICK A : Written(A, v, n)
  BY BigEndianDef
<1>2. A[n - 1] \in -128 .. 127
  BY <1>1 DEF Written, Fits
<1> QED
  BY <1>1, <1>2, IntRead

\* The numbers with a sign below k.
WithSign(k) == -k .. k - 1

\* readInt8 returns what writeInt8 was given.
LEMMA Int8Read ==
    ASSUME NEW v \in WithSign(128), NEW b \in Seq(Byte), NEW o \in Nat, Stands(Int8(v), b, o)
    PROVE  ReadInt(1, b, o) = [value |-> v, at |-> o + 1]
<1>1. v \in Int /\ v \in -128 .. 127 /\ 1 \in Nat /\ 1 > 0 /\ 1 - 1 = 0
  BY DEF WithSign
<1>2. PICK A : Written(A, v, 1)
  BY <1>1, BigEndianDef
<1>3. A[1 - 1] \in -128 .. 127
  BY ZenonT(30), <1>1, <1>2 DEF Written
<1>4. Stands(BigEndian(v, 1), b, o)
  BY DEF Int8
<1> QED
  BY <1>1, <1>2, <1>3, <1>4, IntRead

-----------------------------------------------------------------------------
(* Unsigned numbers of variable length.                                    *)

\* What the recursion of UVarInt returns.
LEMMA UVarIntDef ==
    ASSUME NEW v \in Nat
    PROVE  \E G \in [0 .. v -> Seq(Byte)] :
              /\ \A u \in 0 .. v :
                    G[u] = IF u < 128 THEN <<u>> ELSE <<128 + (u % 128)>> \o G[u \div 128]
              /\ UVarInt(v) = G[v]
<1> DEFINE group(g, u) == IF u < 128 THEN <<u>> ELSE <<128 + (u % 128)>> \o g[u \div 128]
           Good(g, k) == /\ g \in [0 .. k -> Seq(Byte)]
                         /\ \A u \in 0 .. k : g[u] = group(g, u)
           S == {k \in Nat : \E g : Good(g, k)}
           eq(g) == g = [u \in 0 .. v |-> group(g, u)]
           groups == CHOOSE g : eq(g)
<1>1. \A u \in Nat : u >= 128 => /\ u \div 128 \in 0 .. u - 1 /\ 128 + (u % 128) \in Byte
  BY DEF Byte
<1>2. \A u \in Nat : u < 128 => <<u>> \in Seq(Byte)
  BY DEF Byte
<1>3. ASSUME NEW k \in Nat, NEW g \in [0 .. k - 1 -> Seq(Byte)]
      PROVE  group(g, k) \in Seq(Byte)
  <2>1. CASE k < 128
    BY <1>2, <2>1
  <2>2. CASE k >= 128
    <3>1. k \div 128 \in 0 .. k - 1 /\ 128 + (k % 128) \in Byte
      BY <1>1, <2>2
    <3>2. g[k \div 128] \in Seq(Byte)
      BY <3>1
    <3>3. <<128 + (k % 128)>> \in Seq(Byte)
      BY <3>1
    <3>4. <<128 + (k % 128)>> \o g[k \div 128] \in Seq(Byte)
      BY <3>2, <3>3
    <3> QED
      BY <2>2, <3>4
  <2> QED
    BY <2>1, <2>2
<1>4. ASSUME NEW k \in Nat, NEW g, NEW h, \A u \in 0 .. k - 1 : g[u] = h[u]
      PROVE  group(g, k) = group(h, k)
  BY <1>1, <1>4
<1> HIDE DEF group
<1>5. 0 \in S
  <2> DEFINE g == [u \in 0 .. 0 |-> <<0>>]
  <2>1. g \in [0 .. 0 -> Seq(Byte)] /\ \A u \in 0 .. 0 : g[u] = group(g, u)
    BY <1>2 DEF group
  <2> QED
    BY <2>1
<1>6. ASSUME NEW k \in Nat, k \in S PROVE k + 1 \in S
  <2>1. PICK g : Good(g, k)
    BY <1>6
  <2> DEFINE h == [u \in 0 .. k + 1 |-> IF u = k + 1 THEN group(g, u) ELSE g[u]]
  <2>2. g \in [0 .. (k + 1) - 1 -> Seq(Byte)] /\ k + 1 \in Nat /\ (k + 1) - 1 = k
    BY <2>1
  <2>3. group(g, k + 1) \in Seq(Byte)
    BY <1>3, <2>2
  <2>4. h \in [0 .. k + 1 -> Seq(Byte)]
    BY <2>1, <2>3
  <2>5. \A u \in 0 .. k : h[u] = g[u]
    OBVIOUS
  <2>6. h[k + 1] = group(g, k + 1)
    OBVIOUS
  <2> HIDE DEF h
  <2>7. ASSUME NEW u \in 0 .. k + 1 PROVE h[u] = group(h, u)
    <3>1. u \in Nat /\ \A w \in 0 .. u - 1 : h[w] = g[w]
      BY <2>5
    <3>2. group(h, u) = group(g, u)
      BY <1>4, <3>1
    <3>3. CASE u = k + 1
      BY <2>6, <3>2, <3>3
    <3>4. CASE u \in 0 .. k
      BY <2>1, <2>5, <3>2, <3>4
    <3> QED
      BY <3>3, <3>4
  <2> QED
    BY <2>4, <2>7
<1>7. v \in S
  <2> HIDE DEF S
  <2> QED
    BY <1>5, <1>6, Induct
<1>8. PICK f : Good(f, v)
  BY <1>7
<1>9. eq(f)
  BY <1>8
<1>10. eq(groups)
  BY <1>9
<1> HIDE DEF groups
<1>11. \A u \in 0 .. v : groups[u] = group(groups, u)
  BY <1>10
<1>12. \A u \in 0 .. v : groups[u] \in Seq(Byte)
  <2> DEFINE T == {u \in 0 .. v : groups[u] \notin Seq(Byte)}
  <2> SUFFICES ASSUME T # {} PROVE FALSE
    OBVIOUS
  <2>1. T \in SUBSET Nat
    OBVIOUS
  <2>2. PICK n \in T : \A k \in T : n <= k
    BY <2>1, Least
  <2>3. n \in Nat /\ n \in 0 .. v /\ \A w \in 0 .. n - 1 : w \in 0 .. v /\ groups[w] \in Seq(Byte)
    BY <2>2
  <2> DEFINE g == [w \in 0 .. n - 1 |-> groups[w]]
  <2>4. g \in [0 .. n - 1 -> Seq(Byte)]
    BY <2>3
  <2>5. \A w \in 0 .. n - 1 : g[w] = groups[w]
    OBVIOUS
  <2> HIDE DEF g
  <2>6. group(groups, n) = group(g, n) /\ group(g, n) \in Seq(Byte)
    BY <1>3, <1>4, <2>3, <2>4, <2>5
  <2> QED
    BY <1>11, <2>2, <2>3, <2>6
<1>13. groups = [u \in 0 .. v |-> groups[u]]
  BY <1>10, <1>11
<1>14. groups \in [0 .. v -> Seq(Byte)]
  BY <1>12, <1>13
<1>15. UVarInt(v) = groups[v]
  BY DEF UVarInt, groups, group
<1> QED
  BY <1>11, <1>14, <1>15 DEF group

\* The byte at an offset, as the decoder reads it.
ByteAt(b, i) == IF i < Len(b) THEN b[i + 1] ELSE 0

\* What the recursion of ReadUVarInt returns.
LEMMA ReadUVarIntDef ==
    ASSUME NEW b \in Seq(Byte)
    PROVE  \E R \in [Nat -> [value : Nat, at : Nat]] :
              /\ \A i \in Nat :
                    R[i] = IF ByteAt(b, i) < 128 THEN [value |-> ByteAt(b, i), at |-> i + 1]
                           ELSE [value |-> (ByteAt(b, i) % 128) + 128 * R[i + 1].value,
                                 at |-> R[i + 1].at]
              /\ \A o \in Nat : ReadUVarInt(b, o) = R[o]
<1> DEFINE X == [value : Nat, at : Nat]
           n == Len(b)
           read(i, more) == IF ByteAt(b, i) < 128 THEN [value |-> ByteAt(b, i), at |-> i + 1]
                            ELSE [value |-> (ByteAt(b, i) % 128) + 128 * more.value,
                                  at |-> more.at]
           step == [j \in 1 .. n |-> [more \in X |-> read(n - j, more)]]
           base == [value |-> 0, at |-> n + 1]
           eq(g) == g = [i \in Nat |-> read(i, g[i + 1])]
           rest == CHOOSE g : eq(g)
<1>1. n \in Nat /\ base \in X
  OBVIOUS
<1>2. ASSUME NEW i \in Nat PROVE ByteAt(b, i) \in Nat
  <2>1. CASE i < Len(b)
    <3>1. i + 1 \in 1 .. Len(b)
      BY <2>1
    <3>2. b[i + 1] \in Byte
      BY <3>1
    <3>3. b[i + 1] \in Nat
      BY <3>2, ByteIsNat
    <3>4. ByteAt(b, i) = b[i + 1]
      BY <2>1 DEF ByteAt
    <3> QED
      BY <3>3, <3>4
  <2>2. CASE ~ (i < Len(b))
    BY <2>2 DEF ByteAt
  <2> QED
    BY <2>1, <2>2
<1>3. ASSUME NEW i \in Nat, NEW more \in X PROVE read(i, more) \in X
  <2> DEFINE y == ByteAt(b, i)
             z == more.value
  <2>1. y \in Nat /\ z \in Nat /\ more.at \in Nat
    BY <1>2
  <2> HIDE DEF y, z
  <2>2. (y % 128) + 128 * z \in Nat
    BY <2>1
  <2>3. [value |-> (y % 128) + 128 * z, at |-> more.at] \in X /\ [value |-> y, at |-> i + 1] \in X
    BY <2>1, <2>2
  <2> QED
    BY <2>3 DEF y, z
<1>4. ASSUME NEW i \in Nat, NEW more, i >= n
      PROVE  read(i, more) = [value |-> 0, at |-> i + 1]
  BY <1>4 DEF ByteAt
<1> HIDE DEF read, base, n
<1>5. step \in [1 .. n -> [X -> X]]
  <2> DEFINE e(j) == [more \in X |-> read(n - j, more)]
             Y == [X -> X]
  <2>1. ASSUME NEW j \in 1 .. n PROVE e(j) \in Y
    <3>1. n - j \in Nat
      BY <1>1
    <3> HIDE DEF X
    <3> QED
      BY <1>3, <3>1
  <2> HIDE DEF e, Y
  <2>2. [j \in 1 .. n |-> e(j)] \in [1 .. n -> Y]
    BY <2>1
  <2> QED
    BY <2>2 DEF e, Y
<1>6. \A j \in 1 .. n, more \in X : step[j][more] = read(n - j, more)
  <2> HIDE DEF X
  <2> QED
    OBVIOUS
<1>7. PICK g \in [0 .. n -> X] : Steps(g, n, base, step)
  <2> HIDE DEF step, X
  <2> QED
    BY <1>1, <1>5, Recursion
<1> DEFINE f == [i \in Nat |-> IF i <= n THEN g[n - i] ELSE [value |-> 0, at |-> i + 1]]
<1>8. eq(f) /\ f \in [Nat -> X]
  <2>1. ASSUME NEW i \in Nat, i < n PROVE f[i] = read(i, f[i + 1])
    <3>1. n - i \in 1 .. n /\ n - (n - i) = i /\ (n - i) - 1 = n - (i + 1) /\ n - (i + 1) \in 0 .. n
      BY <1>1, <2>1
    <3>2. f[i] = g[n - i] /\ f[i + 1] = g[n - (i + 1)]
      BY <1>1, <2>1
    <3> HIDE DEF f, step, X
    <3>3. g[n - (i + 1)] \in X
      BY <1>7, <3>1
    <3>4. g[n - i] = step[n - i][g[n - (i + 1)]]
      BY <1>7, <3>1 DEF Steps
    <3>5. step[n - i][g[n - (i + 1)]] = read(n - (n - i), g[n - (i + 1)])
      BY <1>6, <3>1, <3>3
    <3> QED
      BY <3>1, <3>2, <3>4, <3>5
  <2>2. ASSUME NEW i \in Nat, i >= n PROVE f[i] = read(i, f[i + 1])
    <3>1. f[i] = [value |-> 0, at |-> i + 1]
      <4>1. CASE i = n
        <5>1. n - i = 0 /\ g[0] = base
          BY <1>1, <1>7, <4>1 DEF Steps
        <5> QED
          BY <1>1, <4>1, <5>1 DEF base
      <4>2. CASE i > n
        BY <1>1, <4>2
      <4> QED
        BY <1>1, <2>2, <4>1, <4>2
    <3> QED
      BY <1>4, <2>2, <3>1
  <2>3. \A i \in Nat : f[i] = read(i, f[i + 1])
    <3> HIDE DEF f
    <3> QED
      BY <1>1, <2>1, <2>2
  <2>4. f \in [Nat -> X]
    <3>1. ASSUME NEW i \in Nat PROVE (IF i <= n THEN g[n - i] ELSE [value |-> 0, at |-> i + 1]) \in X
      <4>1. i <= n => n - i \in 0 .. n
        BY <1>1
      <4>2. [value |-> 0, at |-> i + 1] \in X
        OBVIOUS
      <4> HIDE DEF X
      <4> QED
        BY <1>1, <1>7, <4>1, <4>2
    <3> HIDE DEF X
    <3> QED
      BY <3>1
  <2>5. f = [i \in Nat |-> f[i]]
    OBVIOUS
  <2> HIDE DEF f
  <2>6. [i \in Nat |-> f[i]] = [i \in Nat |-> read(i, f[i + 1])]
    BY <2>3
  <2> QED
    BY <2>4, <2>5, <2>6
<1>9. eq(rest)
  <2> HIDE DEF f
  <2> QED
    BY <1>8
<1> HIDE DEF rest, f
<1>10. \A i \in Nat : rest[i] = read(i, rest[i + 1])
  BY <1>9
<1>11. \A i \in Nat : rest[i] \in X
  <2> DEFINE S == {k \in Nat : k <= n => rest[n - k] \in X}
  <2>1. ASSUME NEW i \in Nat, i >= n PROVE rest[i] \in X
    <3>1. rest[i] = [value |-> 0, at |-> i + 1]
      BY <1>4, <1>10, <2>1
    <3> QED
      BY <3>1
  <2>2. 0 \in S
    <3> HIDE DEF X
    <3> QED
      BY <1>1, <2>1
  <2>3. ASSUME NEW k \in Nat, k \in S PROVE k + 1 \in S
    <3> HIDE DEF X
    <3> SUFFICES ASSUME k + 1 <= n PROVE rest[n - (k + 1)] \in X
      OBVIOUS
    <3>1. n - (k + 1) \in Nat /\ (n - (k + 1)) + 1 = n - k /\ rest[n - k] \in X
      BY <1>1, <2>3
    <3> QED
      BY <1>3, <1>10, <3>1
  <2>4. \A k \in Nat : k \in S
    <3> HIDE DEF S
    <3> QED
      BY <2>2, <2>3, Induct
  <2>5. ASSUME NEW i \in Nat, i < n PROVE rest[i] \in X
    <3>1. n - i \in Nat /\ n - i <= n /\ n - (n - i) = i
      BY <1>1, <2>5
    <3> HIDE DEF X
    <3> QED
      BY <2>4, <3>1
  <2> HIDE DEF X
  <2> QED
    BY <1>1, <2>1, <2>5
<1>12. rest \in [Nat -> X]
  <2>1. rest = [i \in Nat |-> rest[i]]
    BY <1>9, <1>10
  <2> HIDE DEF X
  <2> QED
    BY <1>11, <2>1
<1>13. \A o \in Nat : ReadUVarInt(b, o) = rest[o]
  BY DEF ReadUVarInt, rest, read, ByteAt
<1> QED
  BY <1>10, <1>12, <1>13 DEF read

\* writeUVarInt writes bytes.
LEMMA UVarIntType == \A v \in Nat : UVarInt(v) \in Seq(Byte)
<1> SUFFICES ASSUME NEW v \in Nat PROVE UVarInt(v) \in Seq(Byte)
  OBVIOUS
<1>1. PICK G \in [0 .. v -> Seq(Byte)] : UVarInt(v) = G[v]
  BY UVarIntDef
<1> QED
  BY <1>1

\* A marked group of seven bits, and the number above it.
Marked(u, y, w) ==
    /\ y \in Byte /\ y \in Nat /\ ~ (y < 128)
    /\ w \in 0 .. u - 1 /\ u = (y % 128) + 128 * w

\* It makes up the number.
LEMMA MarkedGroup ==
    ASSUME NEW u \in Nat, u >= 128
    PROVE  Marked(u, 128 + (u % 128), u \div 128)
<1> DEFINE r == u % 128
           w == u \div 128
<1>1. w \in 0 .. u - 1 /\ r \in 0 .. 127 /\ u = r + 128 * w
  OBVIOUS
<1> HIDE DEF r, w
<1>2. (128 + r) % 128 = r
  BY <1>1
<1>3. 128 + r \in Byte /\ 128 + r \in Nat /\ ~ (128 + r < 128)
  BY <1>1 DEF Byte
<1>4. Marked(u, 128 + r, w)
  BY <1>1, <1>2, <1>3 DEF Marked
<1> QED
  BY <1>4 DEF r, w

(***************************************************************************)
(* A number is read as it was written, and no byte more, wherever it is in *)
(* a buffer.                                                               *)
(***************************************************************************)
LEMMA UVarIntRead ==
    ASSUME NEW v \in Nat, NEW b \in Seq(Byte), NEW o \in Nat, Stands(UVarInt(v), b, o)
    PROVE  ReadUVarInt(b, o) = [value |-> v, at |-> o + Len(UVarInt(v))]
<1>1. PICK G \in [0 .. v -> Seq(Byte)] :
         /\ \A u \in 0 .. v :
               G[u] = IF u < 128 THEN <<u>> ELSE <<128 + (u % 128)>> \o G[u \div 128]
         /\ UVarInt(v) = G[v]
  BY UVarIntDef
<1>2. PICK R \in [Nat -> [value : Nat, at : Nat]] :
         /\ \A i \in Nat :
               R[i] = IF ByteAt(b, i) < 128 THEN [value |-> ByteAt(b, i), at |-> i + 1]
                      ELSE [value |-> (ByteAt(b, i) % 128) + 128 * R[i + 1].value,
                            at |-> R[i + 1].at]
         /\ \A i \in Nat : ReadUVarInt(b, i) = R[i]
  BY ReadUVarIntDef
<1> DEFINE Reads(u) == \A i \in Nat : Stands(G[u], b, i) =>
                           R[i].value = u /\ R[i].at = i + Len(G[u])
           T == {u \in 0 .. v : ~ Reads(u)}
<1>3. ASSUME NEW u \in 0 .. v, \A w \in 0 .. u - 1 : Reads(w) PROVE Reads(u)
  <2> SUFFICES ASSUME NEW i \in Nat, Stands(G[u], b, i)
               PROVE  R[i].value = u /\ R[i].at = i + Len(G[u])
    OBVIOUS
  <2> HIDE DEF Reads
  <2>1. G[u] = IF u < 128 THEN <<u>> ELSE <<128 + (u % 128)>> \o G[u \div 128]
    BY <1>1
  <2>2. CASE u < 128
    <3>1. G[u] = <<u>> /\ Len(G[u]) = 1 /\ G[u][1] = u
      BY <2>1, <2>2
    <3>2. i + 1 <= Len(b) /\ b[i + 1] = u
      BY <3>1, StandsByte
    <3>3. ByteAt(b, i) = u
      BY <3>2 DEF ByteAt
    <3>4. R[i] = [value |-> u, at |-> i + 1]
      BY <1>2, <2>2, <3>3
    <3> QED
      BY <3>1, <3>4
  <2>3. CASE u >= 128
    <3> DEFINE y == 128 + (u % 128)
               w == u \div 128
    <3>1. /\ y \in Byte /\ w \in 0 .. u - 1 /\ w \in 0 .. v
          /\ y \in Nat /\ ~ (y < 128) /\ u = (y % 128) + 128 * w
      <4>1. u \in Nat
        OBVIOUS
      <4>2. /\ y \in Byte /\ w \in 0 .. u - 1
            /\ y \in Nat /\ ~ (y < 128) /\ u = (y % 128) + 128 * w
        <5>1. Marked(u, y, w)
          BY <2>3, <4>1, MarkedGroup
        <5> HIDE DEF y, w
        <5> QED
          BY <5>1 DEF Marked
      <4> HIDE DEF y, w
      <4> QED
        BY <4>2
    <3>2. G[u] = <<y>> \o G[w] /\ G[w] \in Seq(Byte) /\ <<y>> \in Seq(Byte)
      <4>1. G[u] = <<y>> \o G[w]
        <5>1. ~ (u < 128)
          BY <2>3
        <5> QED
          BY <2>1, <5>1
      <4> HIDE DEF y, w
      <4>2. G[w] \in Seq(Byte) /\ <<y>> \in Seq(Byte)
        BY <1>1, <3>1
      <4> QED
        BY <4>1, <4>2
    <3>3. Reads(w)
      BY <1>3, <3>1
    <3> HIDE DEF y, w
    <3>4. Stands(<<y>>, b, i) /\ Stands(G[w], b, i + Len(<<y>>))
      <4>1. Stands(<<y>> \o G[w], b, i)
        BY <3>2
      <4> QED
        BY <3>2, <4>1, StandsApart
    <3>5. Len(<<y>>) = 1 /\ Len(G[u]) = 1 + Len(G[w]) /\ Len(G[w]) \in Nat
      <4> DEFINE t == G[w]
      <4>1. t \in Seq(Byte) /\ <<y>> \in Seq(Byte) /\ G[u] = <<y>> \o t
        BY <3>2
      <4> HIDE DEF t
      <4>2. Len(<<y>>) = 1 /\ Len(<<y>> \o t) = Len(<<y>>) + Len(t) /\ Len(t) \in Nat
        BY <4>1
      <4> QED
        BY <4>1, <4>2 DEF t
    <3>6. i + 1 <= Len(b) /\ b[i + 1] = y /\ Stands(G[w], b, i + 1)
      BY <3>4, <3>5, StandsByte
    <3>7. ByteAt(b, i) = y
      BY <3>6 DEF ByteAt
    <3>8. R[i] = [value |-> (y % 128) + 128 * R[i + 1].value, at |-> R[i + 1].at]
      BY <1>2, <3>1, <3>7
    <3>9. R[i + 1].value = w /\ R[i + 1].at = (i + 1) + Len(G[w])
      <4>1. i + 1 \in Nat
        OBVIOUS
      <4>2. \A k \in Nat : Stands(G[w], b, k) => R[k].value = w /\ R[k].at = k + Len(G[w])
        BY <3>3 DEF Reads
      <4> QED
        BY <3>6, <4>1, <4>2
    <3>10. R[i].value = u /\ R[i].at = (i + 1) + Len(G[w])
      BY <3>1, <3>8, <3>9
    <3> DEFINE l == Len(G[w])
    <3>11. l \in Nat /\ R[i].at = (i + 1) + l /\ Len(G[u]) = 1 + l
      BY <3>5, <3>10
    <3> HIDE DEF l
    <3>12. (i + 1) + l = i + (1 + l)
      BY <3>11
    <3> QED
      BY <3>10, <3>11, <3>12
  <2> QED
    BY <2>2, <2>3
<1>4. T = {}
  <2> SUFFICES ASSUME T # {} PROVE FALSE
    OBVIOUS
  <2> HIDE DEF Reads
  <2>1. T \in SUBSET Nat
    OBVIOUS
  <2>2. PICK n \in T : \A k \in T : n <= k
    BY <2>1, Least
  <2>3. n \in 0 .. v /\ \A w \in 0 .. n - 1 : w \in 0 .. v /\ w \notin T
    BY <2>2
  <2>4. \A w \in 0 .. n - 1 : Reads(w)
    BY <2>3
  <2> QED
    BY <1>3, <2>2, <2>3, <2>4
<1>5. Reads(v)
  <2> HIDE DEF Reads
  <2>1. v \in 0 .. v
    OBVIOUS
  <2> QED
    BY <1>4, <2>1
<1>6. R[o].value = v /\ R[o].at = o + Len(UVarInt(v))
  BY <1>1, <1>5
<1>7. R[o] \in [value : Nat, at : Nat] /\ ReadUVarInt(b, o) = R[o]
  BY <1>2
<1> QED
  BY <1>6, <1>7

\* Zig-zag leaves no sign.
LEMMA ZigZagType == \A v \in Int : ZigZag(v) \in Nat
  BY DEF ZigZag

\* writeVarInt writes bytes.
LEMMA VarIntType == \A v \in Int : VarInt(v) \in Seq(Byte)
  BY ZigZagType, UVarIntType DEF VarInt

\* The sign comes back from the lowest bit.
LEMMA VarIntRead ==
    ASSUME NEW v \in Int, NEW b \in Seq(Byte), NEW o \in Nat, Stands(VarInt(v), b, o)
    PROVE  ReadVarInt(b, o) = [value |-> v, at |-> o + Len(VarInt(v))]
<1> DEFINE z == ZigZag(v)
           u == ReadUVarInt(b, o)
           x == o + Len(UVarInt(z))
<1>1. u = [value |-> z, at |-> x]
  BY ZigZagType, UVarIntRead DEF VarInt
<1>2. v = IF z % 2 = 0 THEN z \div 2 ELSE -((z + 1) \div 2)
  BY DEF ZigZag
<1>3. VarInt(v) = UVarInt(z)
  BY DEF VarInt
<1> HIDE DEF z, x
<1>4. ReadVarInt(b, o) = [u EXCEPT !.value = IF @ % 2 = 0 THEN @ \div 2 ELSE -((@ + 1) \div 2)]
  BY DEF ReadVarInt
<1> HIDE DEF u
<1>5. ReadVarInt(b, o)
         = [value |-> IF z % 2 = 0 THEN z \div 2 ELSE -((z + 1) \div 2), at |-> x]
  BY <1>1, <1>4
<1> QED
  BY <1>2, <1>3, <1>5 DEF x

-----------------------------------------------------------------------------
(* Strings.                                                                *)

\* As many bytes as were written are read as they were.
LEMMA BytesRead ==
    ASSUME NEW s \in Seq(Byte), NEW b \in Seq(Byte), NEW o \in Nat, Stands(s, b, o)
    PROVE  ReadBytes(Len(s), b, o) = [value |-> s, at |-> o + Len(s)]
<1> DEFINE n == Len(s)
           k == Len(b)
<1>1. n \in Nat /\ k \in Nat /\ o + n <= k /\ \A i \in 1 .. n : b[o + i] = s[i]
  BY DEF Stands
<1>2. (IF o + n < k THEN o + n ELSE k) = o + n
  BY <1>1
<1>3. Subarray(b, o, o + n) = SubSeq(b, o + 1, o + n)
  BY <1>2 DEF Subarray
<1>4. SubSeq(b, o + 1, o + n) = s
  <2> DEFINE t == SubSeq(b, o + 1, o + n)
  <2>1. \A i \in o + 1 .. o + n : i \in 1 .. k
    BY <1>1
  <2>2. \A i \in o + 1 .. o + n : b[i] \in Byte
    BY <2>1
  <2>3. /\ t \in Seq(Byte) /\ Len(t) = IF o + 1 <= o + n THEN (o + n) - (o + 1) + 1 ELSE 0
        /\ \A i \in 1 .. (o + n) - (o + 1) + 1 : t[i] = b[(o + 1) + i - 1]
    BY <1>1, <2>2, SubSeqProperties
  <2> HIDE DEF t
  <2>4. Len(t) = n
    BY <1>1, <2>3
  <2>5. ASSUME NEW i \in 1 .. n PROVE t[i] = s[i]
    <3>1. i \in 1 .. (o + n) - (o + 1) + 1 /\ (o + 1) + i - 1 = o + i
      BY <1>1
    <3>2. t[i] = b[(o + 1) + i - 1]
      BY <2>3, <3>1
    <3>3. t[i] = b[o + i]
      BY <3>1, <3>2
    <3> QED
      BY <1>1, <3>3
  <2>6. t = s
    BY <2>3, <2>4, <2>5, SeqEqual
  <2> QED
    BY <2>6 DEF t
<1> QED
  BY <1>3, <1>4 DEF ReadBytes

\* Null is told apart from every text.
LEMMA NullIsNoText == ASSUME NEW s \in Seq(Byte) PROVE s # Null
  BY NullAssumption DEF Byte

\* writeVarIntString writes bytes.
LEMMA VarIntStringType == \A s \in Text : VarIntString(s) \in Seq(Byte)
<1> SUFFICES ASSUME NEW s \in Text PROVE VarIntString(s) \in Seq(Byte)
  OBVIOUS
<1>1. CASE s = Null
  BY <1>1, VarIntType DEF VarIntString
<1>2. CASE s # Null
  <2>1. s \in Seq(Byte) /\ Len(s) \in Int
    BY <1>2 DEF Text
  <2>2. VarInt(Len(s)) \in Seq(Byte)
    BY <2>1, VarIntType
  <2> QED
    BY <1>2, <2>1, <2>2 DEF VarIntString
<1> QED
  BY <1>1, <1>2

(***************************************************************************)
(* A string is read as it was written, empty and missing told apart, and   *)
(* the reader stops where the writer did (encoder.ts:98, decoder.ts:104).  *)
(***************************************************************************)
LEMMA VarIntStringRead ==
    ASSUME NEW s \in Text, NEW b \in Seq(Byte), NEW o \in Nat, Stands(VarIntString(s), b, o)
    PROVE  ReadVarIntString(b, o) = [value |-> s, at |-> o + Len(VarIntString(s))]
<1> DEFINE u == ReadVarInt(b, o)
<1>1. CASE s = Null
  <2>1. VarIntString(s) = VarInt(-1) /\ -1 \in Int
    BY <1>1 DEF VarIntString
  <2>2. VarInt(-1) \in Seq(Byte)
    BY VarIntType
  <2>3. u = [value |-> -1, at |-> o + Len(VarInt(-1))]
    BY <2>1, VarIntRead
  <2> HIDE DEF u
  <2>4. ReadText(u, b) = [value |-> Null, at |-> o + Len(VarInt(-1))]
    BY <2>3 DEF ReadText
  <2> QED
    BY <1>1, <2>1, <2>2, <2>4 DEF ReadVarIntString, u
<1>2. CASE s # Null
  <2>1. s \in Seq(Byte) /\ Len(s) \in Nat
    BY <1>2 DEF Text
  <2> DEFINE l == VarInt(Len(s))
  <2>2. VarIntString(s) = l \o s
    BY <1>2 DEF VarIntString
  <2>3. l \in Seq(Byte)
    BY <2>1, VarIntType
  <2>4. Stands(l, b, o) /\ Stands(s, b, o + Len(l))
    <3>1. Stands(l \o s, b, o)
      BY <2>2
    <3> HIDE DEF l
    <3> QED
      BY <2>1, <2>3, <3>1, StandsApart
  <2>5. u = [value |-> Len(s), at |-> o + Len(l)]
    BY <2>1, <2>4, VarIntRead
  <2> HIDE DEF l, u
  <2>6. o + Len(l) \in Nat /\ Len(l) \in Nat
    BY <2>3
  <2>7. ReadBytes(Len(s), b, o + Len(l)) = [value |-> s, at |-> (o + Len(l)) + Len(s)]
    BY <2>1, <2>4, <2>6, BytesRead
  <2>8. ReadText(u, b) = ReadBytes(Len(s), b, o + Len(l))
    BY <2>1, <2>5 DEF ReadText
  <2>9. l \o s \in Seq(Byte) /\ (o + Len(l)) + Len(s) = o + Len(l \o s)
    BY <2>1, <2>3
  <2> QED
    BY <2>2, <2>7, <2>8, <2>9 DEF ReadVarIntString, u
<1> QED
  BY <1>1, <1>2

\* The same with a length that is one higher and 0 for a missing string.
LEMMA CompactStringRead ==
    ASSUME NEW s \in Text, NEW b \in Seq(Byte), NEW o \in Nat, Stands(CompactString(s), b, o)
    PROVE  /\ CompactString(s) \in Seq(Byte)
           /\ ReadCompactString(b, o) = [value |-> s, at |-> o + Len(CompactString(s))]
<1> DEFINE u == Decremented(ReadUVarInt(b, o))
<1>1. CASE s = Null
  <2>1. CompactString(s) = UVarInt(0)
    BY <1>1 DEF CompactString
  <2>2. UVarInt(0) \in Seq(Byte)
    BY UVarIntType
  <2>3. ReadUVarInt(b, o) = [value |-> 0, at |-> o + Len(UVarInt(0))]
    BY <2>1, UVarIntRead
  <2>4. u = [value |-> -1, at |-> o + Len(UVarInt(0))]
    BY <2>3 DEF Decremented
  <2> HIDE DEF u
  <2>5. ReadText(u, b) = [value |-> Null, at |-> o + Len(UVarInt(0))]
    BY <2>4 DEF ReadText
  <2> QED
    BY <1>1, <2>1, <2>2, <2>5 DEF ReadCompactString, u
<1>2. CASE s # Null
  <2>1. s \in Seq(Byte) /\ Len(s) \in Nat
    BY <1>2 DEF Text
  <2> DEFINE l == UVarInt(Len(s) + 1)
  <2>2. CompactString(s) = l \o s
    BY <1>2 DEF CompactString
  <2>3. l \in Seq(Byte)
    BY <2>1, UVarIntType
  <2>4. Stands(l, b, o) /\ Stands(s, b, o + Len(l))
    <3>1. Stands(l \o s, b, o)
      BY <2>2
    <3> HIDE DEF l
    <3> QED
      BY <2>1, <2>3, <3>1, StandsApart
  <2>5. ReadUVarInt(b, o) = [value |-> Len(s) + 1, at |-> o + Len(l)]
    BY <2>1, <2>4, UVarIntRead
  <2>6. u = [value |-> Len(s), at |-> o + Len(l)]
    BY <2>1, <2>5 DEF Decremented
  <2> HIDE DEF l, u
  <2>7. o + Len(l) \in Nat /\ Len(l) \in Nat
    BY <2>3
  <2>8. ReadBytes(Len(s), b, o + Len(l)) = [value |-> s, at |-> (o + Len(l)) + Len(s)]
    BY <2>1, <2>4, <2>7, BytesRead
  <2>9. ReadText(u, b) = ReadBytes(Len(s), b, o + Len(l))
    BY <2>1, <2>6 DEF ReadText
  <2>10. l \o s \in Seq(Byte) /\ (o + Len(l)) + Len(s) = o + Len(l \o s)
    BY <2>1, <2>3
  <2> QED
    BY <2>2, <2>8, <2>9, <2>10 DEF ReadCompactString, u
<1> QED
  BY <1>1, <1>2

-----------------------------------------------------------------------------
(* Structures and arrays.                                                  *)

\* The fields of a structure are what f reads one after the other.
FieldByField(f, n, fields, b, before) ==
    /\ Len(fields) = n /\ f = [i \in 0 .. n |-> f[i]] /\ f[0] = before
    /\ \A i \in 1 .. n : f[i] = With(f[i - 1], fields[i][1], Read(fields[i][2], b, f[i - 1].at))

\* What the fold of ReadFields over a list of fields returns.
LEMMA FieldsRead ==
    ASSUME NEW fields, NEW b, NEW before, NEW n \in Nat, NEW f,
           FieldByField(f, n, fields, b, before)
    PROVE  ReadFields(fields, b, before) = f[n]
<1> USE DEF FieldByField
<1> DEFINE next(done, field) == With(done, field[1], Read(field[2], b, done.at))
           eq(g) == g = [i \in 0 .. n |-> IF i = 0 THEN before ELSE next(g[i - 1], fields[i])]
           read == CHOOSE g : eq(g)
<1>1. \A i \in 1 .. n : f[i] = next(f[i - 1], fields[i])
  OBVIOUS
<1>2. ReadFields(fields, b, before) = read[n]
  BY DEF ReadFields
<1> HIDE DEF next
<1>3. eq(f)
  <2> DEFINE e(i) == IF i = 0 THEN before ELSE next(f[i - 1], fields[i])
  <2>1. ASSUME NEW i \in 0 .. n PROVE f[i] = e(i)
    <3>1. CASE i = 0
      BY <3>1
    <3>2. CASE i # 0
      <4>1. i \in 1 .. n
        BY <3>2
      <4> QED
        BY <1>1, <3>2, <4>1
    <3> QED
      BY <3>1, <3>2
  <2> HIDE DEF e
  <2>2. [i \in 0 .. n |-> f[i]] = [i \in 0 .. n |-> e(i)]
    BY <2>1
  <2>3. f = [i \in 0 .. n |-> e(i)]
    BY <2>2
  <2> QED
    BY <2>3 DEF e
<1>4. eq(read)
  BY <1>3
<1> HIDE DEF read
<1>5. read[0] = before
  BY <1>4
<1>6. ASSUME NEW i \in 1 .. n PROVE read[i] = next(read[i - 1], fields[i])
  <2>1. i \in 0 .. n /\ i # 0
    OBVIOUS
  <2> QED
    BY <1>4, <2>1
<1> DEFINE S == {k \in Nat : k <= n => read[k] = f[k]}
<1>7. 0 \in S
  BY <1>5
<1>8. ASSUME NEW k \in Nat, k \in S PROVE k + 1 \in S
  <2> SUFFICES ASSUME k + 1 <= n PROVE read[k + 1] = f[k + 1]
    OBVIOUS
  <2>1. k + 1 \in 1 .. n /\ (k + 1) - 1 = k /\ read[k] = f[k]
    BY <1>8
  <2> QED
    BY ZenonT(30), <1>1, <1>6, <2>1
<1>9. n \in S
  <2> HIDE DEF S
  <2> QED
    BY <1>7, <1>8, Induct
<1> QED
  BY <1>2, <1>9

\* The concatenation of sequences, one more at a time.
LEMMA Flattened ==
    ASSUME NEW D, NEW items \in Seq(Seq(D))
    PROVE  \E F \in [0 .. Len(items) -> Seq(D)] :
              /\ F[0] = <<>> /\ \A i \in 1 .. Len(items) : F[i] = F[i - 1] \o items[i]
              /\ FlattenSeq(items) = F[Len(items)]
<1> DEFINE n == Len(items)
           X == Seq(D)
           step == [i \in 1 .. n |-> [s \in X |-> s \o items[i]]]
<1>1. n \in Nat /\ <<>> \in X /\ \A i \in 1 .. n : items[i] \in X
  OBVIOUS
<1>2. /\ \A s, t \in X : s \o t \in X
      /\ \A t \in X : <<>> \o t = t
  BY ConcatEmptySeq
<1> HIDE DEF X, n
<1>3. step \in [1 .. n -> [X -> X]]
  <2> DEFINE e(i) == [s \in X |-> s \o items[i]]
             Y == [X -> X]
  <2>1. \A i \in 1 .. n : e(i) \in Y
    BY <1>1, <1>2
  <2> HIDE DEF e, Y
  <2>2. [i \in 1 .. n |-> e(i)] \in [1 .. n -> Y]
    BY <2>1
  <2> QED
    BY <2>2 DEF e, Y
<1>4. \A i \in 1 .. n, s \in X : step[i][s] = s \o items[i]
  OBVIOUS
<1>5. PICK F \in [0 .. n -> X] : Steps(F, n, <<>>, step)
  <2> HIDE DEF step
  <2> QED
    BY <1>1, <1>3, Recursion
<1>6. F[0] = <<>> /\ \A i \in 1 .. n : F[i] = F[i - 1] \o items[i]
  <2> HIDE DEF step
  <2>1. ASSUME NEW i \in 1 .. n PROVE F[i] = F[i - 1] \o items[i]
    <3>1. i - 1 \in 0 .. n
      BY <1>1
    <3>2. F[i - 1] \in X
      BY <1>5, <3>1
    <3> QED
      BY <1>4, <1>5, <3>2 DEF Steps
  <2> QED
    BY <1>5, <2>1 DEF Steps
<1> HIDE DEF step
<1>7. FlattenSeq(items) = F[n]
  <2>1. CASE n = 0
    <3>1. FlattenSeq(items) = items
      BY <2>1 DEF FlattenSeq, n
    <3>2. items = <<>>
      BY <2>1 DEF n
    <3> QED
      BY <1>6, <2>1, <3>1, <3>2
  <2>2. CASE n > 0
    <3> DEFINE eq(g) == g = [i \in 1 .. n |-> IF i = 1 THEN items[i] ELSE g[i - 1] \o items[i]]
               flatten == CHOOSE g : eq(g)
               f == [i \in 1 .. n |-> F[i]]
    <3>1. FlattenSeq(items) = flatten[n]
      BY <1>1, <2>2 DEF FlattenSeq, n
    <3>2. F[1] = items[1]
      <4>1. 1 \in 1 .. n /\ 1 - 1 = 0
        BY <1>1, <2>2
      <4>2. F[1] = <<>> \o items[1] /\ items[1] \in X
        BY <1>1, <1>6, <4>1
      <4> QED
        BY <1>2, <4>2
    <3>3. eq(f)
      <4> DEFINE e(i) == IF i = 1 THEN items[i] ELSE f[i - 1] \o items[i]
      <4>1. ASSUME NEW i \in 1 .. n PROVE F[i] = e(i)
        <5>1. CASE i = 1
          BY <3>2, <5>1
        <5>2. CASE i # 1
          <6>1. i - 1 \in 1 .. n
            BY <1>1, <5>2
          <6>2. f[i - 1] = F[i - 1]
            BY <6>1
          <6> HIDE DEF f
          <6> QED
            BY <1>6, <5>2, <6>2
        <5> QED
          BY <5>1, <5>2
      <4> HIDE DEF e
      <4>2. f = [i \in 1 .. n |-> e(i)]
        BY <4>1
      <4> QED
        BY <4>2 DEF e
    <3>4. eq(flatten)
      <4> HIDE DEF f
      <4> QED
        BY <3>3
    <3> HIDE DEF flatten
    <3> DEFINE S == {k \in Nat : k + 1 <= n => flatten[k + 1] = F[k + 1]}
    <3>5. 0 \in S
      <4>1. 1 \in 1 .. n
        BY <1>1, <2>2
      <4>2. flatten[1] = items[1]
        BY <3>4, <4>1
      <4> QED
        BY <3>2, <4>2
    <3>6. ASSUME NEW k \in Nat, k \in S PROVE k + 1 \in S
      <4> SUFFICES ASSUME (k + 1) + 1 <= n PROVE flatten[(k + 1) + 1] = F[(k + 1) + 1]
        OBVIOUS
      <4> DEFINE i == (k + 1) + 1
      <4>1. i \in 1 .. n /\ i # 1 /\ i - 1 = k + 1 /\ flatten[k + 1] = F[k + 1]
        BY <1>1, <3>6
      <4> HIDE DEF i, S
      <4>2. flatten[i] = flatten[i - 1] \o items[i]
        BY <3>4, <4>1
      <4>3. F[i] = F[i - 1] \o items[i]
        BY <1>6, <4>1
      <4>4. flatten[i] = F[i]
        BY <4>1, <4>2, <4>3
      <4> QED
        BY <4>4 DEF i
    <3>7. n - 1 \in S
      <4> HIDE DEF S
      <4>1. \A k \in Nat : k \in S
        BY <3>5, <3>6, Induct
      <4> QED
        BY <1>1, <2>2, <4>1
    <3>8. flatten[n] = F[n]
      <4>1. (n - 1) + 1 = n
        BY <1>1
      <4> QED
        BY <1>1, <3>7, <4>1
    <3> QED
      BY <3>1, <3>8
  <2> QED
    BY <1>1, <2>1, <2>2
<1> QED
  BY <1>5, <1>6, <1>7 DEF X, n

\* The same of bytes.
LEMMA FlattenSeqDef ==
    ASSUME NEW items \in Seq(Seq(Byte))
    PROVE  \E F \in [0 .. Len(items) -> Seq(Byte)] :
              /\ F[0] = <<>> /\ \A i \in 1 .. Len(items) : F[i] = F[i - 1] \o items[i]
              /\ FlattenSeq(items) = F[Len(items)]
  BY Flattened

\* The items of an array stand one after the other, at the offsets A.
Laid(A, items, b, o) ==
    /\ A \in [0 .. Len(items) -> Nat] /\ A[0] = o
    /\ \A i \in 1 .. Len(items) : /\ A[i] = A[i - 1] + Len(items[i])
                                  /\ Stands(items[i], b, A[i - 1])
    /\ A[Len(items)] = o + Len(FlattenSeq(items))

\* Items that stand in a row stand each at the end of the one before.
LEMMA InRow ==
    ASSUME NEW D, NEW items \in Seq(Seq(D)), NEW b \in Seq(D), NEW o \in Nat,
           Stands(FlattenSeq(items), b, o)
    PROVE  \E A : Laid(A, items, b, o)
<1> DEFINE n == Len(items)
           X == Seq(D)
<1>1. n \in Nat /\ \A i \in 1 .. n : items[i] \in X
  OBVIOUS
<1>2. PICK F \in [0 .. n -> X] :
         /\ F[0] = <<>> /\ \A i \in 1 .. n : F[i] = F[i - 1] \o items[i]
         /\ FlattenSeq(items) = F[n]
  BY Flattened
<1> DEFINE A == [i \in 0 .. n |-> o + Len(F[i])]
<1>3. \A s \in X : Len(s) \in Nat
  OBVIOUS
<1>4. \A s, t \in X : Len(s \o t) = Len(s) + Len(t)
  OBVIOUS
<1>5. ASSUME NEW s \in X, NEW t \in X, Stands(s \o t, b, o)
      PROVE  Stands(s, b, o) /\ Stands(t, b, o + Len(s))
  BY <1>5, StandsApart
<1>6. Len(F[0]) = 0
  BY <1>2
<1> HIDE DEF n, X
<1>7. A \in [0 .. n -> Nat] /\ A[0] = o /\ A[n] = o + Len(F[n])
  <2>1. \A i \in 0 .. n : o + Len(F[i]) \in Nat
    BY <1>2, <1>3
  <2>2. 0 \in 0 .. n /\ n \in 0 .. n /\ o + 0 = o
    BY <1>1
  <2> QED
    BY <1>6, <2>1, <2>2
<1> DEFINE S == {k \in Nat : k <= n => Stands(F[n - k], b, o)}
<1>8. 0 \in S
  <2>1. n - 0 = n
    BY <1>1
  <2> QED
    BY <1>2, <2>1
<1>9. ASSUME NEW i \in 1 .. n, Stands(F[i], b, o)
      PROVE  Stands(F[i - 1], b, o) /\ Stands(items[i], b, o + Len(F[i - 1]))
  <2>1. i - 1 \in 0 .. n /\ F[i] = F[i - 1] \o items[i] /\ items[i] \in X
    <3>1. i - 1 \in 0 .. n
      BY <1>1
    <3> QED
      BY <1>1, <1>2, <3>1
  <2>2. F[i - 1] \in X
    BY <1>2, <2>1
  <2> QED
    BY <1>5, <1>9, <2>1, <2>2
<1>10. ASSUME NEW k \in Nat, k \in S PROVE k + 1 \in S
  <2> SUFFICES ASSUME k + 1 <= n PROVE Stands(F[n - (k + 1)], b, o)
    OBVIOUS
  <2>1. n - k \in 1 .. n /\ (n - k) - 1 = n - (k + 1) /\ Stands(F[n - k], b, o)
    BY <1>1, <1>10
  <2> HIDE DEF S
  <2> QED
    BY <1>9, <2>1
<1>11. ASSUME NEW i \in 0 .. n PROVE Stands(F[i], b, o)
  <2>1. \A k \in Nat : k \in S
    <3> HIDE DEF S
    <3> QED
      BY <1>8, <1>10, Induct
  <2>2. n - i \in Nat /\ n - i <= n /\ n - (n - i) = i
    BY <1>1
  <2> QED
    BY <2>1, <2>2
<1>12. ASSUME NEW i \in 1 .. n
       PROVE  A[i] = A[i - 1] + Len(items[i]) /\ Stands(items[i], b, A[i - 1])
  <2>1. i - 1 \in 0 .. n /\ i \in 0 .. n /\ items[i] \in X
    BY <1>1
  <2>2. A[i] = o + Len(F[i]) /\ A[i - 1] = o + Len(F[i - 1])
    BY <2>1
  <2> HIDE DEF A
  <2>3. F[i - 1] \in X /\ F[i] = F[i - 1] \o items[i]
    BY <1>2, <2>1
  <2>4. Len(F[i]) = Len(F[i - 1]) + Len(items[i]) /\ Len(F[i - 1]) \in Nat /\ Len(items[i]) \in Nat
    BY <1>3, <1>4, <2>1, <2>3
  <2>5. Stands(items[i], b, o + Len(F[i - 1]))
    BY <1>9, <1>11, <2>1
  <2> DEFINE x == Len(F[i - 1])
             y == Len(items[i])
  <2>6. x \in Nat /\ y \in Nat
    BY <2>4
  <2> HIDE DEF x, y
  <2>7. o + (x + y) = (o + x) + y
    BY <2>6
  <2> QED
    BY <2>2, <2>4, <2>5, <2>7 DEF x, y
<1> HIDE DEF A
<1>13. A[n] = o + Len(FlattenSeq(items))
  BY <1>2, <1>7
<1>14. Laid(A, items, b, o)
  BY <1>7, <1>12, <1>13 DEF Laid, n
<1> QED
  BY <1>14

\* The same of bytes.
LEMMA ItemsStand ==
    ASSUME NEW items \in Seq(Seq(Byte)), NEW b \in Seq(Byte), NEW o \in Nat,
           Stands(FlattenSeq(items), b, o)
    PROVE  \E A : Laid(A, items, b, o)
  BY InRow

\* One after the other, sequences of one make up a sequence.
LEMMA Singles ==
    ASSUME NEW X, NEW s \in Seq(X)
    PROVE  FlattenSeq([i \in 1 .. Len(s) |-> <<s[i]>>]) = s
<1> DEFINE n == Len(s)
           items == [i \in 1 .. n |-> <<s[i]>>]
           r == FlattenSeq(items)
<1>1. n \in Nat /\ s = [i \in 1 .. n |-> s[i]] /\ \A i \in 1 .. n : s[i] \in X
  OBVIOUS
<1>2. items \in Seq(Seq(X)) /\ Len(items) = n
  <2> DEFINE Y == Seq(X)
  <2>1. \A i \in 1 .. n : <<s[i]>> \in Y
    BY <1>1
  <2> HIDE DEF Y, n
  <2>2. items \in [1 .. n -> Y]
    BY <2>1
  <2> HIDE DEF items
  <2>3. items \in Seq(Y) /\ Len(items) = n
    BY <1>1, <2>2, FunctionIsSeq
  <2> QED
    BY <2>3 DEF Y
<1>3. \A i \in 1 .. n : items[i] = <<s[i]>> /\ Len(items[i]) = 1 /\ items[i][1] = s[i]
  OBVIOUS
<1> HIDE DEF items, r, n
<1>4. PICK F \in [0 .. n -> Seq(X)] : r = F[n]
  BY <1>2, Flattened DEF r
<1>5. r \in Seq(X)
  BY <1>1, <1>4
<1>6. Stands(r, r, 0)
  BY <1>5 DEF Stands
<1>7. PICK A : Laid(A, items, r, 0)
  BY <1>2, <1>5, <1>6, InRow DEF r
<1>8. /\ A \in [0 .. n -> Nat] /\ A[0] = 0 /\ A[n] = 0 + Len(r)
      /\ \A i \in 1 .. n : A[i] = A[i - 1] + 1 /\ Stands(items[i], r, A[i - 1])
  BY <1>2, <1>3, <1>7 DEF Laid, r
<1> DEFINE S == {k \in Nat : k <= n => A[k] = k}
<1>9. 0 \in S
  BY <1>8
<1>10. ASSUME NEW k \in Nat, k \in S PROVE k + 1 \in S
  <2> SUFFICES ASSUME k + 1 <= n PROVE A[k + 1] = k + 1
    OBVIOUS
  <2>1. k + 1 \in 1 .. n /\ (k + 1) - 1 = k /\ A[k] = k
    BY <1>1, <1>10
  <2> QED
    BY <1>8, <2>1
<1>11. \A k \in 0 .. n : A[k] = k
  <2> HIDE DEF S
  <2>1. \A k \in Nat : k \in S
    BY <1>9, <1>10, Induct
  <2> QED
    BY <1>1, <2>1 DEF S
<1>12. Len(r) = n
  BY <1>1, <1>5, <1>8, <1>11
<1>13. ASSUME NEW i \in 1 .. n PROVE r[i] = s[i]
  <2>1. i - 1 \in 0 .. n /\ A[i - 1] = i - 1 /\ (i - 1) + 1 = i
    BY <1>1, <1>11
  <2>2. Stands(items[i], r, i - 1)
    BY <1>8, <2>1
  <2>3. i - 1 \in Nat
    BY <1>1
  <2>5. items[i] = <<s[i]>>
    BY <1>3
  <2>6. Stands(<<s[i]>>, r, i - 1)
    BY <2>2, <2>5
  <2>4. r[(i - 1) + 1] = s[i]
    BY <2>3, <2>6, StandsByte
  <2> QED
    BY <2>1, <2>4
<1>14. r = [i \in 1 .. n |-> r[i]]
  BY <1>5, <1>12
<1>15. r = s
  BY <1>1, <1>13, <1>14
<1> QED
  BY <1>15 DEF r, items, n

\* The items that an array's reader finds one after the other.
ItemByItem(A, n, values, item) ==
    /\ values = [i \in 1 .. n |-> values[i]] /\ A \in [0 .. n -> Nat]
    /\ \A i \in 1 .. n : item[A[i - 1]] = [value |-> values[i], at |-> A[i]]

\* What the recursion of ReadItems returns when every item is read as it was written.
LEMMA ItemsRead ==
    ASSUME NEW n \in Nat, NEW values, NEW A, NEW item, ItemByItem(A, n, values, item)
    PROVE  ReadItems([value |-> n, at |-> A[0]], item) = [value |-> values, at |-> A[n]]
<1> USE DEF ItemByItem
<1> DEFINE count == [value |-> n, at |-> A[0]]
           next(done) == WithItem(done, item[done.at])
           eq(g) == g = [i \in 0 .. n |-> IF i = 0 THEN Empty(A[0]) ELSE next(g[i - 1])]
           items == CHOOSE g : eq(g)
           upTo(k) == [i \in 1 .. k |-> values[i]]
           f == [k \in 0 .. n |-> [value |-> upTo(k), at |-> A[k]]]
<1>1. ReadItems(count, item) = IF n <= 0 THEN Empty(A[0]) ELSE items[n]
  BY DEF ReadItems
<1>2. ASSUME NEW k \in 1 .. n PROVE upTo(k) = Append(upTo(k - 1), values[k])
  <2> DEFINE X == {values[i] : i \in 1 .. n}
             s == upTo(k - 1)
             t == upTo(k)
             last == values[k]
  <2>1. \A i \in 1 .. n : values[i] \in X
    OBVIOUS
  <2>2. k - 1 \in Nat /\ k \in Nat /\ last \in X
    OBVIOUS
  <2>3. s \in [1 .. k - 1 -> X] /\ t \in [1 .. k -> X]
    <3> HIDE DEF X
    <3> QED
      BY <2>1
  <2>4. /\ \A i \in 1 .. k - 1 : s[i] = t[i]
        /\ t[k] = last
    OBVIOUS
  <2> HIDE DEF X, s, t, last
  <2>5. s \in Seq(X) /\ t \in Seq(X) /\ Len(s) = k - 1 /\ Len(t) = k
    <3>1. DOMAIN s = 1 .. k - 1 /\ DOMAIN t = 1 .. k
      BY <2>3
    <3>2. s \in Seq(X)
      BY <2>2, <2>3, FunctionIsSeq
    <3>3. t \in Seq(X)
      BY <2>2, <2>3, FunctionIsSeq
    <3> QED
      BY <2>2, <3>1, <3>2, <3>3
  <2>6. /\ Append(s, last) \in Seq(X) /\ Len(Append(s, last)) = k
        /\ \A i \in 1 .. k - 1 : Append(s, last)[i] = s[i]
        /\ Append(s, last)[k] = last
    BY <2>2, <2>5, AppendProperties
  <2>7. \A i \in 1 .. k : Append(s, last)[i] = t[i]
    BY <2>2, <2>4, <2>6
  <2>8. t = Append(s, last)
    BY <2>5, <2>6, <2>7, SeqEqual
  <2> QED
    BY <2>8 DEF s, t, last
<1>3. f[0] = Empty(A[0])
  <2>1. upTo(0) = <<>>
    OBVIOUS
  <2> QED
    BY <2>1 DEF Empty
<1>4. ASSUME NEW k \in 1 .. n PROVE f[k] = next(f[k - 1])
  <2>1. k \in 0 .. n /\ k - 1 \in 0 .. n
    OBVIOUS
  <2>2. f[k] = [value |-> upTo(k), at |-> A[k]] /\ f[k - 1] = [value |-> upTo(k - 1), at |-> A[k - 1]]
    BY <2>1
  <2> HIDE DEF f, upTo
  <2>3. next(f[k - 1]) = [value |-> Append(upTo(k - 1), values[k]), at |-> A[k]]
    <3>1. item[A[k - 1]] = [value |-> values[k], at |-> A[k]]
      OBVIOUS
    <3> DEFINE x == f[k - 1]
               y == item[A[k - 1]]
    <3>2. x.at = A[k - 1] /\ x.value = upTo(k - 1) /\ y.value = values[k] /\ y.at = A[k]
      BY <2>2, <3>1
    <3>3. next(x) = [value |-> Append(x.value, y.value), at |-> y.at]
      BY <3>2 DEF WithItem
    <3> QED
      BY <3>2, <3>3
  <2> QED
    BY <1>2, <2>2, <2>3
<1>5. f = [k \in 0 .. n |-> f[k]] /\ f[n] = [value |-> values, at |-> A[n]]
  OBVIOUS
<1> HIDE DEF f, next
<1>6. eq(f)
  <2> DEFINE e(i) == IF i = 0 THEN Empty(A[0]) ELSE next(f[i - 1])
  <2>1. ASSUME NEW i \in 0 .. n PROVE f[i] = e(i)
    <3>1. CASE i = 0
      BY <1>3, <3>1
    <3>2. CASE i # 0
      <4>1. i \in 1 .. n
        BY <3>2
      <4> QED
        BY <1>4, <3>2, <4>1
    <3> QED
      BY <3>1, <3>2
  <2> HIDE DEF e
  <2>2. [k \in 0 .. n |-> f[k]] = [k \in 0 .. n |-> e(k)]
    BY <2>1
  <2>3. f = [k \in 0 .. n |-> e(k)]
    BY <1>5, <2>2
  <2> QED
    BY <2>3 DEF e
<1>7. eq(items)
  BY <1>6
<1> HIDE DEF items
<1>8. items[0] = Empty(A[0])
  BY <1>7
<1>9. ASSUME NEW i \in 1 .. n PROVE items[i] = next(items[i - 1])
  <2>1. i \in 0 .. n /\ i # 0
    OBVIOUS
  <2> QED
    BY <1>7, <2>1
<1> DEFINE S == {k \in Nat : k <= n => items[k] = f[k]}
<1>10. 0 \in S
  BY <1>3, <1>8
<1>11. ASSUME NEW k \in Nat, k \in S PROVE k + 1 \in S
  <2> SUFFICES ASSUME k + 1 <= n PROVE items[k + 1] = f[k + 1]
    OBVIOUS
  <2>1. k + 1 \in 1 .. n /\ (k + 1) - 1 = k /\ items[k] = f[k]
    BY <1>11
  <2> QED
    BY <1>4, <1>9, <2>1
<1>12. items[n] = f[n]
  <2>1. n \in S
    <3> HIDE DEF S
    <3> QED
      BY <1>10, <1>11, Induct
  <2> QED
    BY <2>1
<1>13. n <= 0 => Empty(A[0]) = f[n]
  BY <1>3
<1> QED
  BY <1>1, <1>5, <1>12, <1>13

-----------------------------------------------------------------------------
(* Records.                                                                *)

\* The types by name that a record consists of.
LEMMA ReadTypes ==
    \A b, o : /\ Read("int8", b, o) = ReadInt(1, b, o)
              /\ Read("varint", b, o) = ReadVarInt(b, o)
              /\ Read("varlong", b, o) = ReadVarInt(b, o)
              /\ Read("varintString", b, o) = ReadVarIntString(b, o)
  BY DEF Read

\* A header: a pair of strings as a structure.
Header(pair) == [key |-> pair[1], value |-> pair[2]]

\* A header is read as it was written.
LEMMA HeaderRead ==
    ASSUME NEW pair \in Seq(Byte) \X Seq(Byte), NEW b \in Seq(Byte), NEW o \in Nat,
           Stands(EncodedHeader(pair), b, o)
    PROVE  DecodedHeader(b, o)
              = [value |-> Header(pair), at |-> o + Len(EncodedHeader(pair))]
<1> DEFINE x == pair[1]
           y == pair[2]
           p == o + Len(VarIntString(x))
           q == p + Len(VarIntString(y))
           f == [i \in 0 .. 2 |->
                    IF i = 0 THEN Empty(o)
                    ELSE IF i = 1 THEN [value |-> [key |-> x], at |-> p]
                    ELSE [value |-> [key |-> x, value |-> y], at |-> q]]
<1>1. x \in Text /\ y \in Text
  BY DEF Text
<1>2. VarIntString(x) \in Seq(Byte) /\ VarIntString(y) \in Seq(Byte)
  BY <1>1, VarIntStringType
<1>3. Stands(VarIntString(x), b, o) /\ Stands(VarIntString(y), b, p)
  BY <1>2, StandsApart DEF EncodedHeader
<1>4. p \in Nat /\ q = o + Len(EncodedHeader(pair))
  BY <1>2 DEF EncodedHeader
<1>5. /\ ReadVarIntString(b, o) = [value |-> x, at |-> p]
      /\ ReadVarIntString(b, p) = [value |-> y, at |-> q]
  BY <1>1, <1>3, <1>4, VarIntStringRead
<1> HIDE DEF x, y, p, q
<1>6. /\ f[0] = Empty(o) /\ f[1] = [value |-> [key |-> x], at |-> p]
      /\ f[2] = [value |-> [key |-> x, value |-> y], at |-> q]
  OBVIOUS
<1>7. f = [i \in 0 .. 2 |-> f[i]]
  OBVIOUS
<1> HIDE DEF f
<1>8. f[1] = With(f[0], "key", ReadVarIntString(b, f[0].at))
  <2>1. With(Empty(o), "key", [value |-> x, at |-> p]) = [value |-> [key |-> x], at |-> p]
    BY DEF With, Empty
  <2>2. Empty(o).at = o
    BY DEF Empty
  <2> QED
    BY <1>5, <1>6, <2>1, <2>2
<1>9. f[2] = With(f[1], "value", ReadVarIntString(b, f[1].at))
  <2>1. With([value |-> [key |-> x], at |-> p], "value", [value |-> y, at |-> q])
           = [value |-> [key |-> x, value |-> y], at |-> q]
    BY DEF With
  <2> QED
    BY <1>5, <1>6, <2>1
<1>10. /\ Len(HeaderFields) = 2
       /\ HeaderFields[1] = <<"key", "varintString">> /\ HeaderFields[2] = <<"value", "varintString">>
  BY DEF HeaderFields
<1>11. \A i \in 1 .. 2 :
          f[i] = With(f[i - 1], HeaderFields[i][1], Read(HeaderFields[i][2], b, f[i - 1].at))
  <2>1. \A i \in 1 .. 2 : i = 1 \/ i = 2
    OBVIOUS
  <2>2. 1 - 1 = 0 /\ 2 - 1 = 1
    OBVIOUS
  <2>3. /\ HeaderFields[1][1] = "key" /\ HeaderFields[1][2] = "varintString"
        /\ HeaderFields[2][1] = "value" /\ HeaderFields[2][2] = "varintString"
    BY <1>10
  <2> QED
    BY <1>8, <1>9, <2>1, <2>2, <2>3, ReadTypes
<1>12. ReadFields(HeaderFields, b, Empty(o)) = f[2]
  <2>1. FieldByField(f, 2, HeaderFields, b, Empty(o))
    BY <1>6, <1>7, <1>10, <1>11 DEF FieldByField
  <2>2. 2 \in Nat
    OBVIOUS
  <2> QED
    BY <2>1, <2>2, FieldsRead
<1> QED
  BY <1>4, <1>6, <1>12 DEF DecodedHeader, Header, x, y

\* A header is written in bytes.
LEMMA EncodedHeaderType ==
    \A pair \in Seq(Byte) \X Seq(Byte) : EncodedHeader(pair) \in Seq(Byte)
<1> SUFFICES ASSUME NEW pair \in Seq(Byte) \X Seq(Byte) PROVE EncodedHeader(pair) \in Seq(Byte)
  OBVIOUS
<1>1. pair[1] \in Text /\ pair[2] \in Text
  BY DEF Text
<1>2. VarIntString(pair[1]) \in Seq(Byte) /\ VarIntString(pair[2]) \in Seq(Byte)
  BY <1>1, VarIntStringType
<1> QED
  BY <1>2 DEF EncodedHeader

\* The headers of a record, encoded.
EncodedHeaders(headers) == [i \in DOMAIN headers |-> EncodedHeader(headers[i])]

\* All headers of a record are read, in their order.
LEMMA HeadersRead ==
    ASSUME NEW headers \in Seq(Seq(Byte) \X Seq(Byte)), NEW b \in Seq(Byte), NEW o \in Nat,
           Stands(VarIntArray(EncodedHeaders(headers)), b, o)
    PROVE  DecodedHeaders(b, o)
              = [value |-> [i \in 1 .. Len(headers) |-> Header(headers[i])],
                 at |-> o + Len(VarIntArray(EncodedHeaders(headers)))]
<1> DEFINE n == Len(headers)
           items == EncodedHeaders(headers)
           l == VarInt(Len(items))
           flat == FlattenSeq(items)
           values == [i \in 1 .. n |-> Header(headers[i])]
           item == [at \in Nat |-> DecodedHeader(b, at)]
<1>1. n \in Nat /\ \A i \in 1 .. n : headers[i] \in Seq(Byte) \X Seq(Byte)
  OBVIOUS
<1>2. /\ items \in Seq(Seq(Byte)) /\ Len(items) = n
      /\ \A i \in 1 .. n : items[i] = EncodedHeader(headers[i])
  <2> DEFINE e(i) == EncodedHeader(headers[i])
             X == Seq(Byte)
  <2>1. \A i \in 1 .. n : e(i) \in X
    BY <1>1, EncodedHeaderType
  <2>2. items = [i \in 1 .. n |-> e(i)]
    BY DEF EncodedHeaders
  <2> HIDE DEF items, e, X, n
  <2>3. items \in [1 .. n -> X] /\ \A i \in 1 .. n : items[i] = e(i)
    BY <2>1, <2>2
  <2>4. items \in Seq(X) /\ Len(items) = n
    BY <1>1, <2>3, FunctionIsSeq
  <2> QED
    BY <2>3, <2>4 DEF e, X
<1>3. VarIntArray(items) = l \o flat
  BY DEF VarIntArray
<1>4. l \in Seq(Byte)
  BY <1>1, <1>2, VarIntType
<1>5. flat \in Seq(Byte)
  <2>1. PICK F \in [0 .. Len(items) -> Seq(Byte)] : flat = F[Len(items)]
    <3> HIDE DEF items
    <3> QED
      BY <1>2, FlattenSeqDef
  <2> HIDE DEF items, flat
  <2>2. Len(items) \in 0 .. Len(items)
    BY <1>1, <1>2
  <2> QED
    BY <2>1, <2>2
<1> HIDE DEF items, l, flat, values, n
<1>6. Stands(l, b, o) /\ Stands(flat, b, o + Len(l))
  BY <1>3, <1>4, <1>5, StandsApart DEF items
<1>7. ReadVarInt(b, o) = [value |-> n, at |-> o + Len(l)]
  BY <1>1, <1>2, <1>6, VarIntRead DEF l
<1>8. o + Len(l) \in Nat
  BY <1>4
<1>9. PICK A : Laid(A, items, b, o + Len(l))
  BY <1>2, <1>6, <1>8, ItemsStand DEF flat
<1>10. values = [i \in 1 .. n |-> values[i]]
  BY DEF values
<1>11. ASSUME NEW i \in 1 .. n PROVE item[A[i - 1]] = [value |-> values[i], at |-> A[i]]
  <2>1. i - 1 \in 0 .. n /\ A[i - 1] \in Nat
    BY <1>1, <1>2, <1>9 DEF Laid
  <2>2. Stands(EncodedHeader(headers[i]), b, A[i - 1])
    BY <1>2, <1>9 DEF Laid
  <2>3. A[i] = A[i - 1] + Len(EncodedHeader(headers[i]))
    BY <1>2, <1>9 DEF Laid
  <2>4. DecodedHeader(b, A[i - 1]) = [value |-> Header(headers[i]), at |-> A[i]]
    <3> DEFINE pair == headers[i]
               at == A[i - 1]
    <3>1. pair \in Seq(Byte) \X Seq(Byte)
      BY <1>1
    <3>2. at \in Nat /\ Stands(EncodedHeader(pair), b, at)
      BY <2>1, <2>2
    <3>3. A[i] = at + Len(EncodedHeader(pair))
      BY <2>3
    <3> HIDE DEF pair, at
    <3>4. DecodedHeader(b, at) = [value |-> Header(pair), at |-> at + Len(EncodedHeader(pair))]
      BY <3>1, <3>2, HeaderRead
    <3> QED
      BY <3>3, <3>4 DEF pair, at
  <2>5. values[i] = Header(headers[i])
    BY DEF values
  <2> QED
    BY <2>1, <2>4, <2>5
<1> HIDE DEF item
<1>12. ReadItems([value |-> n, at |-> A[0]], item) = [value |-> values, at |-> A[n]]
  <2>1. A \in [0 .. n -> Nat]
    BY <1>2, <1>9 DEF Laid
  <2>2. ItemByItem(A, n, values, item)
    BY <1>10, <1>11, <2>1 DEF ItemByItem
  <2> QED
    BY <1>1, <2>2, ItemsRead
<1>13. DecodedHeaders(b, o) = ReadItems(ReadVarInt(b, o), item)
  BY DEF DecodedHeaders, ReadVarIntArray, item
<1>14. A[n] = o + Len(VarIntArray(items))
  <2>1. Len(l \o flat) = Len(l) + Len(flat) /\ Len(l) \in Nat /\ Len(flat) \in Nat
    BY <1>4, <1>5
  <2>2. A[n] = o + Len(l) + Len(flat)
    BY <1>2, <1>9 DEF Laid, flat
  <2>3. Len(VarIntArray(items)) = Len(l \o flat)
    BY <1>3
  <2> QED
    BY <2>1, <2>2, <2>3
<1>15. DecodedHeaders(b, o) = [value |-> values, at |-> A[n]]
  BY <1>7, <1>9, <1>12, <1>13 DEF Laid
<1> QED
  BY <1>14, <1>15 DEF items, values, n

\* A record as produce.ts gets it, and as fetch.ts returns it.
Encodable ==
    [timestampDelta : Int, offsetDelta : Int, key : Text, value : Text,
     headers : Seq(Seq(Byte) \X Seq(Byte))]

Decoded(record) ==
    [attributes |-> 0, timestampDelta |-> record.timestampDelta,
     offsetDelta |-> record.offsetDelta, key |-> record.key, value |-> record.value,
     headers |-> [i \in 1 .. Len(record.headers) |-> Header(record.headers[i])]]

\* The headers of a record are written in bytes.
LEMMA EncodedHeadersType ==
    ASSUME NEW headers \in Seq(Seq(Byte) \X Seq(Byte))
    PROVE  VarIntArray(EncodedHeaders(headers)) \in Seq(Byte)
<1> DEFINE n == Len(headers)
           items == EncodedHeaders(headers)
           X == Seq(Byte)
           e(i) == EncodedHeader(headers[i])
<1>1. n \in Nat /\ \A i \in 1 .. n : e(i) \in X
  BY EncodedHeaderType
<1>2. items = [i \in 1 .. n |-> e(i)]
  BY DEF EncodedHeaders
<1>3. items \in Seq(X) /\ Len(items) = n
  <2> HIDE DEF items, e, X, n
  <2>1. items \in [1 .. n -> X]
    BY <1>1, <1>2
  <2> QED
    BY <1>1, <2>1, FunctionIsSeq
<1>4. PICK F \in [0 .. Len(items) -> X] : FlattenSeq(items) = F[Len(items)]
  <2> HIDE DEF items
  <2> QED
    BY <1>3, FlattenSeqDef
<1>5. FlattenSeq(items) \in X
  <2> HIDE DEF items
  <2>1. Len(items) \in 0 .. Len(items)
    BY <1>1, <1>3
  <2> QED
    BY <1>4, <2>1
<1>6. VarInt(Len(items)) \in X
  <2> HIDE DEF items
  <2> QED
    BY <1>1, <1>3, VarIntType
<1> QED
  BY <1>5, <1>6 DEF VarIntArray

\* The attributes of a record are one byte.
LEMMA Int8Zero == Int8(0) \in Seq(Byte) /\ Len(Int8(0)) = 1
<1>1. 1 \in Nat /\ 1 > 0 /\ 0 \in Int
  OBVIOUS
<1> QED
  BY <1>1, IntType DEF Int8

\* A record is written in bytes.
LEMMA RecordBodyType ==
    \A record \in Encodable : RecordBody(record) \in Seq(Byte) /\ Len(RecordBody(record)) > 0
<1> SUFFICES ASSUME NEW record \in Encodable
             PROVE  RecordBody(record) \in Seq(Byte) /\ Len(RecordBody(record)) > 0
  OBVIOUS
<1> DEFINE p1 == Int8(0)
           p2 == VarLong(record.timestampDelta)
           p3 == VarInt(record.offsetDelta)
           p4 == VarIntString(record.key)
           p5 == VarIntString(record.value)
           p6 == VarIntArray(EncodedHeaders(record.headers))
<1>1. /\ record.timestampDelta \in Int /\ record.offsetDelta \in Int
      /\ record.key \in Text /\ record.value \in Text
      /\ record.headers \in Seq(Seq(Byte) \X Seq(Byte))
  BY DEF Encodable
<1>2. p1 \in Seq(Byte) /\ Len(p1) = 1
  BY Int8Zero
<1>3. p2 \in Seq(Byte) /\ p3 \in Seq(Byte)
  BY <1>1, VarIntType DEF VarLong, VarInt
<1>4. p4 \in Seq(Byte) /\ p5 \in Seq(Byte)
  BY <1>1, VarIntStringType
<1>5. p6 \in Seq(Byte)
  BY <1>1, EncodedHeadersType
<1>6. RecordBody(record) = p1 \o p2 \o p3 \o p4 \o p5 \o p6
  BY DEF RecordBody, EncodedHeaders
<1> HIDE DEF p1, p2, p3, p4, p5, p6
<1>7. \A s, t \in Seq(Byte) : Len(s) > 0 => s \o t \in Seq(Byte) /\ Len(s \o t) > 0
  OBVIOUS
<1>8. p1 \o p2 \in Seq(Byte) /\ Len(p1 \o p2) > 0
  <2>1. Len(p1) > 0
    BY <1>2
  <2> QED
    BY <1>2, <1>3, <1>7, <2>1
<1> QED
  BY <1>3, <1>4, <1>5, <1>6, <1>7, <1>8

\* Six pieces stand one after the other.
Parts(p1, p2, p3, p4, p5, p6, b, o) ==
    /\ Stands(p1, b, o)
    /\ Stands(p2, b, o + Len(p1))
    /\ Stands(p3, b, o + Len(p1 \o p2))
    /\ Stands(p4, b, o + Len(p1 \o p2 \o p3))
    /\ Stands(p5, b, o + Len(p1 \o p2 \o p3 \o p4))
    /\ Stands(p6, b, o + Len(p1 \o p2 \o p3 \o p4 \o p5))

\* What stands somewhere, stands there in its six parts.
LEMMA SixStand ==
    ASSUME NEW p1 \in Seq(Byte), NEW p2 \in Seq(Byte), NEW p3 \in Seq(Byte),
           NEW p4 \in Seq(Byte), NEW p5 \in Seq(Byte), NEW p6 \in Seq(Byte),
           NEW b \in Seq(Byte), NEW o \in Nat,
           Stands(p1 \o p2 \o p3 \o p4 \o p5 \o p6, b, o)
    PROVE  Parts(p1, p2, p3, p4, p5, p6, b, o)
<1>1. /\ p1 \o p2 \in Seq(Byte) /\ p1 \o p2 \o p3 \in Seq(Byte) /\ p1 \o p2 \o p3 \o p4 \in Seq(Byte)
      /\ p1 \o p2 \o p3 \o p4 \o p5 \in Seq(Byte)
  OBVIOUS
<1>2. /\ Stands(p1 \o p2 \o p3 \o p4 \o p5, b, o)
      /\ Stands(p6, b, o + Len(p1 \o p2 \o p3 \o p4 \o p5))
  BY <1>1, StandsApart
<1>3. Stands(p1 \o p2 \o p3 \o p4, b, o) /\ Stands(p5, b, o + Len(p1 \o p2 \o p3 \o p4))
  BY <1>1, <1>2, StandsApart
<1>4. Stands(p1 \o p2 \o p3, b, o) /\ Stands(p4, b, o + Len(p1 \o p2 \o p3))
  BY <1>1, <1>3, StandsApart
<1>5. Stands(p1 \o p2, b, o) /\ Stands(p3, b, o + Len(p1 \o p2))
  BY <1>1, <1>4, StandsApart
<1>6. Stands(p1, b, o) /\ Stands(p2, b, o + Len(p1))
  BY <1>5, StandsApart
<1> QED
  BY <1>2, <1>3, <1>4, <1>5, <1>6 DEF Parts

(***************************************************************************)
(* A record is decoded as it was encoded: whatever its key, value, headers *)
(* and timestamp are, with null and empty told apart, fetch.ts:188 reads   *)
(* back what produce.ts:60 wrote.                                          *)
(***************************************************************************)
THEOREM RecordsAreReadAsWritten ==
    \A record \in Encodable : DecodedRecord(RecordBody(record)) = Decoded(record)
<1> SUFFICES ASSUME NEW record \in Encodable
             PROVE  DecodedRecord(RecordBody(record)) = Decoded(record)
  OBVIOUS
<1> DEFINE b == RecordBody(record)
           td == record.timestampDelta
           od == record.offsetDelta
           key == record.key
           val == record.value
           headers == record.headers
           p1 == Int8(0)
           p2 == VarLong(td)
           p3 == VarInt(od)
           p4 == VarIntString(key)
           p5 == VarIntString(val)
           p6 == VarIntArray(EncodedHeaders(headers))
           a1 == 0 + Len(p1)
           a2 == 0 + Len(p1 \o p2)
           a3 == 0 + Len(p1 \o p2 \o p3)
           a4 == 0 + Len(p1 \o p2 \o p3 \o p4)
           a5 == 0 + Len(p1 \o p2 \o p3 \o p4 \o p5)
<1>1. /\ td \in Int /\ od \in Int /\ key \in Text /\ val \in Text
      /\ headers \in Seq(Seq(Byte) \X Seq(Byte))
  BY DEF Encodable
<1>2. p1 \in Seq(Byte) /\ Len(p1) = 1
  BY Int8Zero
<1>3. p2 \in Seq(Byte) /\ p3 \in Seq(Byte)
  BY <1>1, VarIntType DEF VarLong, VarInt
<1>4. p4 \in Seq(Byte) /\ p5 \in Seq(Byte)
  BY <1>1, VarIntStringType
<1>5. p6 \in Seq(Byte)
  BY <1>1, EncodedHeadersType
<1>6. b = p1 \o p2 \o p3 \o p4 \o p5 \o p6
  BY DEF RecordBody, EncodedHeaders
<1>7. b \in Seq(Byte)
  BY RecordBodyType
<1>8. Decoded(record) = [attributes |-> 0, timestampDelta |-> td, offsetDelta |-> od, key |-> key,
                         value |-> val, headers |-> [i \in 1 .. Len(headers) |-> Header(headers[i])]]
  BY DEF Decoded
<1>9. DecodedRecord(b) = ReadPart("headers", [at \in Nat |-> DecodedHeaders(b, at)],
                                  ReadFields(RecordFields, b, Empty(0))).value
  BY DEF DecodedRecord
<1>10. p2 = VarInt(td)
  BY DEF VarLong, VarInt
<1> HIDE DEF b, td, od, key, val, headers
<1>11. Stands(b, b, 0)
  <2>1. Len(b) \in Nat
    BY <1>7
  <2> QED
    BY <2>1 DEF Stands
<1> DEFINE q2 == p1 \o p2
           q3 == q2 \o p3
           q4 == q3 \o p4
           q5 == q4 \o p5
<1>12. /\ Stands(p1, b, 0) /\ Stands(p2, b, a1) /\ Stands(p3, b, a2) /\ Stands(p4, b, a3)
       /\ Stands(p5, b, a4) /\ Stands(p6, b, a5)
  <2> HIDE DEF p1, p2, p3, p4, p5, p6
  <2>1. Stands(p1 \o p2 \o p3 \o p4 \o p5 \o p6, b, 0) /\ 0 \in Nat
    BY <1>6, <1>11
  <2>2. /\ p1 \in Seq(Byte) /\ p2 \in Seq(Byte) /\ p3 \in Seq(Byte)
        /\ p4 \in Seq(Byte) /\ p5 \in Seq(Byte) /\ p6 \in Seq(Byte) /\ b \in Seq(Byte)
    BY <1>2, <1>3, <1>4, <1>5, <1>7
  <2>3. /\ Stands(p1, b, 0)
        /\ Stands(p2, b, 0 + Len(p1))
        /\ Stands(p3, b, 0 + Len(p1 \o p2))
        /\ Stands(p4, b, 0 + Len(p1 \o p2 \o p3))
        /\ Stands(p5, b, 0 + Len(p1 \o p2 \o p3 \o p4))
        /\ Stands(p6, b, 0 + Len(p1 \o p2 \o p3 \o p4 \o p5))
    <3> HIDE DEF b
    <3>1. Parts(p1, p2, p3, p4, p5, p6, b, 0)
      BY <2>1, <2>2, SixStand
    <3> QED
      BY <3>1 DEF Parts
  <2> QED
    BY <2>3
<1>13. /\ a1 = 0 + 1 /\ a1 \in Nat /\ a2 = a1 + Len(p2) /\ a2 \in Nat /\ a3 = a2 + Len(p3)
       /\ a3 \in Nat /\ a4 = a3 + Len(p4) /\ a4 \in Nat /\ a5 = a4 + Len(p5) /\ a5 \in Nat
  <2> HIDE DEF p1, p2, p3, p4, p5, p6
  <2>1. \A s, t \in Seq(Byte) : /\ s \o t \in Seq(Byte) /\ Len(s) \in Nat /\ Len(t) \in Nat
                                /\ 0 + Len(s \o t) = (0 + Len(s)) + Len(t)
    OBVIOUS
  <2>2. q2 \in Seq(Byte) /\ a1 \in Nat /\ a2 \in Nat /\ a2 = a1 + Len(p2)
    <3>1. p1 \in Seq(Byte) /\ p2 \in Seq(Byte) /\ Len(p1) \in Nat
      BY <1>2, <1>3
    <3>2. q2 = p1 \o p2 /\ a1 = 0 + Len(p1) /\ a2 = 0 + Len(p1 \o p2)
      OBVIOUS
    <3>3. /\ p1 \o p2 \in Seq(Byte) /\ Len(p1 \o p2) \in Nat
          /\ 0 + Len(p1 \o p2) = (0 + Len(p1)) + Len(p2)
      BY <2>1, <3>1
    <3> HIDE DEF a1, a2, q2
    <3> QED
      BY <3>1, <3>2, <3>3
  <2>3. q3 \in Seq(Byte) /\ a3 \in Nat /\ a3 = a2 + Len(p3)
    <3> HIDE DEF q2
    <3>1. a2 = 0 + Len(q2) /\ a3 = 0 + Len(q2 \o p3)
      BY DEF q2
    <3> QED
      BY <1>3, <2>1, <2>2, <3>1
  <2>4. q4 \in Seq(Byte) /\ a4 \in Nat /\ a4 = a3 + Len(p4)
    <3> HIDE DEF q3
    <3>1. a3 = 0 + Len(q3) /\ a4 = 0 + Len(q3 \o p4)
      BY DEF q3
    <3> QED
      BY <1>4, <2>1, <2>3, <3>1
  <2>5. a5 \in Nat /\ a5 = a4 + Len(p5)
    <3> HIDE DEF q4
    <3>1. a4 = 0 + Len(q4) /\ a5 = 0 + Len(q4 \o p5)
      BY DEF q4
    <3> QED
      BY <1>4, <2>1, <2>4, <3>1
  <2> QED
    BY <1>2, <2>2, <2>3, <2>4, <2>5
<1> HIDE DEF a1, a2, a3, a4, a5, p1, p3, p4, p5, p6
<1>14. ReadInt(1, b, 0) = [value |-> 0, at |-> a1]
  <2>1. 0 \in WithSign(128) /\ 0 \in Nat
    BY DEF WithSign
  <2> QED
    BY <1>7, <1>12, <1>13, <2>1, Int8Read DEF p1
<1>15. ReadVarInt(b, a1) = [value |-> td, at |-> a2]
  BY <1>1, <1>7, <1>10, <1>12, <1>13, VarIntRead
<1>16. ReadVarInt(b, a2) = [value |-> od, at |-> a3]
  BY <1>1, <1>7, <1>12, <1>13, VarIntRead DEF p3
<1>17. ReadVarIntString(b, a3) = [value |-> key, at |-> a4]
  BY <1>1, <1>7, <1>12, <1>13, VarIntStringRead DEF p4
<1>18. ReadVarIntString(b, a4) = [value |-> val, at |-> a5]
  BY <1>1, <1>7, <1>12, <1>13, VarIntStringRead DEF p5
<1> DEFINE values == [i \in 1 .. Len(headers) |-> Header(headers[i])]
           a6 == a5 + Len(p6)
<1>19. DecodedHeaders(b, a5) = [value |-> values, at |-> a6]
  BY <1>1, <1>7, <1>12, <1>13, HeadersRead DEF p6
<1> HIDE DEF values, a6, p2
<1> DEFINE e1 == [value |-> [attributes |-> 0], at |-> a1]
           e2 == [value |-> [attributes |-> 0, timestampDelta |-> td], at |-> a2]
           e3 == [value |-> [attributes |-> 0, timestampDelta |-> td, offsetDelta |-> od], at |-> a3]
           e4 == [value |-> [attributes |-> 0, timestampDelta |-> td, offsetDelta |-> od,
                             key |-> key], at |-> a4]
           e5 == [value |-> [attributes |-> 0, timestampDelta |-> td, offsetDelta |-> od,
                             key |-> key, value |-> val], at |-> a5]
           f == [i \in 0 .. 5 |-> IF i = 0 THEN Empty(0) ELSE IF i = 1 THEN e1
                                  ELSE IF i = 2 THEN e2 ELSE IF i = 3 THEN e3
                                  ELSE IF i = 4 THEN e4 ELSE e5]
<1>20. e1 = With(Empty(0), "attributes", ReadInt(1, b, Empty(0).at))
  <2>1. Empty(0).at = 0
    BY DEF Empty
  <2>2. With(Empty(0), "attributes", [value |-> 0, at |-> a1]) = e1
    BY DEF With, Empty
  <2> QED
    BY <1>14, <2>1, <2>2
<1>21. e2 = With(e1, "timestampDelta", ReadVarInt(b, e1.at))
  <2>1. With(e1, "timestampDelta", [value |-> td, at |-> a2]) = e2
    BY DEF With
  <2> QED
    BY <1>15, <2>1
<1>22. e3 = With(e2, "offsetDelta", ReadVarInt(b, e2.at))
  <2>1. With(e2, "offsetDelta", [value |-> od, at |-> a3]) = e3
    BY DEF With
  <2> QED
    BY <1>16, <2>1
<1>23. e4 = With(e3, "key", ReadVarIntString(b, e3.at))
  <2>1. With(e3, "key", [value |-> key, at |-> a4]) = e4
    BY DEF With
  <2> QED
    BY <1>17, <2>1
<1>24. e5 = With(e4, "value", ReadVarIntString(b, e4.at))
  <2>1. With(e4, "value", [value |-> val, at |-> a5]) = e5
    BY DEF With
  <2> QED
    BY <1>18, <2>1
<1>25. e5.at = a5
  OBVIOUS
<1>26. With(e5, "headers", [value |-> values, at |-> a6]).value
          = [attributes |-> 0, timestampDelta |-> td, offsetDelta |-> od, key |-> key,
             value |-> val, headers |-> values]
  BY DEF With
<1> HIDE DEF e1, e2, e3, e4, e5
<1>27. FieldByField(f, 5, RecordFields, b, Empty(0))
  <2>1. Len(RecordFields) = 5
    BY DEF RecordFields
  <2>2. /\ RecordFields[1][1] = "attributes" /\ RecordFields[1][2] = "int8"
        /\ RecordFields[2][1] = "timestampDelta" /\ RecordFields[2][2] = "varlong"
        /\ RecordFields[3][1] = "offsetDelta" /\ RecordFields[3][2] = "varint"
        /\ RecordFields[4][1] = "key" /\ RecordFields[4][2] = "varintString"
        /\ RecordFields[5][1] = "value" /\ RecordFields[5][2] = "varintString"
    BY DEF RecordFields
  <2>3. f[0] = Empty(0) /\ f[1] = e1 /\ f[2] = e2 /\ f[3] = e3 /\ f[4] = e4 /\ f[5] = e5
    OBVIOUS
  <2>4. f = [i \in 0 .. 5 |-> f[i]]
    OBVIOUS
  <2> HIDE DEF f
  <2>5. ASSUME NEW i \in 1 .. 5
        PROVE  f[i] = With(f[i - 1], RecordFields[i][1], Read(RecordFields[i][2], b, f[i - 1].at))
    <3>1. CASE i = 1
      <4>1. i - 1 = 0
        BY <3>1
      <4> QED
        BY <1>20, <2>2, <2>3, <3>1, <4>1, ReadTypes
    <3>2. CASE i = 2
      <4>1. i - 1 = 1
        BY <3>2
      <4> QED
        BY <1>21, <2>2, <2>3, <3>2, <4>1, ReadTypes
    <3>3. CASE i = 3
      <4>1. i - 1 = 2
        BY <3>3
      <4> QED
        BY <1>22, <2>2, <2>3, <3>3, <4>1, ReadTypes
    <3>4. CASE i = 4
      <4>1. i - 1 = 3
        BY <3>4
      <4> QED
        BY <1>23, <2>2, <2>3, <3>4, <4>1, ReadTypes
    <3>5. CASE i = 5
      <4>1. i - 1 = 4
        BY <3>5
      <4> QED
        BY <1>24, <2>2, <2>3, <3>5, <4>1, ReadTypes
    <3> QED
      BY <3>1, <3>2, <3>3, <3>4, <3>5
  <2> QED
    BY <2>1, <2>3, <2>4, <2>5 DEF FieldByField
<1>28. f[5] = e5 /\ 5 \in Nat
  OBVIOUS
<1> HIDE DEF f
<1>29. ReadFields(RecordFields, b, Empty(0)) = e5
  BY <1>27, <1>28, FieldsRead
<1> DEFINE part == [at \in Nat |-> DecodedHeaders(b, at)]
<1>30. part[a5] = [value |-> values, at |-> a6]
  BY <1>13, <1>19
<1> HIDE DEF part
<1>31. ReadPart("headers", part, e5) = With(e5, "headers", [value |-> values, at |-> a6])
  BY <1>25, <1>30 DEF ReadPart
<1>32. DecodedRecord(b) = With(e5, "headers", [value |-> values, at |-> a6]).value
  BY <1>9, <1>29, <1>31 DEF part
<1>33. DecodedRecord(b) = Decoded(record)
  BY <1>8, <1>26, <1>32 DEF values
<1> QED
  BY <1>33 DEF b

\* The records of a batch, encoded, and the reader of one of them at an offset.
EncodedRecords(records) == [i \in DOMAIN records |-> EncodedRecord(records[i])]
RecordAt(b) ==
    [at \in Nat |-> Sized(ReadVarInt(b, at), b, [bytes \in Seq(Byte) |-> DecodedRecord(bytes)])]

\* A record in its size is read as it was written.
LEMMA RecordRead ==
    ASSUME NEW record \in Encodable, NEW b \in Seq(Byte), NEW o \in Nat,
           Stands(EncodedRecord(record), b, o)
    PROVE  RecordAt(b)[o] = [value |-> <<Decoded(record)>>, at |-> o + Len(EncodedRecord(record))]
<1> DEFINE body == RecordBody(record)
           n == Len(body)
           l == VarInt(n)
           size == ReadVarInt(b, o)
           read == [bytes \in Seq(Byte) |-> DecodedRecord(bytes)]
<1>1. body \in Seq(Byte) /\ n \in Nat /\ n > 0 /\ n \in Int
  <2>1. body \in Seq(Byte) /\ n > 0
    BY RecordBodyType
  <2> HIDE DEF body
  <2> QED
    BY <2>1
<1>2. DecodedRecord(body) = Decoded(record)
  BY RecordsAreReadAsWritten
<1>3. EncodedRecord(record) = l \o body
  BY DEF EncodedRecord, VarIntBytes
<1> HIDE DEF body
<1>4. l \in Seq(Byte)
  BY <1>1, VarIntType
<1> HIDE DEF n
<1>5. Stands(l, b, o) /\ Stands(body, b, o + Len(l))
  <2> HIDE DEF l
  <2>1. Stands(l \o body, b, o)
    BY <1>3
  <2> QED
    BY <1>1, <1>4, <2>1, StandsApart
<1>6. size = [value |-> n, at |-> o + Len(l)]
  BY <1>1, <1>5, VarIntRead
<1> HIDE DEF l, size
<1>7. o + Len(l) \in Nat
  BY <1>4
<1>8. ReadBytes(n, b, o + Len(l)).value = body
  BY <1>1, <1>5, <1>7, BytesRead DEF n
<1>9. read[body] = Decoded(record)
  BY <1>1, <1>2
<1>10. RecordAt(b)[o] = Sized(size, b, read)
  BY DEF RecordAt, size
<1> HIDE DEF read
<1>11. Sized(size, b, read) = [value |-> <<Decoded(record)>>, at |-> o + Len(l) + n]
  <2>1. size.value = n /\ size.at = o + Len(l) /\ ~ (n = 0)
    BY <1>1, <1>6
  <2>2. Sized(size, b, read) = [value |-> <<read[ReadBytes(n, b, o + Len(l)).value]>>,
                                at |-> o + Len(l) + n]
    BY <2>1 DEF Sized
  <2> QED
    BY <1>8, <1>9, <2>2
<1>12. l \o body \in Seq(Byte) /\ o + Len(l) + n = o + Len(l \o body)
  <2>1. l \o body \in Seq(Byte) /\ Len(l \o body) = Len(l) + Len(body) /\ Len(l) \in Nat
    BY <1>1, <1>4
  <2> QED
    BY <1>1, <2>1 DEF n
<1> QED
  BY <1>3, <1>10, <1>11, <1>12

\* A record with its size is written in bytes.
LEMMA EncodedRecordType == \A record \in Encodable : EncodedRecord(record) \in Seq(Byte)
<1> SUFFICES ASSUME NEW record \in Encodable PROVE EncodedRecord(record) \in Seq(Byte)
  OBVIOUS
<1> DEFINE body == RecordBody(record)
           l == VarInt(Len(body))
<1>1. body \in Seq(Byte)
  BY RecordBodyType
<1>2. EncodedRecord(record) = l \o body
  BY DEF EncodedRecord, VarIntBytes
<1> HIDE DEF body
<1>3. Len(body) \in Int
  BY <1>1
<1>4. l \in Seq(Byte)
  BY <1>3, VarIntType
<1> HIDE DEF l
<1> QED
  BY <1>1, <1>2, <1>4

(***************************************************************************)
(* The records of a batch are all read, in their order: the count that     *)
(* produce.ts:59 wrote and the size of each record lead decoder.ts:145     *)
(* from one record to the next.                                            *)
(***************************************************************************)
THEOREM BatchesAreReadAsWritten ==
    \A records \in Seq(Encodable), b \in Seq(Byte), o \in Nat :
        /\ Fits(Len(records), 4)
        /\ Stands(Array(EncodedRecords(records)), b, o)
        => ReadRecords(b, o, [bytes \in Seq(Byte) |-> DecodedRecord(bytes)])
              = [i \in 1 .. Len(records) |-> Decoded(records[i])]
<1> SUFFICES ASSUME NEW records \in Seq(Encodable), NEW b \in Seq(Byte), NEW o \in Nat,
                    Fits(Len(records), 4),
                    Stands(Array(EncodedRecords(records)), b, o)
             PROVE  ReadRecords(b, o, [bytes \in Seq(Byte) |-> DecodedRecord(bytes)])
                       = [i \in 1 .. Len(records) |-> Decoded(records[i])]
  OBVIOUS
<1> DEFINE n == Len(records)
           items == EncodedRecords(records)
           l == Int32(Len(items))
           flat == FlattenSeq(items)
           all == [i \in 1 .. n |-> Decoded(records[i])]
           values == [i \in 1 .. n |-> <<Decoded(records[i])>>]
           item == RecordAt(b)
<1>1. n \in Nat /\ \A i \in 1 .. n : records[i] \in Encodable
  OBVIOUS
<1>2. /\ items \in Seq(Seq(Byte)) /\ Len(items) = n
      /\ \A i \in 1 .. n : items[i] = EncodedRecord(records[i])
  <2> DEFINE e(i) == EncodedRecord(records[i])
             X == Seq(Byte)
  <2>1. \A i \in 1 .. n : e(i) \in X
    BY <1>1, EncodedRecordType
  <2>2. items = [i \in 1 .. n |-> e(i)]
    BY DEF EncodedRecords
  <2> HIDE DEF items, e, X, n
  <2>3. items \in [1 .. n -> X] /\ \A i \in 1 .. n : items[i] = e(i)
    BY <2>1, <2>2
  <2>4. items \in Seq(X) /\ Len(items) = n
    BY <1>1, <2>3, FunctionIsSeq
  <2> QED
    BY <2>3, <2>4 DEF e, X
<1>3. Array(items) = l \o flat
  BY DEF Array
<1>4. Fits(n, 4) /\ Stands(Array(items), b, o)
  OBVIOUS
<1>5. ReadArray(b, o, item) = ReadItems(ReadInt(4, b, o), item)
  BY DEF ReadArray
<1>16. ReadRecords(b, o, [bytes \in Seq(Byte) |-> DecodedRecord(bytes)])
          = FlattenSeq(ReadArray(b, o, item).value)
  BY DEF ReadRecords, RecordAt
<1>17. FlattenSeq(values) = all
  <2> DEFINE e(i) == Decoded(records[i])
             X == {e(i) : i \in 1 .. n}
  <2>1. \A i \in 1 .. n : all[i] = e(i)
    OBVIOUS
  <2>2. values = [i \in 1 .. n |-> <<all[i]>>]
    BY <2>1
  <2>3. all = [i \in 1 .. n |-> e(i)] /\ \A i \in 1 .. n : e(i) \in X
    OBVIOUS
  <2> HIDE DEF n, all, values, e, X
  <2>4. all \in [1 .. n -> X]
    BY <2>3
  <2>5. all \in Seq(X) /\ Len(all) = n
    BY <1>1, <2>4, FunctionIsSeq
  <2> QED
    BY <2>2, <2>5, Singles
<1> HIDE DEF items, flat, values, n, item, all
<1>6. l \in Seq(Byte) /\ Len(l) = 4
  BY <1>2, <1>4, Int32Type
<1>7. flat \in Seq(Byte)
  <2>1. PICK F \in [0 .. Len(items) -> Seq(Byte)] : flat = F[Len(items)]
    BY <1>2, FlattenSeqDef DEF flat
  <2>2. Len(items) \in 0 .. Len(items)
    BY <1>1, <1>2
  <2> QED
    BY <2>1, <2>2
<1>8. Stands(l, b, o) /\ Stands(flat, b, o + Len(l))
  <2> HIDE DEF l
  <2> QED
    BY <1>3, <1>4, <1>6, <1>7, StandsApart
<1>9. ReadInt(4, b, o) = [value |-> n, at |-> o + 4]
  <2>1. 4 \in Nat /\ 4 > 0 /\ n \in Int /\ Fits(n, 4) /\ Stands(BigEndian(n, 4), b, o)
    BY <1>1, <1>2, <1>4, <1>8 DEF Int32, l
  <2> QED
    BY <2>1, FitsRead
<1> HIDE DEF l
<1>10. o + Len(l) = o + 4 /\ o + 4 \in Nat
  BY <1>6
<1>11. PICK A : Laid(A, items, b, o + 4)
  BY <1>2, <1>8, <1>10, ItemsStand DEF flat
<1>12. values = [i \in 1 .. n |-> values[i]]
  BY DEF values
<1>13. ASSUME NEW i \in 1 .. n PROVE item[A[i - 1]] = [value |-> values[i], at |-> A[i]]
  <2>1. i - 1 \in 0 .. n /\ A[i - 1] \in Nat
    BY <1>1, <1>2, <1>11 DEF Laid
  <2>2. Stands(EncodedRecord(records[i]), b, A[i - 1])
    BY <1>2, <1>11 DEF Laid
  <2>3. A[i] = A[i - 1] + Len(EncodedRecord(records[i]))
    BY <1>2, <1>11 DEF Laid
  <2>4. RecordAt(b)[A[i - 1]] = [value |-> <<Decoded(records[i])>>, at |-> A[i]]
    BY <1>1, <2>1, <2>2, <2>3, RecordRead
  <2>5. values[i] = <<Decoded(records[i])>>
    BY DEF values
  <2> QED
    BY <2>4, <2>5 DEF item
<1>14. ReadItems([value |-> n, at |-> A[0]], item) = [value |-> values, at |-> A[n]]
  <2>1. A \in [0 .. n -> Nat]
    BY <1>2, <1>11 DEF Laid
  <2>2. ItemByItem(A, n, values, item)
    BY <1>12, <1>13, <2>1 DEF ItemByItem
  <2> QED
    BY <1>1, <2>2, ItemsRead
<1>15. A[0] = o + 4
  BY <1>11 DEF Laid
<1>18. ReadArray(b, o, item).value = values
  BY <1>5, <1>9, <1>14, <1>15
<1> QED
  BY <1>16, <1>17, <1>18 DEF all, n

-----------------------------------------------------------------------------
(* Structures of fields.                                                   *)

\* v with the fields names, as H has them.
Merged(v, names, H) ==
    [name \in DOMAIN v \cup names |-> IF name \in names THEN H[name] ELSE v[name]]

\* v has fields, or none.
Structure(v) == v = [name \in DOMAIN v |-> v[name]]

\* The names of the first k fields.
Names(fields, k) == {fields[i][1] : i \in 1 .. k}

\* The fields stand one after the other, from at[i] to at[i + 1].
InFields(fields, n, b, at, H) ==
    /\ Len(fields) = n
    /\ \A i \in 1 .. n :
           Read(fields[i][2], b, at[i]) = [value |-> H[fields[i][1]], at |-> at[i + 1]]

\* The fields of a structure are read one after the other.
LEMMA FieldsHeld ==
    ASSUME NEW n \in Nat, NEW fields, NEW b, NEW v, NEW at, NEW H,
           Structure(v), InFields(fields, n, b, at, H)
    PROVE  ReadFields(fields, b, [value |-> v, at |-> at[1]])
              = [value |-> Merged(v, Names(fields, n), H), at |-> at[n + 1]]
<1> USE DEF InFields, Structure
<1> DEFINE names(k) == Names(fields, k)
           e(k) == [value |-> Merged(v, names(k), H), at |-> at[k + 1]]
           f == [k \in 0 .. n |-> e(k)]
           before == [value |-> v, at |-> at[1]]
<1>1. e(0) = before
  <2>1. names(0) = {}
    BY DEF Names
  <2> HIDE DEF names
  <2>2. Merged(v, names(0), H) = v
    BY <2>1 DEF Merged
  <2> QED
    BY <2>2
<1>2. ASSUME NEW i \in 1 .. n
      PROVE  e(i) = With(e(i - 1), fields[i][1], Read(fields[i][2], b, e(i - 1).at))
  <2> DEFINE name == fields[i][1]
             r == [value |-> H[name], at |-> at[i + 1]]
  <2>1. e(i - 1).at = at[i]
    <3>1. (i - 1) + 1 = i
      OBVIOUS
    <3> QED
      BY <3>1
  <2>2. Read(fields[i][2], b, e(i - 1).at) = r
    BY <2>1
  <2>3. names(i) = names(i - 1) \cup {name}
    <3>1. 1 .. i = (1 .. i - 1) \cup {i}
      OBVIOUS
    <3> QED
      BY <3>1 DEF Names
  <2> HIDE DEF names, name
  <2> DEFINE old == Merged(v, names(i - 1), H)
             new == Merged(v, names(i), H)
  <2>4. new = [field \in DOMAIN old \cup {name} |-> IF field = name THEN H[name] ELSE old[field]]
    <3>1. DOMAIN old = DOMAIN v \cup names(i - 1)
      BY DEF Merged
    <3>2. \A field \in DOMAIN old : old[field] = IF field \in names(i - 1) THEN H[field] ELSE v[field]
      BY DEF Merged
    <3>3. DOMAIN old \cup {name} = DOMAIN v \cup names(i)
      BY <2>3, <3>1
    <3>4. new = [field \in DOMAIN v \cup names(i) |-> IF field \in names(i) THEN H[field] ELSE v[field]]
      BY DEF Merged
    <3> HIDE DEF old, new
    <3>5. \A field \in DOMAIN v \cup names(i) :
             (IF field \in names(i) THEN H[field] ELSE v[field])
                = (IF field = name THEN H[name] ELSE old[field])
      BY <2>3, <3>1, <3>2
    <3> QED
      BY <3>3, <3>4, <3>5
  <2>5. With([value |-> old, at |-> at[(i - 1) + 1]], name, r) = [value |-> new, at |-> at[i + 1]]
    <3> HIDE DEF old, new
    <3> QED
      BY <2>4 DEF With
  <2> QED
    BY <2>2, <2>5 DEF name
<1> HIDE DEF e
<1>3. /\ f = [k \in 0 .. n |-> f[k]] /\ f[0] = before
      /\ \A i \in 1 .. n : f[i] = With(f[i - 1], fields[i][1], Read(fields[i][2], b, f[i - 1].at))
  <2>1. \A k \in 0 .. n : f[k] = e(k)
    OBVIOUS
  <2>2. \A i \in 1 .. n : i \in 0 .. n /\ i - 1 \in 0 .. n
    OBVIOUS
  <2> HIDE DEF f
  <2>3. f[0] = before
    BY <1>1, <2>1
  <2>4. \A i \in 1 .. n : f[i] = With(f[i - 1], fields[i][1], Read(fields[i][2], b, f[i - 1].at))
    BY <1>2, <2>1, <2>2
  <2> QED
    BY <2>3, <2>4 DEF f
<1>4. f[n] = e(n)
  OBVIOUS
<1> HIDE DEF f, before
<1>5. FieldByField(f, n, fields, b, before)
  BY <1>3 DEF FieldByField
<1>6. ReadFields(fields, b, before) = f[n]
  BY <1>5, FieldsRead
<1> QED
  BY <1>4, <1>6 DEF e, before

\* The types by name that a batch and a response consist of.
LEMMA MoreReadTypes ==
    \A b, o : /\ Read("int16", b, o) = ReadInt(2, b, o)
              /\ Read("int32", b, o) = ReadInt(4, b, o)
              /\ Read("int64", b, o) = ReadInt(8, b, o)
              /\ Read("uuid", b, o) = ReadBytes(16, b, o)
              /\ Read("tags", b, o) = ReadUVarInt(b, o)
              /\ Read("compactString", b, o) = ReadCompactString(b, o)
  BY DEF Read

\* A number is as long as its type, whatever it is.
LEMMA IntAt ==
    \A n, b, o : ReadInt(n, b, o) = [value |-> ReadInt(n, b, o).value, at |-> o + n]
  BY DEF ReadInt

\* A number that is in the buffer is one.
LEMMA IntIsInt ==
    ASSUME NEW b \in Seq(Byte), NEW o \in Nat, NEW n \in Nat, n > 0, o + n <= Len(b)
    PROVE  ReadInt(n, b, o).value \in Int
<1>1. PICK N : ReadDigits(N, b, o, n)
  BY ReadIntDef
<1> QED
  BY <1>1 DEF ReadDigits

-----------------------------------------------------------------------------
(* Pieces of a buffer.                                                     *)

\* v has k bytes.
Long(v, k) == v \in Seq(Byte) /\ k \in Nat /\ Len(v) = k

\* The length of two pieces.
LEMMA Joined ==
    ASSUME NEW v, NEW w, NEW k, NEW l, Long(v, k), Long(w, l)
    PROVE  Long(v \o w, k + l)
  BY DEF Long

\* The end of what stands somewhere, and what is before it.
LEMMA Peel ==
    ASSUME NEW v, NEW w, NEW k, NEW l, Long(v, k), Long(w, l), NEW b \in Seq(Byte), NEW o \in Nat,
           Stands(v \o w, b, o)
    PROVE  Stands(v, b, o) /\ Stands(w, b, o + k)
<1>1. v \in Seq(Byte) /\ w \in Seq(Byte) /\ Len(v) = k
  BY DEF Long
<1> QED
  BY <1>1, StandsApart

\* What follows a prefix.
LEMMA Remainder ==
    ASSUME NEW v \in Seq(Byte), NEW w \in Seq(Byte)
    PROVE  SubSeq(v \o w, Len(v) + 1, Len(v \o w)) = w
  OBVIOUS

\* Bytes stand in themselves from the first one on.
LEMMA StandsInItself == \A v \in Seq(Byte) : Stands(v, v, 0)
  BY DEF Stands

\* Numbers are as long as their types.
LEMMA IntTypes ==
    \A v \in Int : /\ Long(Int8(v), 1) /\ Long(Int16(v), 2)
                   /\ Long(Int32(v), 4) /\ Long(Int64(v), 8)
<1>1. /\ 1 \in Nat /\ 1 > 0 /\ 2 \in Nat /\ 2 > 0 /\ 4 \in Nat /\ 4 > 0 /\ 8 \in Nat /\ 8 > 0
  OBVIOUS
<1>2. ASSUME NEW v \in Int, NEW n \in Nat, n > 0 PROVE Long(BigEndian(v, n), n)
  BY <1>2, IntType DEF Long
<1> QED
  BY <1>1, <1>2 DEF Int8, Int16, Int32, Int64

\* A number that the encoder can write is read back, whatever its type is.
LEMMA IntsRead ==
    ASSUME NEW v \in Int, NEW b \in Seq(Byte), NEW o \in Nat
    PROVE  /\ Fits(v, 1) /\ Stands(Int8(v), b, o) => ReadInt(1, b, o).value = v
           /\ Fits(v, 2) /\ Stands(Int16(v), b, o) => ReadInt(2, b, o).value = v
           /\ Fits(v, 4) /\ Stands(Int32(v), b, o) => ReadInt(4, b, o).value = v
           /\ Fits(v, 8) /\ Stands(Int64(v), b, o) => ReadInt(8, b, o).value = v
<1>1. /\ 1 \in Nat /\ 1 > 0 /\ 2 \in Nat /\ 2 > 0 /\ 4 \in Nat /\ 4 > 0 /\ 8 \in Nat /\ 8 > 0
  OBVIOUS
<1>2. ASSUME Fits(v, 1), Stands(Int8(v), b, o) PROVE ReadInt(1, b, o).value = v
  <2>1. ReadInt(1, b, o) = [value |-> v, at |-> o + 1]
    BY <1>1, <1>2, FitsRead DEF Int8
  <2> QED
    BY <2>1
<1>3. ASSUME Fits(v, 2), Stands(Int16(v), b, o) PROVE ReadInt(2, b, o).value = v
  <2>1. ReadInt(2, b, o) = [value |-> v, at |-> o + 2]
    BY <1>1, <1>3, FitsRead DEF Int16
  <2> QED
    BY <2>1
<1>4. ASSUME Fits(v, 4), Stands(Int32(v), b, o) PROVE ReadInt(4, b, o).value = v
  <2>1. ReadInt(4, b, o) = [value |-> v, at |-> o + 4]
    BY <1>1, <1>4, FitsRead DEF Int32
  <2> QED
    BY <2>1
<1>5. ASSUME Fits(v, 8), Stands(Int64(v), b, o) PROVE ReadInt(8, b, o).value = v
  <2>1. ReadInt(8, b, o) = [value |-> v, at |-> o + 8]
    BY <1>1, <1>5, FitsRead DEF Int64
  <2> QED
    BY <2>1
<1> QED
  BY <1>2, <1>3, <1>4, <1>5

-----------------------------------------------------------------------------
(* Batches.                                                                *)

BatchNames ==
    {"partitionLeaderEpoch", "magic", "crc", "attributes", "lastOffsetDelta", "baseTimestamp",
     "maxTimestamp", "producerId", "producerEpoch", "baseSequence"}

\* The header of a batch without its first 12 bytes, where it is.
HeaderIn(b) ==
    [partitionLeaderEpoch |-> ReadInt(4, b, 0).value, magic |-> ReadInt(1, b, 4).value,
     crc |-> ReadInt(4, b, 5).value, attributes |-> ReadInt(2, b, 9).value,
     lastOffsetDelta |-> ReadInt(4, b, 11).value, baseTimestamp |-> ReadInt(8, b, 15).value,
     maxTimestamp |-> ReadInt(8, b, 23).value, producerId |-> ReadInt(8, b, 31).value,
     producerEpoch |-> ReadInt(2, b, 39).value, baseSequence |-> ReadInt(4, b, 41).value]

\* The header is in the same place in every batch.
LEMMA HeaderInRead ==
    ASSUME NEW b, NEW v, Structure(v)
    PROVE  ReadFields(BatchFields, b, [value |-> v, at |-> 0])
              = [value |-> Merged(v, BatchNames, HeaderIn(b)), at |-> 45]
<1> DEFINE at == <<0, 4, 5, 9, 11, 15, 23, 31, 39, 41, 45>>
           H == HeaderIn(b)
           F == BatchFields
<1>1. /\ at[1] = 0 /\ at[2] = 4 /\ at[3] = 5 /\ at[4] = 9 /\ at[5] = 11 /\ at[6] = 15
      /\ at[7] = 23 /\ at[8] = 31 /\ at[9] = 39 /\ at[10] = 41 /\ at[11] = 45
  OBVIOUS
<1>2. Len(F) = 10
  BY DEF BatchFields
<1>3. /\ F[1][1] = "partitionLeaderEpoch" /\ F[2][1] = "magic" /\ F[3][1] = "crc"
      /\ F[4][1] = "attributes" /\ F[5][1] = "lastOffsetDelta" /\ F[6][1] = "baseTimestamp"
      /\ F[7][1] = "maxTimestamp" /\ F[8][1] = "producerId" /\ F[9][1] = "producerEpoch"
      /\ F[10][1] = "baseSequence"
  BY DEF BatchFields
<1>4. /\ F[1][2] = "int32" /\ F[2][2] = "int8" /\ F[3][2] = "int32" /\ F[4][2] = "int16"
      /\ F[5][2] = "int32" /\ F[6][2] = "int64" /\ F[7][2] = "int64" /\ F[8][2] = "int64"
      /\ F[9][2] = "int16" /\ F[10][2] = "int32"
  BY DEF BatchFields
<1>5. /\ H.partitionLeaderEpoch = ReadInt(4, b, 0).value /\ H.magic = ReadInt(1, b, 4).value
      /\ H.crc = ReadInt(4, b, 5).value /\ H.attributes = ReadInt(2, b, 9).value
      /\ H.lastOffsetDelta = ReadInt(4, b, 11).value /\ H.baseTimestamp = ReadInt(8, b, 15).value
      /\ H.maxTimestamp = ReadInt(8, b, 23).value /\ H.producerId = ReadInt(8, b, 31).value
      /\ H.producerEpoch = ReadInt(2, b, 39).value /\ H.baseSequence = ReadInt(4, b, 41).value
  BY DEF HeaderIn
<1>6. Names(F, 10) = BatchNames
  <2> HIDE DEF F
  <2>1. \A i \in 1 .. 10 : i \in {1, 2, 3, 4, 5, 6, 7, 8, 9, 10}
    OBVIOUS
  <2>2. \A x : x \in {F[i][1] : i \in {1, 2, 3, 4, 5, 6, 7, 8, 9, 10}} <=> x \in BatchNames
    BY <1>3 DEF BatchNames
  <2>3. 1 .. 10 = {1, 2, 3, 4, 5, 6, 7, 8, 9, 10}
    OBVIOUS
  <2> QED
    BY <2>2, <2>3 DEF Names
<1> HIDE DEF F, H
<1>7. /\ ReadInt(4, b, 0) = [value |-> H.partitionLeaderEpoch, at |-> 4]
      /\ ReadInt(1, b, 4) = [value |-> H.magic, at |-> 5]
      /\ ReadInt(4, b, 5) = [value |-> H.crc, at |-> 9]
      /\ ReadInt(2, b, 9) = [value |-> H.attributes, at |-> 11]
      /\ ReadInt(4, b, 11) = [value |-> H.lastOffsetDelta, at |-> 15]
      /\ ReadInt(8, b, 15) = [value |-> H.baseTimestamp, at |-> 23]
      /\ ReadInt(8, b, 23) = [value |-> H.maxTimestamp, at |-> 31]
      /\ ReadInt(8, b, 31) = [value |-> H.producerId, at |-> 39]
      /\ ReadInt(2, b, 39) = [value |-> H.producerEpoch, at |-> 41]
      /\ ReadInt(4, b, 41) = [value |-> H.baseSequence, at |-> 45]
  <2>1. /\ 0 + 4 = 4 /\ 4 + 1 = 5 /\ 5 + 4 = 9 /\ 9 + 2 = 11 /\ 11 + 4 = 15 /\ 15 + 8 = 23
        /\ 23 + 8 = 31 /\ 31 + 8 = 39 /\ 39 + 2 = 41 /\ 41 + 4 = 45
    OBVIOUS
  <2> QED
    BY <1>5, <2>1, IntAt
<1> HIDE DEF at
<1>8. ASSUME NEW i \in 1 .. 10
      PROVE  Read(F[i][2], b, at[i]) = [value |-> H[F[i][1]], at |-> at[i + 1]]
  <2>1. CASE i = 1
    <3>1. i + 1 = 2
      BY <2>1
    <3> QED
      BY <1>1, <1>3, <1>4, <1>7, <2>1, <3>1, MoreReadTypes
  <2>2. CASE i = 2
    <3>1. i + 1 = 3
      BY <2>2
    <3> QED
      BY <1>1, <1>3, <1>4, <1>7, <2>2, <3>1, ReadTypes
  <2>3. CASE i = 3
    <3>1. i + 1 = 4
      BY <2>3
    <3> QED
      BY <1>1, <1>3, <1>4, <1>7, <2>3, <3>1, MoreReadTypes
  <2>4. CASE i = 4
    <3>1. i + 1 = 5
      BY <2>4
    <3> QED
      BY <1>1, <1>3, <1>4, <1>7, <2>4, <3>1, MoreReadTypes
  <2>5. CASE i = 5
    <3>1. i + 1 = 6
      BY <2>5
    <3> QED
      BY <1>1, <1>3, <1>4, <1>7, <2>5, <3>1, MoreReadTypes
  <2>6. CASE i = 6
    <3>1. i + 1 = 7
      BY <2>6
    <3> QED
      BY <1>1, <1>3, <1>4, <1>7, <2>6, <3>1, MoreReadTypes
  <2>7. CASE i = 7
    <3>1. i + 1 = 8
      BY <2>7
    <3> QED
      BY <1>1, <1>3, <1>4, <1>7, <2>7, <3>1, MoreReadTypes
  <2>8. CASE i = 8
    <3>1. i + 1 = 9
      BY <2>8
    <3> QED
      BY <1>1, <1>3, <1>4, <1>7, <2>8, <3>1, MoreReadTypes
  <2>9. CASE i = 9
    <3>1. i + 1 = 10
      BY <2>9
    <3> QED
      BY <1>1, <1>3, <1>4, <1>7, <2>9, <3>1, MoreReadTypes
  <2>10. CASE i = 10
    <3>1. i + 1 = 11
      BY <2>10
    <3> QED
      BY <1>1, <1>3, <1>4, <1>7, <2>10, <3>1, MoreReadTypes
  <2> QED
    BY <2>1, <2>2, <2>3, <2>4, <2>5, <2>6, <2>7, <2>8, <2>9, <2>10
<1>9. 10 \in Nat /\ 10 + 1 = 11
  OBVIOUS
<1>11. InFields(F, 10, b, at, H)
  BY <1>2, <1>8 DEF InFields
<1>10. ReadFields(F, b, [value |-> v, at |-> at[1]])
          = [value |-> Merged(v, Names(F, 10), H), at |-> at[10 + 1]]
  BY <1>9, <1>11, FieldsHeld
<1> QED
  BY <1>1, <1>6, <1>9, <1>10 DEF F, H

-----------------------------------------------------------------------------
(* A batch as it is written.                                               *)

\* A batch that can be encoded: its fields are of their types.
TypedBatch(batch) ==
    /\ batch.baseOffset \in Int /\ batch.partitionLeaderEpoch \in Int
    /\ batch.attributes \in Int /\ batch.lastOffsetDelta \in Int
    /\ batch.baseTimestamp \in Int /\ batch.maxTimestamp \in Int
    /\ batch.producerId \in Int /\ batch.producerEpoch \in Int
    /\ batch.baseSequence \in Int /\ batch.records \in Seq(Encodable)

\* An array of encoded records is written in bytes.
LEMMA EncodedRecordsType ==
    ASSUME NEW records \in Seq(Encodable)
    PROVE  Array(EncodedRecords(records)) \in Seq(Byte)
<1> DEFINE n == Len(records)
           items == EncodedRecords(records)
           X == Seq(Byte)
           e(i) == EncodedRecord(records[i])
<1>1. n \in Nat /\ \A i \in 1 .. n : e(i) \in X
  <2>1. \A i \in 1 .. n : records[i] \in Encodable
    OBVIOUS
  <2> QED
    BY <2>1, EncodedRecordType
<1>2. items = [i \in 1 .. n |-> e(i)]
  BY DEF EncodedRecords
<1>3. items \in Seq(X) /\ Len(items) = n
  <2> HIDE DEF items, e, X, n
  <2>1. items \in [1 .. n -> X]
    BY <1>1, <1>2
  <2> QED
    BY <1>1, <2>1, FunctionIsSeq
<1>4. PICK F \in [0 .. Len(items) -> X] : FlattenSeq(items) = F[Len(items)]
  <2> HIDE DEF items
  <2> QED
    BY <1>3, FlattenSeqDef
<1>5. FlattenSeq(items) \in X
  <2> HIDE DEF items
  <2>1. Len(items) \in 0 .. Len(items)
    BY <1>1, <1>3
  <2> QED
    BY <1>4, <2>1
<1>6. Int32(Len(items)) \in X
  <2> HIDE DEF items
  <2> QED
    BY <1>1, <1>3, Int32Type
<1> QED
  BY <1>5, <1>6 DEF Array

\* The body of a batch, the fields that are read back in their places.
LEMMA BatchBodyStands ==
    ASSUME NEW batch, TypedBatch(batch)
    PROVE  /\ \E l \in Nat : Long(BatchBody(batch), 36 + l)
           /\ \A b \in Seq(Byte), o \in Nat : Stands(BatchBody(batch), b, o) =>
                  /\ Stands(Int16(batch.attributes), b, o)
                  /\ Stands(Int32(batch.lastOffsetDelta), b, o + 2)
                  /\ Stands(Int64(batch.baseTimestamp), b, o + 6)
                  /\ Stands(Array(EncodedRecords(batch.records)), b, o + 36)
<1> DEFINE p1 == Int16(batch.attributes)
           p2 == Int32(batch.lastOffsetDelta)
           p3 == Int64(batch.baseTimestamp)
           p4 == Int64(batch.maxTimestamp)
           p5 == Int64(batch.producerId)
           p6 == Int16(batch.producerEpoch)
           p7 == Int32(batch.baseSequence)
           p8 == Array(EncodedRecords(batch.records))
           q2 == p1 \o p2
           q3 == q2 \o p3
           q4 == q3 \o p4
           q5 == q4 \o p5
           q6 == q5 \o p6
           q7 == q6 \o p7
           q8 == q7 \o p8
<1>1. /\ Long(p1, 2) /\ Long(p2, 4) /\ Long(p3, 8) /\ Long(p4, 8) /\ Long(p5, 8)
      /\ Long(p6, 2) /\ Long(p7, 4)
  BY IntTypes DEF TypedBatch
<1>2. PICK l \in Nat : Long(p8, l)
  <2>1. p8 \in Seq(Byte)
    BY EncodedRecordsType DEF TypedBatch
  <2> HIDE DEF p8
  <2>2. Len(p8) \in Nat
    BY <2>1
  <2> QED
    BY <2>1, <2>2 DEF Long
<1>3. BatchBody(batch) = q8
  BY DEF BatchBody, EncodedRecords
<1> HIDE DEF p1, p2, p3, p4, p5, p6, p7, p8
<1>4. 2 + 4 = 6 /\ 6 + 8 = 14 /\ 14 + 8 = 22 /\ 22 + 8 = 30 /\ 30 + 2 = 32 /\ 32 + 4 = 36
  OBVIOUS
<1>5. Long(q2, 6)
  <2>1. Long(q2, 2 + 4)
    BY <1>1, Joined
  <2> HIDE DEF q2
  <2> QED
    BY <1>4, <2>1
<1> HIDE DEF q2
<1>6. Long(q3, 14)
  <2>1. Long(q3, 6 + 8)
    BY <1>1, <1>5, Joined
  <2> HIDE DEF q3
  <2> QED
    BY <1>4, <2>1
<1> HIDE DEF q3
<1>7. Long(q4, 22)
  <2>1. Long(q4, 14 + 8)
    BY <1>1, <1>6, Joined
  <2> HIDE DEF q4
  <2> QED
    BY <1>4, <2>1
<1> HIDE DEF q4
<1>8. Long(q5, 30)
  <2>1. Long(q5, 22 + 8)
    BY <1>1, <1>7, Joined
  <2> HIDE DEF q5
  <2> QED
    BY <1>4, <2>1
<1> HIDE DEF q5
<1>9. Long(q6, 32)
  <2>1. Long(q6, 30 + 2)
    BY <1>1, <1>8, Joined
  <2> HIDE DEF q6
  <2> QED
    BY <1>4, <2>1
<1> HIDE DEF q6
<1>10. Long(q7, 36)
  <2>1. Long(q7, 32 + 4)
    BY <1>1, <1>9, Joined
  <2> HIDE DEF q7
  <2> QED
    BY <1>4, <2>1
<1> HIDE DEF q7
<1>11. Long(q8, 36 + l)
  BY <1>2, <1>10, Joined
<1>12. ASSUME NEW b \in Seq(Byte), NEW o \in Nat, Stands(q8, b, o)
       PROVE  Stands(p1, b, o) /\ Stands(p2, b, o + 2) /\ Stands(p3, b, o + 6) /\ Stands(p8, b, o + 36)
  <2>1. Stands(q7, b, o) /\ Stands(p8, b, o + 36)
    BY <1>2, <1>10, <1>12, Peel
  <2>2. Stands(q6, b, o)
    BY <1>1, <1>9, <2>1, Peel DEF q7
  <2>3. Stands(q5, b, o)
    BY <1>1, <1>8, <2>2, Peel DEF q6
  <2>4. Stands(q4, b, o)
    BY <1>1, <1>7, <2>3, Peel DEF q5
  <2>5. Stands(q3, b, o)
    BY <1>1, <1>6, <2>4, Peel DEF q4
  <2>6. Stands(q2, b, o) /\ Stands(p3, b, o + 6)
    BY <1>1, <1>5, <2>5, Peel DEF q3
  <2>7. Stands(p1, b, o) /\ Stands(p2, b, o + 2)
    BY <1>1, <2>6, Peel DEF q2
  <2> QED
    BY <2>1, <2>6, <2>7
<1> HIDE DEF q8
<1> QED
  BY <1>3, <1>11, <1>12 DEF p1, p2, p3, p8

\* What follows the first bytes of a whole is the rest of it.
LEMMA LongTail ==
    ASSUME NEW v, NEW w, NEW k, NEW l, Long(v, k), Long(w, l)
    PROVE  SubSeq(v \o w, k + 1, Len(v \o w)) = w
<1>1. v \in Seq(Byte) /\ w \in Seq(Byte) /\ k = Len(v)
  BY DEF Long
<1>2. SubSeq(v \o w, Len(v) + 1, Len(v \o w)) = w
  BY <1>1, Remainder
<1> QED
  BY <1>1, <1>2

\* The checksum is a number.
LEMMA Crc32CType ==
    ASSUME NEW bytes \in Seq(Byte)
    PROVE  Crc32C(bytes) \in Int
<1> DEFINE n == Len(bytes)
           Z == Int
           e(x, i) == (x + bytes[i]) % 65536
           step == [i \in 1 .. n |-> [x \in Z |-> e(x, i)]]
           eq(g) == g = [i \in 0 .. n |-> IF i = 0 THEN 0 ELSE e(g[i - 1], i)]
           sum == CHOOSE g : eq(g)
<1>1. n \in Nat /\ 0 \in Z /\ \A i \in 1 .. n : bytes[i] \in Nat
  <2>1. n \in Nat /\ 0 \in Z /\ \A i \in 1 .. n : bytes[i] \in Byte
    OBVIOUS
  <2> QED
    BY <2>1, ByteIsNat
<1>2. Crc32C(bytes) = sum[n]
  BY DEF Crc32C
<1>3. \A i \in 1 .. n, x \in Z : e(x, i) \in Z
  BY <1>1
<1> HIDE DEF n, e, Z
<1>4. step \in [1 .. n -> [Z -> Z]]
  <2> DEFINE s(i) == [x \in Z |-> e(x, i)]
             Y == [Z -> Z]
  <2>1. ASSUME NEW i \in 1 .. n PROVE s(i) \in Y
    BY <1>3
  <2> HIDE DEF s, Y
  <2>2. [i \in 1 .. n |-> s(i)] \in [1 .. n -> Y]
    BY <2>1
  <2> QED
    BY <2>2 DEF s, Y
<1>5. \A i \in 1 .. n, x \in Z : step[i][x] = e(x, i)
  OBVIOUS
<1> HIDE DEF step
<1>6. PICK f \in [0 .. n -> Z] : Steps(f, n, 0, step)
  BY <1>1, <1>4, Recursion
<1>7. eq(f)
  <2>1. ASSUME NEW i \in 1 .. n PROVE f[i] = e(f[i - 1], i)
    <3>1. i - 1 \in 0 .. n
      BY <1>1
    <3>2. f[i] = step[i][f[i - 1]] /\ f[i - 1] \in Z
      BY <1>6, <3>1 DEF Steps
    <3> QED
      BY <1>5, <3>2
  <2> QED
    BY <1>1, <1>6, <2>1 DEF Steps
<1>8. eq(sum)
  <2> HIDE DEF eq
  <2> QED
    BY <1>7
<1> HIDE DEF sum
<1>9. Made(sum, Z, n, 0, step)
  <2>1. sum = [i \in 0 .. n |-> sum[i]] /\ sum[0] = 0
    BY <1>1, <1>8
  <2>2. ASSUME NEW i \in 1 .. n, sum[i - 1] \in Z PROVE sum[i] = step[i][sum[i - 1]]
    <3>1. i \in 0 .. n /\ i # 0
      BY <1>1
    <3>2. sum[i] = e(sum[i - 1], i)
      BY <1>8, <3>1
    <3> QED
      BY <1>5, <2>2, <3>2
  <2> QED
    BY <2>1, <2>2 DEF Made
<1>10. sum \in [0 .. n -> Z]
  BY <1>1, <1>4, <1>9, StepsTyped
<1>11. n \in 0 .. n
  BY <1>1
<1> QED
  BY <1>2, <1>10, <1>11 DEF Z

\* What the length of a batch counts, with the body in its place.
LEMMA CheckedStands ==
    ASSUME NEW epoch \in Int, NEW body, NEW l \in Nat, Long(body, l)
    PROVE  /\ Long(Checked(epoch, body), 9 + l)
           /\ \A b \in Seq(Byte), o \in Nat : Stands(Checked(epoch, body), b, o) =>
                  Stands(Int8(2), b, o + 4) /\ Stands(body, b, o + 9)
<1> DEFINE p1 == Int32(epoch)
           p2 == Int8(2)
           p3 == Int32(Crc32C(body))
           q2 == p1 \o p2
           q3 == q2 \o p3
           q4 == q3 \o body
<1>1. Long(p1, 4) /\ Long(p2, 1) /\ Long(p3, 4)
  <2>2. body \in Seq(Byte)
    BY DEF Long
  <2>1. Crc32C(body) \in Int /\ 2 \in Int
    BY <2>2, Crc32CType
  <2> QED
    BY <2>1, IntTypes
<1>2. Checked(epoch, body) = q4
  BY DEF Checked
<1> HIDE DEF p1, p2, p3
<1>3. 4 + 1 = 5 /\ 5 + 4 = 9
  OBVIOUS
<1>4. Long(q2, 5)
  <2>1. Long(q2, 4 + 1)
    BY <1>1, Joined
  <2> HIDE DEF q2
  <2> QED
    BY <1>3, <2>1
<1> HIDE DEF q2
<1>5. Long(q3, 9)
  <2>1. Long(q3, 5 + 4)
    BY <1>1, <1>4, Joined
  <2> HIDE DEF q3
  <2> QED
    BY <1>3, <2>1
<1> HIDE DEF q3
<1>6. Long(q4, 9 + l)
  BY <1>5, Joined
<1>7. ASSUME NEW b \in Seq(Byte), NEW o \in Nat, Stands(q4, b, o)
      PROVE  Stands(p2, b, o + 4) /\ Stands(body, b, o + 9)
  <2>1. Stands(q3, b, o) /\ Stands(body, b, o + 9)
    BY <1>5, <1>7, Peel
  <2>2. Stands(q2, b, o)
    BY <1>1, <1>4, <2>1, Peel DEF q3
  <2>3. Stands(p2, b, o + 4)
    BY <1>1, <2>2, Peel DEF q2
  <2> QED
    BY <2>1, <2>3
<1> HIDE DEF q4
<1> QED
  BY <1>2, <1>6, <1>7 DEF p2

\* What the first twelve bytes of a batch say and what is behind them.
LEMMA EncodedBatchStands ==
    ASSUME NEW batch, TypedBatch(batch), Writable(batch)
    PROVE  LET checked == Checked(batch.partitionLeaderEpoch, BatchBody(batch))
           IN  /\ \E l \in Nat : Long(checked, 45 + l) /\ Long(EncodedBatch(batch), 57 + l)
               /\ ReadInt(8, EncodedBatch(batch), 0).value = batch.baseOffset
               /\ ReadInt(4, EncodedBatch(batch), 8).value = Len(checked)
               /\ EncodedBatch(batch) = Int64(batch.baseOffset) \o (Int32(Len(checked)) \o checked)
               /\ SubSeq(EncodedBatch(batch), 13, Len(EncodedBatch(batch))) = checked
<1> DEFINE body == BatchBody(batch)
           checked == Checked(batch.partitionLeaderEpoch, body)
           p1 == Int64(batch.baseOffset)
           p2 == Int32(Len(checked))
           q2 == p1 \o p2
           b == EncodedBatch(batch)
           n == Len(checked)
<1>1. PICK l \in Nat : Long(body, 36 + l)
  BY BatchBodyStands
<1>2. Long(checked, 45 + l) /\ 36 + l \in Nat
  <2>1. Long(checked, 9 + (36 + l)) /\ 36 + l \in Nat
    BY <1>1, CheckedStands DEF TypedBatch
  <2>2. 9 + (36 + l) = 45 + l
    OBVIOUS
  <2> HIDE DEF checked
  <2> QED
    BY <2>1, <2>2
<1>3. n = 45 + l /\ n \in Int /\ checked \in Seq(Byte)
  <2> HIDE DEF checked
  <2> QED
    BY <1>2 DEF Long
<1>4. Long(p1, 8) /\ batch.baseOffset \in Int
  BY IntTypes DEF TypedBatch
<1>5. Long(p2, 4)
  <2> HIDE DEF checked
  <2> QED
    BY <1>3, IntTypes
<1>6. b = p1 \o (p2 \o checked)
  BY DEF EncodedBatch, Bytes
<1>7. Fits(batch.baseOffset, 8) /\ Fits(n, 4)
  BY DEF Writable
<1> HIDE DEF checked, b, n
<1>8. Long(p2 \o checked, 4 + (45 + l))
  <2> HIDE DEF p2
  <2> QED
    BY <1>2, <1>5, Joined
<1>9. Long(b, 57 + l)
  <2> HIDE DEF p1, p2
  <2>1. Long(b, 8 + (4 + (45 + l)))
    BY <1>4, <1>6, <1>8, Joined
  <2>2. 8 + (4 + (45 + l)) = 57 + l
    OBVIOUS
  <2> QED
    BY <2>1, <2>2
<1>10. b \in Seq(Byte) /\ Stands(b, b, 0) /\ 0 \in Nat
  BY <1>9, StandsInItself DEF Long
<1>11. Stands(p1, b, 0) /\ Stands(p2 \o checked, b, 8)
  <2> HIDE DEF p1, p2
  <2>1. Stands(p1, b, 0) /\ Stands(p2 \o checked, b, 0 + 8)
    <3> DEFINE w == p2 \o checked
    <3>1. Long(w, 4 + (45 + l)) /\ Stands(p1 \o w, b, 0)
      BY <1>6, <1>8, <1>10
    <3> HIDE DEF w
    <3>2. Stands(p1, b, 0) /\ Stands(w, b, 0 + 8)
      BY <1>4, <1>10, <3>1, Peel
    <3> QED
      BY <3>2 DEF w
  <2>2. 0 + 8 = 8
    OBVIOUS
  <2> QED
    BY <2>1, <2>2
<1>12. Stands(p2, b, 8)
  <2> HIDE DEF p2
  <2>1. 8 \in Nat
    OBVIOUS
  <2> QED
    BY <1>2, <1>5, <1>10, <1>11, <2>1, Peel
<1>13. ReadInt(8, b, 0).value = batch.baseOffset
  BY <1>4, <1>7, <1>10, <1>11, IntsRead
<1>14. ReadInt(4, b, 8).value = n
  <2>1. 8 \in Nat /\ Stands(Int32(n), b, 8)
    BY <1>12 DEF n
  <2> QED
    BY <1>3, <1>7, <1>10, <2>1, IntsRead
<1>15. SubSeq(b, 13, Len(b)) = checked
  <2> HIDE DEF p1, p2
  <2>1. Long(q2, 12)
    <3>1. Long(q2, 8 + 4)
      BY <1>4, <1>5, Joined
    <3>2. 8 + 4 = 12
      OBVIOUS
    <3> HIDE DEF q2
    <3> QED
      BY <3>1, <3>2
  <2>2. b = q2 \o checked
    <3>1. p1 \in Seq(Byte) /\ p2 \in Seq(Byte)
      BY <1>4, <1>5 DEF Long
    <3> QED
      BY <1>3, <1>6, <3>1
  <2> HIDE DEF q2
  <2>3. SubSeq(q2 \o checked, 12 + 1, Len(q2 \o checked)) = checked
    BY <1>2, <2>1, LongTail
  <2>4. 12 + 1 = 13
    OBVIOUS
  <2> QED
    BY <2>2, <2>3, <2>4
<1>16. b = Int64(batch.baseOffset) \o (Int32(Len(checked)) \o checked)
  BY <1>6
<1>17. ReadInt(4, b, 8).value = Len(checked)
  BY <1>14 DEF n
<1> QED
  BY <1>2, <1>9, <1>13, <1>15, <1>16, <1>17 DEF checked, b

-----------------------------------------------------------------------------
(* The batches in the log, in requests and in responses.                   *)

\* s is a sequence.
Sequence(s) == s \in Seq(ToSet(s))

\* Bytes with the length of a batch, and what they say from the base offset on.
Framed(bytes) ==
    /\ bytes \in Seq(Byte) /\ Len(bytes) >= 57
    /\ ReadInt(4, bytes, 8).value = Len(bytes) - 12
ContentAt(base, bytes) == DecodedBatch(base, SubSeq(bytes, 13, Len(bytes)))
Content(bytes) == ContentAt(ReadInt(8, bytes, 0).value, bytes)

(***************************************************************************)
(* Of a partition, w is what its offsets hold (written), c the offsets     *)
(* that are cleaned, l the log, d what is delivered, from the position.    *)
(* The content of a batch is for the offsets from first to next: it has    *)
(* what was sent, or nothing if all of it is cleaned.                      *)
(***************************************************************************)
Gives(w, content, first, j) ==
    /\ Received(content, content.records[j]).offset = first + j - 1
    /\ w[first + j] \in {Null, Received(content, content.records[j]).message}
Holds(w, c, content, first, next) ==
    content.supported =>
        /\ content.baseOffset = first /\ content.lastOffsetDelta = next - first - 1
        /\ Sequence(content.records)
        /\ \/ Len(content.records) = next - first
           \/ Len(content.records) = 0 /\ first .. next - 1 \subseteq c
        /\ \A j \in 1 .. Len(content.records) : Gives(w, content, first, j)

\* The header and the content of a batch agree.
Batched(w, c, bytes, content, first, next) ==
    /\ first \in Nat /\ next \in Nat /\ first < next
    /\ Framed(bytes)
    /\ BatchHeader(bytes).lastOffsetDelta = next - first - 1
    /\ Holds(w, c, content, first, next)

\* The batches of a log follow each other, and the cleaner made the gaps.
EndOf(l) == IF l = <<>> THEN 0 ELSE Last(l).next
Ordered(l) == \A i, k \in DOMAIN l : i < k => l[i].next <= l[k].first
Covered(l, c) ==
    \A o \in 0 .. EndOf(l) - 1 :
        o \in c \/ \E i \in DOMAIN l : l[i].first <= o /\ o < l[i].next
InLog(l, w, c) ==
    /\ l \in Seq([first : Nat, next : Nat, bytes : Seq(Byte)])
    /\ \A i \in DOMAIN l : Batched(w, c, l[i].bytes, Content(l[i].bytes), l[i].first, l[i].next)
    /\ Ordered(l) /\ Covered(l, c)
    /\ c \subseteq 0 .. EndOf(l) - 1

\* A response has, of each partition, batches from the position on.
After(batch) == batch.baseOffset + batch.lastOffsetDelta + 1
InOffsets(batch, o) == batch.baseOffset <= o /\ o < After(batch)
Followed(batches, c, from) ==
    \A k \in DOMAIN batches : \A o \in from .. After(batches[k]) - 1 :
        o \in c \/ \E i \in 1 .. k : InOffsets(batches[i], o)
Following(batches, w, c, from, end) ==
    /\ \A i \in DOMAIN batches :
           /\ batches[i].baseOffset \in Nat /\ After(batches[i]) \in from + 1 .. end
           /\ batches[i].baseOffset < After(batches[i])
           /\ Holds(w, c, batches[i], batches[i].baseOffset, After(batches[i]))
    /\ \A i, k \in DOMAIN batches : i < k => After(batches[i]) <= batches[k].baseOffset
    /\ Followed(batches, c, from)
Fetched(batches, w, c, from, end) ==
    /\ Sequence(batches)
    /\ (\A i \in DOMAIN batches : batches[i].supported) => Following(batches, w, c, from, end)

\* The consumer is done with the offsets below the position.
Rising(d) == \A i, k \in DOMAIN d : i < k => d[i].offset < d[k].offset
Done(d, c, from) ==
    \A o \in 0 .. from - 1 : o \in c \/ \E i \in DOMAIN d : d[i].offset = o
Consumed(d, w, c, from, end) ==
    /\ from \in 0 .. end
    /\ Sequence(d) /\ Sequence(w)
    /\ \A i \in DOMAIN d : /\ d[i].offset \in 0 .. from - 1
                           /\ w[d[i].offset + 1] \in {Null, d[i].message}
    /\ Rising(d) /\ Done(d, c, from)

\* Each part of a request holds what a log is behind of what was sent.
Outstanding(bytes, l, w, c) ==
    /\ Fits(EndOf(l), 8)
    /\ Batched(w, c, bytes, ContentAt(EndOf(l), bytes), EndOf(l), Len(w))
RequestOK ==
    IF request = Null THEN \A p \in Partitions : Len(written[p]) = EndOf(log[p])
    ELSE /\ request \in Seq(Byte)
         /\ \A part \in ToSet(Produces(request)) :
                LET p == part.index
                IN  p \in Partitions /\ Outstanding(part.bytes, log[p], written[p], cleaned[p])
         /\ \A p \in Partitions :
                (\A part \in ToSet(Produces(request)) : part.index # p) => Len(written[p]) = EndOf(log[p])

Answer == FetchResponse(response)[1].partitions
ResponseOK ==
    response # Null =>
        /\ response \in Seq(Byte)
        /\ \A p \in Partitions :
               /\ \E part \in ToSet(Answer) : part.partitionIndex = p
               /\ Fetched(Batches(p, Answer), written[p], cleaned[p], position[p], EndOf(log[p]))

PathTyped ==
    /\ scenario \in Scenarios
    /\ sent \in 0 .. Len(scenario.sends)
    /\ counter \in Nat
    /\ sequences \in [Partitions -> Nat]
    /\ fetcher = IF response = Null THEN "fetching" ELSE "processing"
    /\ foreign \in 0 .. Len(scenario.foreign)
    /\ cleanings \in 0 .. scenario.cleanings
    /\ log = [p \in Partitions |-> log[p]] /\ cleaned = [p \in Partitions |-> cleaned[p]]
    /\ written = [p \in Partitions |-> written[p]]

PathInv ==
    /\ PathTyped /\ RequestOK /\ ResponseOK
    /\ \A p \in Partitions :
           /\ InLog(log[p], written[p], cleaned[p])
           /\ Consumed(delivered[p], written[p], cleaned[p], position[p], EndOf(log[p]))

-----------------------------------------------------------------------------
(* A batch as it is read.                                                  *)

\* No fields are a structure.
LEMMA NoFields == Structure(<<>>)
  BY DEF Structure

\* Which values the fields have after a merge.
LEMMA MergedHas ==
    \A v, names, H : /\ \A name \in names : Merged(v, names, H)[name] = H[name]
                     /\ \A name \in DOMAIN v \ names : Merged(v, names, H)[name] = v[name]
  BY DEF Merged

\* The fields of a batch and where they end.
LEMMA HeaderOf ==
    ASSUME NEW b
    PROVE  ReadFields(BatchFields, b, Empty(0))
              = [value |-> Merged(<<>>, BatchNames, HeaderIn(b)), at |-> 45]
<1>1. Empty(0) = [value |-> <<>>, at |-> 0]
  BY DEF Empty
<1>2. ReadFields(BatchFields, b, [value |-> <<>>, at |-> 0])
         = [value |-> Merged(<<>>, BatchNames, HeaderIn(b)), at |-> 45]
  BY NoFields, HeaderInRead
<1> QED
  BY <1>1, <1>2

\* A batch as the decoder has it, with another base offset.
DecodedOf(base, batch) ==
    IF batch.attributes % 8 # 0 THEN [supported |-> FALSE]
    ELSE [supported |-> TRUE, baseOffset |-> base, lastOffsetDelta |-> batch.lastOffsetDelta,
          baseTimestamp |-> batch.baseTimestamp,
          records |-> [i \in 1 .. Len(batch.records) |-> Decoded(batch.records[i])]]

\* What the length of a batch counts is read as it was written.
LEMMA CheckedRead ==
    ASSUME NEW batch, TypedBatch(batch), Writable(batch)
    PROVE  LET checked == Checked(batch.partitionLeaderEpoch, BatchBody(batch))
               H == HeaderIn(checked)
           IN  /\ H.magic = 2 /\ H.attributes = batch.attributes
               /\ H.lastOffsetDelta = batch.lastOffsetDelta
               /\ H.baseTimestamp = batch.baseTimestamp
               /\ ReadRecords(checked, 45, [bytes \in Seq(Byte) |-> DecodedRecord(bytes)])
                     = [i \in 1 .. Len(batch.records) |-> Decoded(batch.records[i])]
<1> DEFINE body == BatchBody(batch)
           c == Checked(batch.partitionLeaderEpoch, body)
           H == HeaderIn(c)
<1>1. PICK l \in Nat : Long(body, 36 + l)
  BY BatchBodyStands
<1>2. 36 + l \in Nat /\ batch.partitionLeaderEpoch \in Int
  BY DEF TypedBatch
<1>3. Long(c, 9 + (36 + l)) /\ \A b \in Seq(Byte), o \in Nat : Stands(c, b, o) =>
          Stands(Int8(2), b, o + 4) /\ Stands(body, b, o + 9)
  <2> HIDE DEF body
  <2> QED
    BY <1>1, <1>2, CheckedStands
<1> HIDE DEF c
<1>4. c \in Seq(Byte) /\ Stands(c, c, 0)
  <2>1. c \in Seq(Byte)
    BY <1>3 DEF Long
  <2> QED
    BY <2>1, StandsInItself
<1>5. /\ 0 \in Nat /\ 0 + 4 = 4 /\ 0 + 9 = 9 /\ 4 \in Nat /\ 9 \in Nat /\ 9 + 2 = 11 /\ 11 \in Nat
      /\ 9 + 6 = 15 /\ 15 \in Nat /\ 9 + 36 = 45 /\ 45 \in Nat /\ 2 \in Int
  OBVIOUS
<1>6. Stands(Int8(2), c, 4) /\ Stands(body, c, 9)
  <2>1. Stands(Int8(2), c, 0 + 4) /\ Stands(body, c, 0 + 9)
    BY <1>3, <1>4, <1>5
  <2> QED
    BY <1>5, <2>1
<1>7. /\ Stands(Int16(batch.attributes), c, 9) /\ Stands(Int32(batch.lastOffsetDelta), c, 11)
      /\ Stands(Int64(batch.baseTimestamp), c, 15)
      /\ Stands(Array(EncodedRecords(batch.records)), c, 45)
  <2>1. /\ Stands(Int16(batch.attributes), c, 9) /\ Stands(Int32(batch.lastOffsetDelta), c, 9 + 2)
        /\ Stands(Int64(batch.baseTimestamp), c, 9 + 6)
        /\ Stands(Array(EncodedRecords(batch.records)), c, 9 + 36)
    BY <1>4, <1>5, <1>6, BatchBodyStands
  <2> QED
    BY <1>5, <2>1
<1>8. /\ Fits(batch.attributes, 2) /\ Fits(batch.lastOffsetDelta, 4)
      /\ Fits(batch.baseTimestamp, 8) /\ Fits(Len(batch.records), 4)
  BY DEF Writable
<1>9. /\ batch.attributes \in Int /\ batch.lastOffsetDelta \in Int /\ batch.baseTimestamp \in Int
      /\ batch.records \in Seq(Encodable)
  BY DEF TypedBatch
<1>10. ReadInt(1, c, 4).value = 2
  <2>1. 2 \in WithSign(128)
    BY DEF WithSign
  <2>2. ReadInt(1, c, 4) = [value |-> 2, at |-> 4 + 1]
    BY <1>4, <1>5, <1>6, <2>1, Int8Read
  <2> QED
    BY <2>2
<1>11. ReadInt(2, c, 9).value = batch.attributes
  BY <1>4, <1>5, <1>7, <1>8, <1>9, IntsRead
<1>12. ReadInt(4, c, 11).value = batch.lastOffsetDelta
  BY <1>4, <1>5, <1>7, <1>8, <1>9, IntsRead
<1>13. ReadInt(8, c, 15).value = batch.baseTimestamp
  BY <1>4, <1>5, <1>7, <1>8, <1>9, IntsRead
<1>14. ReadRecords(c, 45, [bytes \in Seq(Byte) |-> DecodedRecord(bytes)])
          = [i \in 1 .. Len(batch.records) |-> Decoded(batch.records[i])]
  BY <1>4, <1>5, <1>7, <1>8, <1>9, BatchesAreReadAsWritten
<1>15. /\ H.magic = ReadInt(1, c, 4).value /\ H.attributes = ReadInt(2, c, 9).value
       /\ H.lastOffsetDelta = ReadInt(4, c, 11).value /\ H.baseTimestamp = ReadInt(8, c, 15).value
  BY DEF HeaderIn
<1> HIDE DEF H
<1> QED
  BY <1>10, <1>11, <1>12, <1>13, <1>14, <1>15 DEF H, c

\* The content of bytes by their header.
LEMMA ContentDef ==
    ASSUME NEW base, NEW bytes
    PROVE  LET c == SubSeq(bytes, 13, Len(bytes))
               H == HeaderIn(c)
           IN  /\ ContentAt(base, bytes)
                     = IF ~(H.magic = 2 /\ H.attributes % 8 = 0) THEN [supported |-> FALSE]
                       ELSE [supported |-> TRUE, baseOffset |-> base,
                             lastOffsetDelta |-> H.lastOffsetDelta,
                             baseTimestamp |-> H.baseTimestamp,
                             records |-> ReadRecords(c, 45,
                                             [b \in Seq(Byte) |-> DecodedRecord(b)])]
               /\ BatchHeader(bytes) = Merged(<<>>, BatchNames, H)
               /\ BatchHeader(bytes).lastOffsetDelta = H.lastOffsetDelta
<1> DEFINE c == SubSeq(bytes, 13, Len(bytes))
           H == HeaderIn(c)
           fields == Merged(<<>>, BatchNames, H)
           read == ReadFields(BatchFields, c, Empty(0))
           f == [b \in Seq(Byte) |-> DecodedRecord(b)]
<1>1. ContentAt(base, bytes) = BatchOf(read, base, c) /\ BatchHeader(bytes) = ReadFields(BatchFields, c, [value |-> <<>>, at |-> 0]).value
  BY DEF ContentAt, DecodedBatch, BatchHeader, WithHeader
<1>2. Empty(0) = [value |-> <<>>, at |-> 0]
  BY DEF Empty
<1>3. fields.magic = H.magic /\ fields.attributes = H.attributes
      /\ fields.lastOffsetDelta = H.lastOffsetDelta /\ fields.baseTimestamp = H.baseTimestamp
  <2> HIDE DEF H
  <2>1. \A name \in BatchNames : fields[name] = H[name]
    BY MergedHas
  <2> QED
    BY <2>1 DEF BatchNames
<1> HIDE DEF c, H, fields
<1>4. read = [value |-> fields, at |-> 45]
  BY HeaderOf DEF H, fields
<1> HIDE DEF read
<1>5. read.value = fields /\ read.at = 45
  BY <1>4
<1>6. BatchOf(read, base, c) = IF ~(H.magic = 2 /\ H.attributes % 8 = 0) THEN [supported |-> FALSE]
                       ELSE [supported |-> TRUE, baseOffset |-> base,
                             lastOffsetDelta |-> H.lastOffsetDelta,
                             baseTimestamp |-> H.baseTimestamp,
                             records |-> ReadRecords(c, 45, f)]
  <2>1. BatchOf(read, base, c) = IF ~Supported(read.value) THEN [supported |-> FALSE]
            ELSE [supported |-> TRUE, baseOffset |-> base,
                  lastOffsetDelta |-> read.value.lastOffsetDelta,
                  baseTimestamp |-> read.value.baseTimestamp,
                  records |-> ReadRecords(c, read.at, f)]
    BY DEF BatchOf
  <2> HIDE DEF f
  <2>2. Supported(fields) <=> H.magic = 2 /\ H.attributes % 8 = 0
    BY <1>3 DEF Supported
  <2> QED
    BY <1>3, <1>5, <2>1, <2>2
<1>7. BatchHeader(bytes) = fields
  BY <1>1, <1>2, <1>5 DEF read
<1> QED
  BY <1>1, <1>3, <1>6, <1>7 DEF c, H, fields

(***************************************************************************)
(* A batch that produce.ts can write is one that fetch.ts reads back: its  *)
(* length is right, and the offsets, the timestamp and the records that    *)
(* the decoder gets are those that the encoder was given.                  *)
(***************************************************************************)
THEOREM BatchIsReadAsWritten ==
    ASSUME NEW batch, TypedBatch(batch), Writable(batch), NEW base
    PROVE  /\ Framed(EncodedBatch(batch))
           /\ ReadInt(8, EncodedBatch(batch), 0).value = batch.baseOffset
           /\ BatchHeader(EncodedBatch(batch)).lastOffsetDelta = batch.lastOffsetDelta
           /\ ContentAt(base, EncodedBatch(batch)) = DecodedOf(base, batch)
<1> DEFINE b == EncodedBatch(batch)
           c == Checked(batch.partitionLeaderEpoch, BatchBody(batch))
           H == HeaderIn(c)
           f == [bytes \in Seq(Byte) |-> DecodedRecord(bytes)]
           records == [i \in 1 .. Len(batch.records) |-> Decoded(batch.records[i])]
<1>1. PICK l \in Nat : Long(c, 45 + l) /\ Long(b, 57 + l)
  BY EncodedBatchStands
<1>2. /\ ReadInt(8, b, 0).value = batch.baseOffset /\ ReadInt(4, b, 8).value = Len(c)
      /\ SubSeq(b, 13, Len(b)) = c
  BY EncodedBatchStands
<1>3. /\ H.magic = 2 /\ H.attributes = batch.attributes
      /\ H.lastOffsetDelta = batch.lastOffsetDelta
      /\ H.baseTimestamp = batch.baseTimestamp
      /\ ReadRecords(c, 45, f) = records
  BY CheckedRead
<1> HIDE DEF b, c, H, f, records
<1>4. Framed(b)
  <2>1. b \in Seq(Byte) /\ Len(b) = 57 + l /\ Len(c) = 45 + l
    BY <1>1 DEF Long
  <2> QED
    BY <1>2, <2>1 DEF Framed
<1>5. BatchHeader(b).lastOffsetDelta = batch.lastOffsetDelta
  BY <1>2, <1>3, ContentDef DEF H
<1>6. ContentAt(base, b) = DecodedOf(base, batch)
  <2>1. ContentAt(base, b)
           = IF ~(H.magic = 2 /\ H.attributes % 8 = 0) THEN [supported |-> FALSE]
             ELSE [supported |-> TRUE, baseOffset |-> base,
                   lastOffsetDelta |-> H.lastOffsetDelta,
                   baseTimestamp |-> H.baseTimestamp, records |-> ReadRecords(c, 45, f)]
    BY <1>2, ContentDef DEF H, f
  <2>2. DecodedOf(base, batch)
           = IF batch.attributes % 8 # 0 THEN [supported |-> FALSE]
             ELSE [supported |-> TRUE, baseOffset |-> base,
                   lastOffsetDelta |-> batch.lastOffsetDelta,
                   baseTimestamp |-> batch.baseTimestamp, records |-> records]
    BY DEF DecodedOf, records
  <2> QED
    BY <1>3, <2>1, <2>2
<1> QED
  BY <1>2, <1>4, <1>5, <1>6 DEF b

-----------------------------------------------------------------------------
(* A batch that gets its offset.                                           *)

\* n bytes are the same in b and in c.
SameAt(b, o, c, q, n) ==
    /\ o + n <= Len(b) /\ q + n <= Len(c)
    /\ \A i \in 1 .. n : b[o + i] = c[q + i]

\* The same bytes are the same number.
LEMMA SameNumber ==
    ASSUME NEW b \in Seq(Byte), NEW o \in Nat, NEW c \in Seq(Byte), NEW q \in Nat,
           NEW n \in Nat, n > 0, SameAt(b, o, c, q, n)
    PROVE  ReadInt(n, b, o).value = ReadInt(n, c, q).value
<1> USE DEF SameAt
<1>1. PICK N : ReadDigits(N, b, o, n)
  BY ReadIntDef
<1>2. PICK M : ReadDigits(M, c, q, n)
  BY ReadIntDef
<1> DEFINE S == {i \in Nat : i <= n => N[i] = M[i]}
<1>3. 0 \in S
  <2>1. 1 \in 1 .. n
    OBVIOUS
  <2>2. b[o + 1] = c[q + 1]
    BY <2>1
  <2>3. N[0] = (IF b[o + 1] >= 128 THEN -1 ELSE 0) /\ M[0] = IF c[q + 1] >= 128 THEN -1 ELSE 0
    BY <1>1, <1>2 DEF ReadDigits
  <2>4. N[0] = M[0]
    BY <2>2, <2>3
  <2> QED
    BY <2>4
<1>4. ASSUME NEW i \in Nat, i \in S PROVE i + 1 \in S
  <2>1. SUFFICES ASSUME i + 1 <= n PROVE N[i + 1] = M[i + 1]
    OBVIOUS
  <2>2. N[i] = M[i] /\ i + 1 \in 1 .. n /\ (i + 1) - 1 = i
    BY <1>4, <2>1
  <2>3. /\ N[i + 1] = 256 * N[(i + 1) - 1] + b[o + (i + 1)]
        /\ M[i + 1] = 256 * M[(i + 1) - 1] + c[q + (i + 1)]
    BY ZenonT(30), <1>1, <1>2, <2>2 DEF ReadDigits
  <2> QED
    BY ZenonT(30), <2>2, <2>3
<1>5. n \in S
  <2> HIDE DEF S
  <2> QED
    BY <1>3, <1>4, Induct
<1>6. N[n] = M[n]
  BY <1>5
<1> QED
  BY <1>1, <1>2, <1>6 DEF ReadDigits

\* The bytes from one on.
LEMMA FromHere ==
    ASSUME NEW s \in Seq(Byte), NEW h \in Nat, h > 0, h <= Len(s)
    PROVE  LET y == SubSeq(s, h, Len(s))
           IN  /\ y \in Seq(Byte) /\ Len(y) = Len(s) - h + 1
               /\ \A i \in 1 .. Len(s) - h + 1 : y[i] = s[h + i - 1]
  OBVIOUS

\* Bytes written over the first ones leave the others.
LEMMA Overwritten ==
    ASSUME NEW k \in Nat, NEW v, Long(v, k), NEW bytes \in Seq(Byte), k <= Len(bytes)
    PROVE  LET e == v \o SubSeq(bytes, k + 1, Len(bytes))
           IN  /\ e \in Seq(Byte) /\ Len(e) = Len(bytes) /\ Stands(v, e, 0)
               /\ \A i \in k + 1 .. Len(bytes) : e[i] = bytes[i]
               /\ \A h \in Nat : k < h => SubSeq(e, h, Len(e)) = SubSeq(bytes, h, Len(bytes))
<1> DEFINE w == SubSeq(bytes, k + 1, Len(bytes))
           e == v \o w
           n == Len(bytes)
<1>1. v \in Seq(Byte) /\ Len(v) = k
  BY DEF Long
<1>2. w \in Seq(Byte) /\ Len(w) = n - k /\ \A i \in 1 .. n - k : w[i] = bytes[k + i]
  OBVIOUS
<1> HIDE DEF w
<1>3. /\ e \in Seq(Byte) /\ Len(e) = n /\ \A i \in 1 .. k : e[i] = v[i]
      /\ \A i \in k + 1 .. n : e[i] = w[i - k]
  BY <1>1, <1>2
<1> HIDE DEF e
<1>4. \A i \in k + 1 .. n : e[i] = bytes[i]
  BY <1>2, <1>3
<1>5. Stands(v, e, 0)
  BY <1>1, <1>3 DEF Stands
<1>6. ASSUME NEW h \in Nat, k < h PROVE SubSeq(e, h, Len(e)) = SubSeq(bytes, h, n)
  <2> DEFINE x == SubSeq(e, h, n)
             y == SubSeq(bytes, h, n)
  <2>1. CASE h > n
    <3>1. x = <<>> /\ y = <<>>
      BY <1>3, <2>1
    <3> QED
      BY <1>3, <3>1
  <2>2. CASE h <= n
    <3>5. h > 0 /\ h <= Len(bytes) /\ h <= Len(e) /\ n \in Nat
      BY <1>3, <1>6, <2>2
    <3>1. /\ x \in Seq(Byte) /\ Len(x) = n - h + 1 /\ \A i \in 1 .. n - h + 1 : x[i] = e[h + i - 1]
      BY <1>3, <3>5, FromHere
    <3>2. /\ y \in Seq(Byte) /\ Len(y) = n - h + 1 /\ \A i \in 1 .. n - h + 1 : y[i] = bytes[h + i - 1]
      BY <3>5, FromHere
    <3> HIDE DEF x, y, n
    <3>3. \A i \in 1 .. n - h + 1 : x[i] = y[i]
      <4>1. ASSUME NEW i \in 1 .. n - h + 1 PROVE x[i] = y[i]
        <5>1. h + i - 1 \in k + 1 .. n
          BY <1>6, <2>2, <3>5
        <5> QED
          BY <1>4, <3>1, <3>2, <5>1
      <4> QED
        BY <4>1
    <3>4. x = y
      BY <3>1, <3>2, <3>3
    <3> QED
      BY <1>3, <3>4 DEF x, y
  <2> QED
    BY <2>1, <2>2
<1> QED
  BY <1>3, <1>4, <1>5, <1>6 DEF e, w

(***************************************************************************)
(* The broker changes the first 8 bytes of a batch and nothing else: the   *)
(* rest is still read as it was, from the offset that is now there.        *)
(***************************************************************************)
THEOREM OffsetIsGiven ==
    ASSUME NEW first \in Int, Fits(first, 8), NEW bytes, Framed(bytes)
    PROVE  LET given == Entry(first, bytes).bytes
           IN  /\ Framed(given) /\ Len(given) = Len(bytes)
               /\ Content(given) = ContentAt(first, bytes)
               /\ BatchHeader(given) = BatchHeader(bytes)
<1> DEFINE v == Int64(first)
           e == v \o SubSeq(bytes, 8 + 1, Len(bytes))
           n == Len(bytes)
<1>1. Entry(first, bytes).bytes = e
  <2>1. 8 + 1 = 9
    OBVIOUS
  <2> QED
    BY <2>1 DEF Entry
<1>2. Long(v, 8)
  BY IntTypes
<1>3. /\ bytes \in Seq(Byte) /\ n >= 57 /\ ReadInt(4, bytes, 8).value = n - 12
      /\ 8 \in Nat /\ 8 <= n
  BY DEF Framed
<1> HIDE DEF v
<1>4. /\ e \in Seq(Byte) /\ Len(e) = n /\ Stands(v, e, 0)
      /\ \A i \in 8 + 1 .. n : e[i] = bytes[i]
      /\ SubSeq(e, 13, Len(e)) = SubSeq(bytes, 13, n)
  <2>1. /\ e \in Seq(Byte) /\ Len(e) = n /\ Stands(v, e, 0)
        /\ \A i \in 8 + 1 .. n : e[i] = bytes[i]
        /\ \A h \in Nat : 8 < h => SubSeq(e, h, Len(e)) = SubSeq(bytes, h, n)
    BY SMTT(15), <1>2, <1>3, Overwritten
  <2>2. 13 \in Nat /\ 8 < 13
    OBVIOUS
  <2> QED
    BY <2>1, <2>2
<1> HIDE DEF e, n
<1>5. ReadInt(8, e, 0).value = first
  <2>1. 0 \in Nat /\ Stands(Int64(first), e, 0)
    BY <1>4 DEF v
  <2> QED
    BY <1>4, <2>1, IntsRead
<1>6. ReadInt(4, e, 8).value = n - 12
  <2>1. \A i \in 1 .. 4 : e[8 + i] = bytes[8 + i]
    BY <1>3, <1>4 DEF n
  <2>2. 4 \in Nat /\ 4 > 0 /\ 8 + 4 <= Len(e) /\ 8 + 4 <= Len(bytes)
    BY <1>3, <1>4 DEF n
  <2>3. e \in Seq(Byte) /\ bytes \in Seq(Byte) /\ 8 \in Nat
    BY <1>3, <1>4
  <2>4. ReadInt(4, e, 8).value = ReadInt(4, bytes, 8).value
    <3> DEFINE k == 8
               l == 4
    <3>1. SameAt(e, k, bytes, k, l) /\ l \in Nat /\ l > 0 /\ k \in Nat
      BY <2>1, <2>2 DEF SameAt
    <3> HIDE DEF k, l
    <3>2. ReadInt(l, e, k).value = ReadInt(l, bytes, k).value
      BY <2>3, <3>1, SameNumber
    <3> QED
      BY <3>2 DEF k, l
  <2> QED
    BY <1>3, <2>4
<1>7. ContentAt(first, e) = ContentAt(first, bytes) /\ BatchHeader(e) = BatchHeader(bytes)
  BY <1>4 DEF ContentAt, BatchHeader, WithHeader, n
<1>8. Framed(e) /\ Len(e) = Len(bytes)
  <2>1. e \in Seq(Byte) /\ Len(e) = n /\ n >= 57 /\ ReadInt(4, e, 8).value = n - 12
    BY <1>3, <1>4, <1>6
  <2> QED
    BY <2>1 DEF Framed, n
<1>9. Content(e) = ContentAt(first, bytes)
  BY <1>5, <1>7 DEF Content
<1> QED
  BY <1>1, <1>7, <1>8, <1>9

-----------------------------------------------------------------------------
(* The loop over the batches.                                              *)

\* b has bytes from o on, as far as it goes.
Begins(bytes, b, o) ==
    o <= Len(b) /\ \A i \in 1 .. Len(bytes) : o + i <= Len(b) => b[o + i] = bytes[i]

\* The first twelve bytes of a batch are read where it begins.
LEMMA LengthRead ==
    ASSUME NEW bytes, Framed(bytes), NEW b \in Seq(Byte), NEW o \in Nat, Begins(bytes, b, o),
           Len(b) - o >= 12
    PROVE  /\ ReadInt(8, b, o) = [value |-> ReadInt(8, bytes, 0).value, at |-> o + 8]
           /\ ReadInt(4, b, o + 8) = [value |-> Len(bytes) - 12, at |-> o + 12]
<1> DEFINE k == 8
           l == 4
           z == 0
<1>1. bytes \in Seq(Byte) /\ Len(bytes) >= 57 /\ ReadInt(4, bytes, 8).value = Len(bytes) - 12
  BY DEF Framed
<1>2. SameAt(b, o, bytes, z, k) /\ SameAt(b, o + k, bytes, k, l)
  <2>1. o + 8 <= Len(b) /\ (o + 8) + 4 <= Len(b) /\ 0 + 8 <= Len(bytes) /\ 8 + 4 <= Len(bytes)
    BY <1>1
  <2>2. ASSUME NEW i \in 1 .. 8 PROVE b[o + i] = bytes[0 + i]
    <3>1. i \in 1 .. Len(bytes) /\ o + i <= Len(b) /\ 0 + i = i
      BY <1>1
    <3> QED
      BY <3>1 DEF Begins
  <2>3. ASSUME NEW i \in 1 .. 4 PROVE b[(o + 8) + i] = bytes[8 + i]
    <3>1. 8 + i \in 1 .. Len(bytes) /\ o + (8 + i) <= Len(b) /\ o + (8 + i) = (o + 8) + i
      BY <1>1
    <3> QED
      BY <3>1 DEF Begins
  <2> QED
    BY <2>1, <2>2, <2>3 DEF SameAt
<1>3. k \in Nat /\ k > 0 /\ l \in Nat /\ l > 0 /\ z \in Nat /\ o + k \in Nat
  OBVIOUS
<1> HIDE DEF k, l, z
<1>4. ReadInt(k, b, o).value = ReadInt(k, bytes, z).value
  BY <1>1, <1>2, <1>3, SameNumber
<1>5. ReadInt(l, b, o + k).value = ReadInt(l, bytes, k).value
  BY <1>1, <1>2, <1>3, SameNumber
<1>6. /\ ReadInt(k, b, o) = [value |-> ReadInt(k, b, o).value, at |-> o + k]
      /\ ReadInt(l, b, o + k) = [value |-> ReadInt(l, b, o + k).value, at |-> (o + k) + l]
  BY IntAt
<1>7. (o + 8) + 4 = o + 12
  OBVIOUS
<1> QED
  BY <1>1, <1>4, <1>5, <1>6, <1>7 DEF k, l, z

\* Near the end of the buffer the loop is over.
LEMMA NextEnd ==
    ASSUME NEW b \in Seq(Byte), NEW o \in Nat, NEW v, Len(b) - o < 12
    PROVE  NextBatch(b, [value |-> v, at |-> o]) = [value |-> v, at |-> o]
<1>1. ~CanReadBytes(b, o, 12)
  BY DEF CanReadBytes
<1> QED
  BY <1>1 DEF NextBatch

\* A whole batch is decoded.
LEMMA NextWhole ==
    ASSUME NEW bytes, Framed(bytes), NEW b \in Seq(Byte), NEW o \in Nat, Stands(bytes, b, o), NEW v
    PROVE  NextBatch(b, [value |-> v, at |-> o])
              = [value |-> Append(v, Content(bytes)), at |-> o + Len(bytes)]
<1> DEFINE n == Len(bytes)
           x == ReadInt(8, bytes, 0).value
           c == Subarray(b, o + 12, o + 12 + (n - 12))
<1>1. bytes \in Seq(Byte) /\ n \in Nat /\ n >= 57
  BY DEF Framed
<1>2. o + n <= Len(b) /\ \A i \in 1 .. n : b[o + i] = bytes[i]
  BY DEF Stands
<1>3. Begins(bytes, b, o) /\ Len(b) - o >= 12
  BY <1>1, <1>2 DEF Begins
<1>4. /\ ReadInt(8, b, o) = [value |-> x, at |-> o + 8]
      /\ ReadInt(4, b, o + 8) = [value |-> n - 12, at |-> o + 12]
  BY <1>3, LengthRead
<1>5. CanReadBytes(b, o, 12) /\ CanReadBytes(b, o + 12, n - 12) /\ n - 12 # 0
  <2> HIDE DEF n
  <2>1. Len(b) - o >= 12 /\ Len(b) - (o + 12) >= n - 12 /\ n - 12 # 0
    BY <1>1, <1>2
  <2> QED
    BY <2>1 DEF CanReadBytes
<1>6. o + 12 + (n - 12) = o + n
  BY <1>1
<1>7. c = SubSeq(bytes, 13, n)
  <2> DEFINE y == SubSeq(bytes, 13, n)
             w == SubSeq(b, o + 13, o + n)
  <2>1. c = w
    <3>1. o + 12 + 1 = o + 13 /\ (IF o + n < Len(b) THEN o + n ELSE Len(b)) = o + n
      BY <1>1, <1>2
    <3> HIDE DEF n
    <3> QED
      BY <1>6, <3>1 DEF Subarray
  <2>2. y \in Seq(Byte) /\ Len(y) = n - 13 + 1 /\ \A i \in 1 .. n - 13 + 1 : y[i] = bytes[13 + i - 1]
    <3>1. 13 \in Nat /\ 13 > 0 /\ 13 <= Len(bytes)
      BY <1>1
    <3> QED
      BY <1>1, <3>1, FromHere
  <2>3. w \in Seq(Byte) /\ Len(w) = n - 12 /\ \A i \in 1 .. n - 12 : w[i] = b[o + 13 + i - 1]
    BY <1>1, <1>2
  <2> HIDE DEF y, w, n
  <2>4. ASSUME NEW i \in 1 .. n - 12 PROVE y[i] = w[i]
    <3>1. 12 + i \in 1 .. n /\ o + 13 + i - 1 = o + (12 + i) /\ 13 + i - 1 = 12 + i /\ n - 13 + 1 = n - 12
      BY <1>1
    <3> QED
      BY <1>2, <2>2, <2>3, <3>1
  <2>5. n - 13 + 1 = n - 12
    BY <1>1
  <2>6. y = w
    BY <2>2, <2>3, <2>4, <2>5
  <2> QED
    BY <2>1, <2>6 DEF y
<1>8. DecodedBatch(x, c) = Content(bytes)
  BY <1>7 DEF Content, ContentAt
<1> HIDE DEF n, x, c
<1> DEFINE done == [value |-> v, at |-> o]
           base == ReadInt(8, b, done.at)
           length == ReadInt(4, b, base.at)
           next == length.at + length.value
<1>9. base = [value |-> x, at |-> o + 8] /\ base.at = o + 8 /\ base.value = x /\ done.at = o /\ done.value = v
  BY <1>4
<1>10. length = [value |-> n - 12, at |-> o + 12]
  BY <1>4, <1>9
<1>11. length.value = n - 12 /\ length.at = o + 12 /\ next = o + 12 + (n - 12)
  BY <1>10
<1>12. NextBatch(b, done)
          = IF ~CanReadBytes(b, done.at, 12) THEN done
            ELSE IF length.value = 0 THEN [done EXCEPT !.at = length.at]
            ELSE IF ~CanReadBytes(b, length.at, length.value) THEN [done EXCEPT !.at = Len(b)]
            ELSE WithItem(done, [value |-> DecodedBatch(base.value, Subarray(b, length.at, next)),
                                 at |-> next])
  BY DEF NextBatch
<1> HIDE DEF done, base, length, next
<1>13. NextBatch(b, done) = WithItem(done, [value |-> DecodedBatch(x, c), at |-> next])
  BY <1>5, <1>9, <1>11, <1>12 DEF c
<1> QED
  BY <1>6, <1>8, <1>9, <1>11, <1>13 DEF WithItem, done, n

\* A batch that is cut off ends the loop.
LEMMA NextCut ==
    ASSUME NEW bytes, Framed(bytes), NEW b \in Seq(Byte), NEW o \in Nat, Begins(bytes, b, o), NEW v,
           Len(b) < o + Len(bytes)
    PROVE  NextBatch(b, [value |-> v, at |-> o])
              = [value |-> v, at |-> IF Len(b) - o < 12 THEN o ELSE Len(b)]
<1> DEFINE n == Len(bytes)
           done == [value |-> v, at |-> o]
           base == ReadInt(8, b, done.at)
           length == ReadInt(4, b, base.at)
           next == length.at + length.value
<1>1. bytes \in Seq(Byte) /\ n \in Nat /\ n >= 57
  BY DEF Framed
<1>2. CASE Len(b) - o < 12
  BY <1>2, NextEnd
<1>3. CASE Len(b) - o >= 12
  <2>1. /\ ReadInt(8, b, o) = [value |-> ReadInt(8, bytes, 0).value, at |-> o + 8]
        /\ ReadInt(4, b, o + 8) = [value |-> n - 12, at |-> o + 12]
    BY <1>3, LengthRead
  <2>2. CanReadBytes(b, o, 12) /\ ~CanReadBytes(b, o + 12, n - 12) /\ n - 12 # 0
    <3>1. Len(b) < o + n
      OBVIOUS
    <3> HIDE DEF n
    <3>2. Len(b) - o >= 12 /\ ~(Len(b) - (o + 12) >= n - 12) /\ n - 12 # 0
      BY <1>1, <1>3, <3>1
    <3> QED
      BY <3>2 DEF CanReadBytes
  <2>3. base.at = o + 8 /\ done.at = o
    BY <2>1
  <2>4. length.value = n - 12 /\ length.at = o + 12
    <3> HIDE DEF n, base
    <3>1. length = [value |-> n - 12, at |-> o + 12]
      BY <2>1, <2>3
    <3> HIDE DEF length
    <3> QED
      BY <3>1
  <2>5. NextBatch(b, done)
          = IF ~CanReadBytes(b, done.at, 12) THEN done
            ELSE IF length.value = 0 THEN [done EXCEPT !.at = length.at]
            ELSE IF ~CanReadBytes(b, length.at, length.value) THEN [done EXCEPT !.at = Len(b)]
            ELSE WithItem(done, [value |-> DecodedBatch(base.value, Subarray(b, length.at, next)),
                                 at |-> next])
    BY DEF NextBatch
  <2> HIDE DEF base, length, next, done, n
  <2>6. NextBatch(b, done) = [done EXCEPT !.at = Len(b)]
    BY <2>2, <2>3, <2>4, <2>5
  <2>7. [done EXCEPT !.at = Len(b)] = [value |-> v, at |-> Len(b)]
    BY DEF done
  <2>8. ~(Len(b) - o < 12)
    BY <1>3
  <2> QED
    BY <2>6, <2>7, <2>8 DEF done
<1> QED
  BY <1>2, <1>3

\* The first k values.
UpTo(values, k) == [i \in 1 .. k |-> values[i]]

\* One value more.
LEMMA UpToNext ==
    ASSUME NEW n \in Nat, NEW values, NEW k \in 1 .. n
    PROVE  UpTo(values, k) = Append(UpTo(values, k - 1), values[k])
<1> DEFINE X == {values[i] : i \in 1 .. n}
           s == UpTo(values, k - 1)
           t == UpTo(values, k)
           last == values[k]
<1>1. \A i \in 1 .. n : values[i] \in X
  OBVIOUS
<1>2. k - 1 \in Nat /\ k \in Nat /\ last \in X
  OBVIOUS
<1>3. s \in [1 .. k - 1 -> X] /\ t \in [1 .. k -> X]
  <2> HIDE DEF X
  <2> QED
    BY <1>1 DEF UpTo
<1>4. /\ \A i \in 1 .. k - 1 : s[i] = t[i]
      /\ t[k] = last
  BY DEF UpTo
<1> HIDE DEF X, s, t, last
<1>5. s \in Seq(X) /\ t \in Seq(X) /\ Len(s) = k - 1 /\ Len(t) = k
  <2>1. DOMAIN s = 1 .. k - 1 /\ DOMAIN t = 1 .. k
    BY <1>3
  <2>2. s \in Seq(X)
    BY <1>2, <1>3, FunctionIsSeq
  <2>3. t \in Seq(X)
    BY <1>2, <1>3, FunctionIsSeq
  <2> QED
    BY <1>2, <2>1, <2>2, <2>3
<1>6. /\ Append(s, last) \in Seq(X) /\ Len(Append(s, last)) = k
      /\ \A i \in 1 .. k - 1 : Append(s, last)[i] = s[i]
      /\ Append(s, last)[k] = last
  BY <1>2, <1>5, AppendProperties
<1>7. \A i \in 1 .. k : Append(s, last)[i] = t[i]
  BY <1>2, <1>4, <1>6
<1>8. t = Append(s, last)
  BY <1>5, <1>6, <1>7, SeqEqual
<1> QED
  BY <1>8 DEF s, t, last

\* The turns of the loop over b.
TurnByTurn(f, n, b) ==
    /\ n = Len(b) \div 12 /\ f = [i \in 0 .. n |-> f[i]] /\ f[0] = Empty(0)
    /\ \A i \in 1 .. n : f[i] = NextBatch(b, f[i - 1])

\* What the loop over the batches returns.
LEMMA TurnsDef ==
    ASSUME NEW b, NEW n \in Nat, NEW f, TurnByTurn(f, n, b)
    PROVE  DecodedRecordBatch(b) = f[n].value
<1> USE DEF TurnByTurn
<1> DEFINE next(done) == NextBatch(b, done)
           eq(g) == g = [i \in 0 .. Len(b) \div 12 |-> IF i = 0 THEN Empty(0) ELSE next(g[i - 1])]
           read == CHOOSE g : eq(g)
<1>1. \A i \in 1 .. n : f[i] = next(f[i - 1])
  OBVIOUS
<1>2. DecodedRecordBatch(b) = read[n].value
  BY DEF DecodedRecordBatch
<1> HIDE DEF next
<1>3. eq(f)
  <2> DEFINE e(i) == IF i = 0 THEN Empty(0) ELSE next(f[i - 1])
  <2>1. ASSUME NEW i \in 0 .. n PROVE f[i] = e(i)
    <3>1. CASE i = 0
      BY <3>1
    <3>2. CASE i # 0
      <4>1. i \in 1 .. n
        BY <3>2
      <4> QED
        BY <1>1, <3>2, <4>1
    <3> QED
      BY <3>1, <3>2
  <2> HIDE DEF e
  <2>2. [i \in 0 .. n |-> f[i]] = [i \in 0 .. n |-> e(i)]
    BY <2>1
  <2>3. f = [i \in 0 .. n |-> e(i)] /\ n = Len(b) \div 12
    BY <2>2
  <2> QED
    BY <2>3 DEF e
<1>4. eq(read)
  <2> HIDE DEF eq
  <2> QED
    BY <1>3
<1> HIDE DEF read
<1>5. n = Len(b) \div 12 /\ f[0] = Empty(0)
  OBVIOUS
<1>10. read[0] = Empty(0) /\ \A i \in 0 .. n : i # 0 => read[i] = next(read[i - 1])
  <2>1. read = [i \in 0 .. n |-> IF i = 0 THEN Empty(0) ELSE next(read[i - 1])]
    BY <1>4, <1>5
  <2> HIDE DEF eq, TurnByTurn
  <2>2. 0 \in 0 .. n
    OBVIOUS
  <2> QED
    BY <2>1, <2>2
<1> HIDE DEF eq, TurnByTurn
<1>6. ASSUME NEW i \in 1 .. n PROVE read[i] = next(read[i - 1])
  <2>1. i \in 0 .. n /\ i # 0
    OBVIOUS
  <2> QED
    BY <1>10, <2>1
<1> DEFINE S == {k \in Nat : k <= n => read[k] = f[k]}
<1>7. 0 \in S
  BY <1>5, <1>10
<1>8. ASSUME NEW k \in Nat, k \in S PROVE k + 1 \in S
  <2> SUFFICES ASSUME k + 1 <= n PROVE read[k + 1] = f[k + 1]
    OBVIOUS
  <2>1. k + 1 \in 1 .. n /\ (k + 1) - 1 = k /\ read[k] = f[k]
    BY <1>8
  <2> QED
    BY <1>1, <1>6, <2>1
<1>9. n \in S
  <2> HIDE DEF S
  <2> QED
    BY <1>7, <1>8, Induct
<1> QED
  BY <1>2, <1>9

-----------------------------------------------------------------------------
(* Batches in a row, of which the end may be cut off.                      *)

\* The batches end at A.
Chain(A, n, bs) ==
    /\ A \in [0 .. n -> Nat] /\ A[0] = 0
    /\ \A i \in 1 .. n : Framed(bs[i]) /\ A[i] = A[i - 1] + Len(bs[i])

\* h of them are in the first l bytes.
Whole(h, l, A, n) == h \in 0 .. n /\ A[h] <= l /\ (h < n => l < A[h + 1])

\* The header of a batch alone is 57 bytes.
LEMMA FramedLength == \A bytes : Framed(bytes) => Len(bytes) \in Nat /\ Len(bytes) >= 57
  BY DEF Framed

\* The batches of a buffer end ever later, each at least 12 bytes after the last.
LEMMA ChainGrows ==
    ASSUME NEW n \in Nat, NEW bs, NEW A, Chain(A, n, bs)
    PROVE  \A k \in 0 .. n : 12 * k <= A[k] /\ \A i \in 0 .. k : A[i] <= A[k]
<1> DEFINE S == {k \in Nat : k <= n => 12 * k <= A[k] /\ \A i \in 0 .. k : A[i] <= A[k]}
<1>1. 0 \in S
  BY DEF Chain
<1>2. ASSUME NEW k \in Nat, k \in S PROVE k + 1 \in S
  <2> SUFFICES ASSUME k + 1 <= n
               PROVE  12 * (k + 1) <= A[k + 1] /\ \A i \in 0 .. k + 1 : A[i] <= A[k + 1]
    OBVIOUS
  <2>1. k + 1 \in 1 .. n /\ (k + 1) - 1 = k /\ k \in 0 .. n
    BY <1>2
  <2>2. A[k + 1] = A[k] + Len(bs[k + 1]) /\ Framed(bs[k + 1]) /\ A[k] \in Nat
    BY <2>1 DEF Chain
  <2>3. Len(bs[k + 1]) \in Nat /\ Len(bs[k + 1]) >= 57
    BY <2>2, FramedLength
  <2>4. 12 * k <= A[k] /\ \A i \in 0 .. k : A[i] <= A[k]
    BY <1>2
  <2>5. \A i \in 0 .. k + 1 : i \in 0 .. k \/ i = k + 1
    OBVIOUS
  <2>6. \A i \in 0 .. k : A[i] \in Nat
    BY <2>1 DEF Chain
  <2> QED
    BY SMTT(15), <2>2, <2>3, <2>4, <2>5, <2>6
<1>3. \A k \in Nat : k \in S
  <2> HIDE DEF S
  <2> QED
    BY <1>1, <1>2, Induct
<1> QED
  BY <1>3

\* Of any prefix of a buffer, some number of batches is whole and the next is not.
LEMMA WholeOnes ==
    ASSUME NEW n \in Nat, NEW bs, NEW A, Chain(A, n, bs), NEW l \in Nat
    PROVE  \E h : Whole(h, l, A, n)
<1> DEFINE S == {k \in Nat : k <= n => \E h : Whole(h, l, A, k)}
<1>1. 0 \in S
  <2>1. Whole(0, l, A, 0)
    BY DEF Whole, Chain
  <2> QED
    BY <2>1
<1>2. ASSUME NEW k \in Nat, k \in S PROVE k + 1 \in S
  <2> SUFFICES ASSUME k + 1 <= n PROVE \E h : Whole(h, l, A, k + 1)
    OBVIOUS
  <2>1. PICK h : Whole(h, l, A, k)
    BY <1>2
  <2>2. A[k + 1] \in Nat
    BY DEF Chain
  <2>3. CASE h < k
    <3>1. Whole(h, l, A, k + 1)
      BY <2>1, <2>3 DEF Whole
    <3> QED
      BY <3>1
  <2>4. CASE ~(h < k) /\ A[k + 1] <= l
    <3>1. Whole(k + 1, l, A, k + 1)
      BY <2>4 DEF Whole
    <3> QED
      BY <3>1
  <2>5. CASE ~(h < k) /\ ~(A[k + 1] <= l)
    <3>1. h = k
      BY <2>1, <2>5 DEF Whole
    <3>2. Whole(k, l, A, k + 1)
      BY <2>1, <2>2, <2>5, <3>1 DEF Whole
    <3> QED
      BY <3>2
  <2> QED
    BY <2>3, <2>4, <2>5
<1>3. n \in S
  <2> HIDE DEF S
  <2> QED
    BY <1>1, <1>2, Induct
<1> QED
  BY <1>3

\* b has the batches bs one after the other, as far as it goes.
InBuffer(b, A, n, bs) ==
    /\ Len(b) <= A[n]
    /\ \A i \in 1 .. n : A[i - 1] <= Len(b) => Begins(bs[i], b, A[i - 1])

\* What the batches say.
Contents(bs, h) == [i \in 1 .. h |-> Content(bs[i])]

\* The loop reads the batches that are whole, and no more.
LEMMA LoopReads ==
    ASSUME NEW n \in Nat, NEW bs, NEW A, Chain(A, n, bs), NEW b \in Seq(Byte), InBuffer(b, A, n, bs),
           NEW h, Whole(h, Len(b), A, n)
    PROVE  DecodedRecordBatch(b) = Contents(bs, h)
<1> DEFINE l == Len(b)
           N == l \div 12
           C == [i \in 1 .. n |-> Content(bs[i])]
           z == IF l - A[h] < 12 THEN A[h] ELSE l
           v == UpTo(C, h)
           state(i) == IF i <= h THEN [value |-> UpTo(C, i), at |-> A[i]]
                                 ELSE [value |-> v, at |-> z]
           f == [i \in 0 .. N |-> state(i)]
<1>1. h \in 0 .. n /\ A[h] <= l /\ (h < n => l < A[h + 1]) /\ l \in Nat
  BY DEF Whole
<1>2. /\ \A k \in 0 .. n : A[k] \in Nat /\ 12 * k <= A[k]
      /\ \A i \in 0 .. h : A[i] <= l
  <2>1. 12 * h <= A[h] /\ \A i \in 0 .. h : A[i] <= A[h]
    BY <1>1, ChainGrows
  <2>2. \A k \in 0 .. n : A[k] \in Nat
    BY DEF Chain
  <2>3. \A k \in 0 .. n : 12 * k <= A[k]
    BY ChainGrows
  <2>4. ASSUME NEW i \in 0 .. h PROVE A[i] <= l
    <3>1. A[i] <= A[h] /\ A[i] \in Nat /\ A[h] \in Nat
      BY <1>1, <2>1, <2>2
    <3> QED
      BY <1>1, <3>1
  <2> QED
    BY <2>2, <2>3, <2>4
<1>3. N \in Nat /\ h <= N
  <2>1. 12 * h <= l /\ h \in Nat
    <3>1. 12 * h <= A[h] /\ A[h] \in Nat
      BY <1>1, <1>2
    <3> QED
      BY <1>1, <3>1
  <2> HIDE DEF l
  <2> QED
    BY <1>1, <2>1
<1>4. \A i \in 1 .. n : Framed(bs[i]) /\ A[i] = A[i - 1] + Len(bs[i])
  BY DEF Chain
<1>5. l <= A[n] /\ \A i \in 1 .. n : A[i - 1] <= l => Begins(bs[i], b, A[i - 1])
  BY DEF InBuffer
<1>6. \A i \in 1 .. n : C[i] = Content(bs[i])
  OBVIOUS
<1>7. UpTo(C, 0) = <<>> /\ A[0] = 0
  BY DEF UpTo, Chain
<1>8. Contents(bs, h) = v
  <2>1. v = [i \in 1 .. h |-> C[i]]
    BY DEF UpTo
  <2> HIDE DEF C
  <2>2. \A i \in 1 .. h : C[i] = Content(bs[i])
    BY <1>1, <1>6
  <2> QED
    BY <2>1, <2>2 DEF Contents
<1> HIDE DEF C, N
<1>9. ASSUME NEW i \in 1 .. N, i <= h PROVE state(i) = NextBatch(b, state(i - 1))
  <2>1. i \in 1 .. n /\ i - 1 \in 0 .. n /\ i \in 0 .. h /\ i - 1 \in 0 .. h /\ i - 1 <= h
    BY <1>1, <1>9
  <2>2. /\ Framed(bs[i]) /\ A[i] = A[i - 1] + Len(bs[i]) /\ A[i] <= l /\ A[i - 1] <= l
        /\ A[i - 1] \in Nat /\ Begins(bs[i], b, A[i - 1])
    BY <1>2, <1>4, <1>5, <2>1
  <2>3. Stands(bs[i], b, A[i - 1])
    <3>1. \A k \in 1 .. Len(bs[i]) : A[i - 1] + k <= l
      <4>1. Len(bs[i]) \in Nat
        BY <2>2, FramedLength
      <4> QED
        BY <1>1, <2>2, <4>1
    <3> QED
      BY <2>2, <3>1 DEF Begins, Stands
  <2>4. NextBatch(b, [value |-> UpTo(C, i - 1), at |-> A[i - 1]])
           = [value |-> Append(UpTo(C, i - 1), Content(bs[i])), at |-> A[i - 1] + Len(bs[i])]
    BY <2>2, <2>3, NextWhole
  <2>5. Append(UpTo(C, i - 1), Content(bs[i])) = UpTo(C, i)
    BY <1>6, <2>1, UpToNext
  <2>6. /\ state(i - 1) = [value |-> UpTo(C, i - 1), at |-> A[i - 1]]
        /\ state(i) = [value |-> UpTo(C, i), at |-> A[i]]
    BY <1>9, <2>1
  <2> QED
    BY <2>2, <2>4, <2>5, <2>6
<1>10. z \in Nat /\ l - z < 12
  BY <1>1, <1>2
<1>11. ASSUME NEW i \in 1 .. N, i = h + 1 PROVE state(i) = NextBatch(b, state(i - 1))
  <2>1. i - 1 = h /\ ~(i <= h) /\ h <= h
    BY <1>1, <1>11
  <2>2. state(i - 1) = [value |-> v, at |-> A[h]] /\ state(i) = [value |-> v, at |-> z]
    BY <2>1
  <2>3. CASE h = n
    <3>1. l - A[h] < 12 /\ A[h] \in Nat
      BY <1>1, <1>2, <1>5, <2>3
    <3>2. NextBatch(b, [value |-> v, at |-> A[h]]) = [value |-> v, at |-> A[h]]
      BY <3>1, NextEnd
    <3> QED
      BY <2>2, <3>1, <3>2
  <2>4. CASE h # n
    <3>1. i \in 1 .. n /\ h < n /\ h \in 0 .. n
      BY <1>1, <1>11, <2>4
    <3>2. /\ Framed(bs[i]) /\ l < A[h] + Len(bs[i]) /\ A[h] \in Nat /\ Begins(bs[i], b, A[h])
      BY <1>1, <1>2, <1>4, <1>5, <1>11, <2>1, <3>1
    <3>3. NextBatch(b, [value |-> v, at |-> A[h]])
             = [value |-> v, at |-> IF l - A[h] < 12 THEN A[h] ELSE l]
      BY <3>2, NextCut
    <3> QED
      BY <2>2, <3>3
  <2> QED
    BY <2>3, <2>4
<1>12. ASSUME NEW i \in 1 .. N, i > h + 1 PROVE state(i) = NextBatch(b, state(i - 1))
  <2>1. ~(i <= h) /\ ~(i - 1 <= h)
    BY <1>1, <1>12
  <2>2. state(i - 1) = [value |-> v, at |-> z] /\ state(i) = [value |-> v, at |-> z]
    BY <2>1
  <2> HIDE DEF z, v
  <2>3. NextBatch(b, [value |-> v, at |-> z]) = [value |-> v, at |-> z]
    BY <1>10, NextEnd
  <2> QED
    BY <2>2, <2>3
<1>13. state(0) = Empty(0) /\ state(N).value = v
  <2>1. state(0) = Empty(0)
    <3>1. 0 <= h
      BY <1>1
    <3> QED
      BY <1>7, <3>1 DEF Empty
  <2>2. CASE N <= h
    <3>1. N = h
      BY <1>1, <1>3, <2>2
    <3> QED
      BY <2>1, <3>1
  <2>3. CASE ~(N <= h)
    BY <2>1, <2>3
  <2> QED
    BY <2>2, <2>3
<1> HIDE DEF state, v, z
<1>14. ASSUME NEW i \in 1 .. N PROVE state(i) = NextBatch(b, state(i - 1))
  <2>1. i <= h \/ i = h + 1 \/ i > h + 1
    BY <1>1, <1>3
  <2> QED
    BY <1>9, <1>11, <1>12, <2>1
<1>15. TurnByTurn(f, N, b)
  <2>1. \A i \in 0 .. N : f[i] = state(i)
    OBVIOUS
  <2>2. \A i \in 1 .. N : i \in 0 .. N /\ i - 1 \in 0 .. N
    BY <1>3
  <2>3. 0 \in 0 .. N
    BY <1>3
  <2>4. f = [i \in 0 .. N |-> f[i]]
    OBVIOUS
  <2> HIDE DEF f
  <2>5. f[0] = Empty(0) /\ \A i \in 1 .. N : f[i] = NextBatch(b, f[i - 1])
    BY <1>13, <1>14, <2>1, <2>2, <2>3
  <2> QED
    BY <2>4, <2>5 DEF TurnByTurn, N
<1>16. DecodedRecordBatch(b) = f[N].value
  <2> HIDE DEF f
  <2> QED
    BY <1>3, <1>15, TurnsDef
<1>17. f[N] = state(N)
  BY <1>3
<1> QED
  BY <1>8, <1>13, <1>16, <1>17

(***************************************************************************)
(* A buffer that holds batches one after the other and that the limit on   *)
(* bytes has cut anywhere is read as the batches that are whole in it:     *)
(* fetch.ts:112 finds each by the length of the one before, and leaves the *)
(* one that is cut off for the next fetch, whatever is left of it.         *)
(***************************************************************************)
THEOREM CutBatchesAreRead ==
    ASSUME NEW bs \in Seq(Seq(Byte)), \A i \in 1 .. Len(bs) : Framed(bs[i]),
           NEW limit \in Nat
    PROVE  \E A : /\ Chain(A, Len(bs), bs) /\ A[Len(bs)] = Len(FlattenSeq(bs))
                  /\ \E h : /\ Whole(h, Len(Subarray(FlattenSeq(bs), 0, limit)), A, Len(bs))
                            /\ DecodedRecordBatch(Subarray(FlattenSeq(bs), 0, limit))
                                  = Contents(bs, h)
<1> DEFINE n == Len(bs)
           all == FlattenSeq(bs)
           b == Subarray(all, 0, limit)
<1>1. n \in Nat /\ \A i \in 1 .. n : bs[i] \in Seq(Byte)
  OBVIOUS
<1>2. all \in Seq(Byte)
  <2>1. PICK F \in [0 .. n -> Seq(Byte)] : all = F[n]
    BY FlattenSeqDef
  <2>2. n \in 0 .. n
    BY <1>1
  <2> HIDE DEF all, n
  <2> QED
    BY <2>1, <2>2
<1>3. PICK A : Laid(A, bs, all, 0)
  <2>1. Stands(all, all, 0)
    BY <1>2, StandsInItself
  <2>2. 0 \in Nat
    OBVIOUS
  <2> QED
    BY <1>2, <2>1, <2>2, ItemsStand
<1>4. /\ A \in [0 .. n -> Nat] /\ A[0] = 0 /\ A[n] = Len(all)
      /\ \A i \in 1 .. n : A[i] = A[i - 1] + Len(bs[i]) /\ Stands(bs[i], all, A[i - 1])
  <2>1. /\ A \in [0 .. n -> Nat] /\ A[0] = 0 /\ A[n] = 0 + Len(all)
        /\ \A i \in 1 .. n : A[i] = A[i - 1] + Len(bs[i]) /\ Stands(bs[i], all, A[i - 1])
    BY <1>3 DEF Laid
  <2>2. Len(all) \in Nat
    BY <1>2
  <2> HIDE DEF all, n
  <2>3. A[n] = Len(all)
    BY <2>1, <2>2
  <2> QED
    BY <2>1, <2>3
<1> HIDE DEF all
<1>5. b \in Seq(Byte) /\ Len(b) <= Len(all) /\ \A i \in 1 .. Len(b) : b[i] = all[i]
  <2> DEFINE k == IF limit < Len(all) THEN limit ELSE Len(all)
  <2>1. k \in 0 .. Len(all) /\ b = SubSeq(all, 1, k)
    BY <1>2 DEF Subarray
  <2> HIDE DEF k, b
  <2>2. b \in Seq(Byte) /\ Len(b) = k /\ \A i \in 1 .. k : b[i] = all[i]
    BY <1>2, <2>1
  <2> QED
    BY <1>2, <2>1, <2>2
<1>6. Chain(A, n, bs)
  BY <1>4 DEF Chain
<1> HIDE DEF b, n
<1>7. InBuffer(b, A, n, bs)
  <2>1. ASSUME NEW i \in 1 .. n, A[i - 1] <= Len(b) PROVE Begins(bs[i], b, A[i - 1])
    <3>1. i - 1 \in 0 .. n /\ A[i - 1] \in Nat /\ Stands(bs[i], all, A[i - 1])
      BY <1>1, <1>4
    <3>2. ASSUME NEW k \in 1 .. Len(bs[i]), A[i - 1] + k <= Len(b) PROVE b[A[i - 1] + k] = bs[i][k]
      <4>1. A[i - 1] + k \in 1 .. Len(b)
        BY <1>1, <1>5, <3>1, <3>2
      <4>2. all[A[i - 1] + k] = bs[i][k]
        BY <3>1 DEF Stands
      <4> QED
        BY <1>5, <4>1, <4>2
    <3> QED
      BY <2>1, <3>2 DEF Begins
  <2> QED
    BY <1>4, <1>5, <2>1 DEF InBuffer
<1>8. PICK h : Whole(h, Len(b), A, n)
  <2>1. Len(b) \in Nat
    BY <1>5
  <2> QED
    BY <1>1, <1>6, <2>1, WholeOnes
<1>9. DecodedRecordBatch(b) = Contents(bs, h)
  BY <1>1, <1>5, <1>6, <1>7, <1>8, LoopReads
<1> QED
  BY <1>4, <1>6, <1>8, <1>9 DEF b, n, all

-----------------------------------------------------------------------------
(* Parts of a message.                                                     *)

\* A field more.
LEMMA WithHas ==
    \A done, name, part :
        LET r == With(done, name, part)
        IN  /\ r = [value |-> r.value, at |-> part.at] /\ r.at = part.at
            /\ DOMAIN r.value = DOMAIN done.value \cup {name}
            /\ r.value[name] = part.value
            /\ \A f \in DOMAIN done.value : f # name => r.value[f] = done.value[f]
  BY DEF With

\* A length that was written with one added is read with one taken off.
LEMMA DecrementedIs ==
    \A v \in Int : \A at : Decremented([value |-> v, at |-> at]) = [value |-> v - 1, at |-> at]
  BY DEF Decremented

\* One field is read.
LEMMA OneField ==
    ASSUME NEW name, NEW type, NEW b, NEW before
    PROVE  ReadFields(<<<<name, type>>>>, b, before) = With(before, name, Read(type, b, before.at))
<1> DEFINE fields == <<<<name, type>>>>
           after == With(before, name, Read(type, b, before.at))
           n == 1
           f == [i \in 0 .. n |-> IF i = 0 THEN before ELSE after]
<1>1. Len(fields) = n /\ fields[1][1] = name /\ fields[1][2] = type
  OBVIOUS
<1>2. n \in Nat /\ 0 \in 0 .. n /\ n \in 0 .. n /\ n # 0 /\ \A i \in 1 .. n : i = 1 /\ i - 1 = 0 /\ i \in 0 .. n
  OBVIOUS
<1> HIDE DEF fields, after
<1>3. f = [i \in 0 .. n |-> f[i]] /\ f[0] = before /\ f[n] = after /\ \A i \in 0 .. n : i # 0 => f[i] = after
  BY <1>2
<1> HIDE DEF f
<1>4. ASSUME NEW i \in 1 .. n
      PROVE  f[i] = With(f[i - 1], fields[i][1], Read(fields[i][2], b, f[i - 1].at))
  <2>1. i = 1 /\ i - 1 = 0 /\ f[i] = after /\ f[i - 1] = before
    BY <1>2, <1>3
  <2> QED
    BY <1>1, <2>1 DEF after
<1> HIDE DEF n
<1>5. FieldByField(f, n, fields, b, before)
  BY <1>1, <1>3, <1>4 DEF FieldByField
<1>6. ReadFields(fields, b, before) = f[n]
  BY <1>2, <1>5, FieldsRead
<1> QED
  BY <1>3, <1>6 DEF fields, after

\* No items are written as a count of one byte or so.
LEMMA NoItems ==
    ASSUME NEW b \in Seq(Byte), NEW o \in Nat, Stands(UVarInt(0), b, o), NEW item
    PROVE  ReadCompactArray(b, o, item) = [value |-> <<>>, at |-> o + Len(UVarInt(0))]
<1>1. 0 \in Nat
  OBVIOUS
<1>2. ReadUVarInt(b, o) = [value |-> 0, at |-> o + Len(UVarInt(0))]
  BY <1>1, UVarIntRead
<1> DEFINE at == o + Len(UVarInt(0))
           count == Decremented(ReadUVarInt(b, o))
<1> HIDE DEF at
<1>3. count = [value |-> -1, at |-> at]
  BY <1>2 DEF Decremented, at
<1>4. ReadCompactArray(b, o, item) = ReadItems(count, item)
  BY DEF ReadCompactArray
<1> HIDE DEF count
<1>5. ReadItems(count, item) = Empty(at)
  BY <1>3 DEF ReadItems
<1> QED
  BY <1>4, <1>5 DEF Empty, at

\* Each item is read to its end.
Passes(item, items, b) ==
    \A i \in 1 .. Len(items), at \in Nat : Stands(items[i], b, at) =>
        item[at] = [value |-> item[at].value, at |-> at + Len(items[i])]

\* The bytes of a sequence of sequences.
LEMMA FlattenSeqType == ASSUME NEW items \in Seq(Seq(Byte)) PROVE FlattenSeq(items) \in Seq(Byte)
<1> DEFINE n == Len(items)
<1>1. PICK F \in [0 .. n -> Seq(Byte)] : FlattenSeq(items) = F[n]
  BY FlattenSeqDef
<1>2. n \in 0 .. n
  OBVIOUS
<1> HIDE DEF n
<1> QED
  BY <1>1, <1>2

\* An array of bytes is bytes.
LEMMA CompactArrayType ==
    ASSUME NEW items \in Seq(Seq(Byte)) PROVE CompactArray(items) \in Seq(Byte)
<1>1. Len(items) + 1 \in Nat
  OBVIOUS
<1>2. UVarInt(Len(items) + 1) \in Seq(Byte) /\ FlattenSeq(items) \in Seq(Byte)
  BY <1>1, UVarIntType, FlattenSeqType
<1> QED
  BY <1>2 DEF CompactArray

\* The array at o is read item by item.
ReadCompactly(A, items, b, o, item) ==
    /\ Laid(A, items, b, o + Len(UVarInt(Len(items) + 1)))
    /\ ReadCompactArray(b, o, item)
          = [value |-> [i \in 1 .. Len(items) |-> item[A[i - 1]].value],
             at |-> o + Len(CompactArray(items))]

\* The items of an array are read one after the other.
LEMMA CompactArrayRead ==
    ASSUME NEW items \in Seq(Seq(Byte)), NEW b \in Seq(Byte), NEW o \in Nat,
           Stands(CompactArray(items), b, o), NEW item, Passes(item, items, b)
    PROVE  \E A : ReadCompactly(A, items, b, o, item)
<1> DEFINE n == Len(items)
           l == UVarInt(n + 1)
           flat == FlattenSeq(items)
<1>1. n \in Nat /\ n + 1 \in Nat
  OBVIOUS
<1>2. CompactArray(items) = l \o flat
  BY DEF CompactArray
<1>3. l \in Seq(Byte) /\ flat \in Seq(Byte)
  BY <1>1, UVarIntType, FlattenSeqType
<1>4. Stands(l, b, o) /\ Stands(flat, b, o + Len(l)) /\ o + Len(l) \in Nat
  <2> HIDE DEF l, flat
  <2>1. Stands(l, b, o) /\ Stands(flat, b, o + Len(l))
    BY <1>2, <1>3, StandsApart
  <2> QED
    BY <1>3, <2>1
<1>5. ReadUVarInt(b, o) = [value |-> n + 1, at |-> o + Len(l)]
  BY <1>1, <1>4, UVarIntRead
<1>6. Decremented(ReadUVarInt(b, o)) = [value |-> n, at |-> o + Len(l)]
  <2> HIDE DEF l, n
  <2>1. n + 1 - 1 = n /\ n + 1 \in Int
    BY <1>1
  <2> DEFINE k == n + 1
             at == o + Len(l)
  <2>4. k \in Int /\ k - 1 = n
    BY <1>1, <2>1
  <2>5. ReadUVarInt(b, o) = [value |-> k, at |-> at]
    BY <1>5
  <2>2. k \in Int /\ k - 1 = n /\ ReadUVarInt(b, o) = [value |-> k, at |-> at]
    BY <2>4, <2>5
  <2> HIDE DEF k, at
  <2>3. Decremented([value |-> k, at |-> at]) = [value |-> k - 1, at |-> at]
    BY <2>2, DecrementedIs
  <2> QED
    BY <2>2, <2>3 DEF at
<1>7. PICK A : Laid(A, items, b, o + Len(l))
  <2> HIDE DEF l
  <2> QED
    BY <1>3, <1>4, ItemsStand
<1> DEFINE values == [i \in 1 .. n |-> item[A[i - 1]].value]
<1>8. /\ A \in [0 .. n -> Nat] /\ A[0] = o + Len(l) /\ A[n] = o + Len(l) + Len(flat)
      /\ \A i \in 1 .. n : A[i] = A[i - 1] + Len(items[i]) /\ Stands(items[i], b, A[i - 1])
  BY <1>7 DEF Laid
<1> HIDE DEF l, flat, n
<1>9. ItemByItem(A, n, values, item)
  <2>1. values = [i \in 1 .. n |-> values[i]]
    OBVIOUS
  <2>2. \A i \in 1 .. n : values[i] = item[A[i - 1]].value
    OBVIOUS
  <2> HIDE DEF values
  <2>3. ASSUME NEW i \in 1 .. n PROVE item[A[i - 1]] = [value |-> values[i], at |-> A[i]]
    <3>1. i - 1 \in 0 .. n
      BY <1>1
    <3>2. A[i - 1] \in Nat /\ Stands(items[i], b, A[i - 1]) /\ A[i] = A[i - 1] + Len(items[i])
      BY <1>8, <3>1
    <3>3. item[A[i - 1]] = [value |-> item[A[i - 1]].value, at |-> A[i - 1] + Len(items[i])]
      BY <3>2 DEF Passes, n
    <3> QED
      BY <2>2, <3>2, <3>3
  <2> QED
    BY <1>8, <2>1, <2>3 DEF ItemByItem
<1> HIDE DEF values
<1>10. ReadItems([value |-> n, at |-> A[0]], item) = [value |-> values, at |-> A[n]]
  BY <1>1, <1>9, ItemsRead
<1>11. ReadCompactArray(b, o, item) = [value |-> values, at |-> A[n]]
  BY <1>6, <1>8, <1>10 DEF ReadCompactArray
<1>12. A[n] = o + Len(CompactArray(items))
  BY <1>2, <1>3, <1>8
<1> QED
  BY <1>7, <1>11, <1>12 DEF ReadCompactly, values, n, l

\* An array of one item.
LEMMA OneItem ==
    ASSUME NEW t \in Seq(Byte)
    PROVE  CompactArray(<<t>>) = UVarInt(2) \o t
<1> DEFINE items == <<t>>
           n == 1
<1>1. items \in Seq(Seq(Byte)) /\ Len(items) = n /\ items[1] = t
  OBVIOUS
<1>2. n + 1 = 2 /\ n \in Nat /\ n = 1 /\ 1 \in 1 .. n /\ 1 - 1 = 0
  OBVIOUS
<1> HIDE DEF items, n
<1>3. PICK F \in [0 .. n -> Seq(Byte)] :
          /\ F[0] = <<>> /\ \A i \in 1 .. n : F[i] = F[i - 1] \o items[i]
          /\ FlattenSeq(items) = F[n]
  BY <1>1, FlattenSeqDef
<1>4. F[n] = F[0] \o items[1]
  BY <1>2, <1>3
<1>5. FlattenSeq(items) = t
  <2>1. FlattenSeq(items) = <<>> \o t
    BY <1>1, <1>3, <1>4
  <2> QED
    BY <2>1
<1> QED
  BY <1>1, <1>2, <1>5 DEF CompactArray, items

\* The item is read.
LEMMA OneItemRead ==
    ASSUME NEW t \in Seq(Byte), NEW b \in Seq(Byte), NEW o \in Nat, Stands(UVarInt(2) \o t, b, o),
           NEW item, NEW x, NEW y \in Nat,
           item[o + Len(UVarInt(2))] = [value |-> x, at |-> y]
    PROVE  /\ Stands(t, b, o + Len(UVarInt(2)))
           /\ ReadCompactArray(b, o, item).value[1] = x
<1> DEFINE l == UVarInt(2)
           n == 1
           A == [i \in 0 .. n |-> IF i = 0 THEN o + Len(l) ELSE y]
           values == [i \in 1 .. n |-> x]
<1>1. l \in Seq(Byte)
  <2>1. 2 \in Nat
    OBVIOUS
  <2> QED
    BY <2>1, UVarIntType
<1>2. Stands(l, b, o) /\ Stands(t, b, o + Len(l)) /\ o + Len(l) \in Nat
  <2> HIDE DEF l
  <2>1. Stands(l, b, o) /\ Stands(t, b, o + Len(l))
    <3>1. Stands(l \o t, b, o)
      BY DEF l
    <3> QED
      BY <1>1, <3>1, StandsApart
  <2> QED
    BY <1>1, <2>1
<1>3. ReadUVarInt(b, o) = [value |-> 2, at |-> o + Len(l)]
  <2>1. 2 \in Nat
    OBVIOUS
  <2> QED
    BY <1>2, <2>1, UVarIntRead
<1>4. Decremented(ReadUVarInt(b, o)) = [value |-> n, at |-> o + Len(l)]
  <2> HIDE DEF l
  <2> QED
    BY <1>3 DEF Decremented
<1>5. item[o + Len(l)] = [value |-> x, at |-> y]
  OBVIOUS
<1> HIDE DEF l
<1>6. /\ A \in [0 .. n -> Nat] /\ A[0] = o + Len(l) /\ A[n] = y
      /\ values = [i \in 1 .. n |-> values[i]] /\ values[1] = x
      /\ \A i \in 1 .. n : i = 1 /\ i - 1 = 0 /\ A[i] = y /\ values[i] = x
      /\ n \in Nat
  BY <1>2
<1> HIDE DEF A, values, n
<1>7. ItemByItem(A, n, values, item)
  <2>1. ASSUME NEW i \in 1 .. n PROVE item[A[i - 1]] = [value |-> values[i], at |-> A[i]]
    <3>1. i - 1 = 0 /\ A[i] = y /\ values[i] = x
      BY <1>6
    <3> QED
      BY <1>5, <1>6, <3>1
  <2> QED
    BY <1>6, <2>1 DEF ItemByItem
<1>10. n \in Nat
  BY <1>6
<1>8. ReadItems([value |-> n, at |-> A[0]], item) = [value |-> values, at |-> A[n]]
  BY <1>7, <1>10, ItemsRead
<1>9. ReadCompactArray(b, o, item).value = values
  <2>1. ReadCompactArray(b, o, item) = ReadItems([value |-> n, at |-> A[0]], item)
    BY <1>4, <1>6 DEF ReadCompactArray
  <2>2. ReadCompactArray(b, o, item) = [value |-> values, at |-> A[n]]
    BY <1>8, <2>1
  <2> QED
    BY <2>2
<1> QED
  BY <1>2, <1>6, <1>9 DEF l

-----------------------------------------------------------------------------
(* The batches of a partition in a response.                               *)

\* An empty buffer has no batches.
LEMMA NoBatches == DecodedRecordBatch(<<>>) = <<>>
<1> DEFINE b == <<>>
           n == 0
           f == [i \in 0 .. n |-> Empty(0)]
<1>1. n = Len(b) \div 12 /\ n \in Nat /\ (\A i \in 1 .. n : FALSE) /\ 0 \in 0 .. n /\ n \in 0 .. n
  OBVIOUS
<1> HIDE DEF b, n
<1>2. f = [i \in 0 .. n |-> f[i]] /\ f[0] = Empty(0) /\ f[n] = Empty(0)
  BY <1>1
<1> HIDE DEF f
<1>3. TurnByTurn(f, n, b)
  BY <1>1, <1>2 DEF TurnByTurn
<1>4. DecodedRecordBatch(b) = f[n].value
  BY <1>1, <1>3, TurnsDef
<1> QED
  BY <1>2, <1>4 DEF b, Empty

\* The batches of a partition are read from bytes that follow their length.
LEMMA RecordBatchesRead ==
    ASSUME NEW F \in Seq(Byte), NEW b \in Seq(Byte), NEW o \in Nat,
           Stands(UVarInt(Len(F) + 1), b, o), Stands(F, b, o + Len(UVarInt(Len(F) + 1)))
    PROVE  ReadRecordBatches(b, o)
              = [value |-> DecodedRecordBatch(F), at |-> o + Len(UVarInt(Len(F) + 1)) + Len(F)]
<1> DEFINE n == Len(F)
           l == UVarInt(n + 1)
           at == o + Len(l)
           size == Decremented(ReadUVarInt(b, o))
           bytes == ReadBytes(size.value, b, size.at)
<1>1. n \in Nat /\ n + 1 \in Nat /\ n + 1 - 1 = n
  OBVIOUS
<1>2. l \in Seq(Byte)
  BY <1>1, UVarIntType
<1>3. at \in Nat
  <2> HIDE DEF l
  <2> QED
    BY <1>2
<1>4. ReadUVarInt(b, o) = [value |-> n + 1, at |-> at]
  BY <1>1, UVarIntRead
<1>5. size = [value |-> n, at |-> at]
  <2> DEFINE k == n + 1
  <2>1. k \in Int /\ k - 1 = n
    BY <1>1
  <2>2. ReadUVarInt(b, o) = [value |-> k, at |-> at]
    BY <1>4
  <2> HIDE DEF k, at, n
  <2>3. Decremented([value |-> k, at |-> at]) = [value |-> k - 1, at |-> at]
    BY <2>1, DecrementedIs
  <2> QED
    BY <2>1, <2>2, <2>3
<1>6. ReadBytes(n, b, at) = [value |-> F, at |-> at + n]
  <2> HIDE DEF at
  <2>1. Stands(F, b, at)
    BY DEF at
  <2> QED
    BY <1>3, <2>1, BytesRead
<1>7. ReadRecordBatches(b, o) = IF size.value <= 0 THEN Empty(size.at)
                                ELSE [value |-> DecodedRecordBatch(bytes.value), at |-> bytes.at]
  BY DEF ReadRecordBatches
<1> HIDE DEF size, at, l
<1>8. size.value = n /\ size.at = at
  BY <1>5
<1>9. CASE n = 0
  <2>1. F = <<>>
    BY <1>9
  <2>2. DecodedRecordBatch(F) = <<>> /\ at + n = at
    BY <1>3, <1>9, <2>1, NoBatches
  <2> HIDE DEF n, bytes
  <2>3. ReadRecordBatches(b, o) = [value |-> <<>>, at |-> at]
    BY <1>7, <1>8, <1>9 DEF Empty
  <2> QED
    BY <2>2, <2>3 DEF n, at, l
<1>10. CASE n # 0
  <2> HIDE DEF n
  <2>1. bytes.value = F /\ bytes.at = at + n
    BY <1>6, <1>8
  <2>2. ~(n <= 0)
    BY <1>1, <1>10
  <2> HIDE DEF bytes
  <2> QED
    BY <1>7, <1>8, <2>1, <2>2 DEF n, at, l
<1> QED
  BY <1>9, <1>10

-----------------------------------------------------------------------------
(* A partition of a response.                                              *)

PartitionBytes(p, e, F) ==
    Int32(p) \o Int16(0) \o Int64(e) \o Int64(e) \o Int64(0) \o UVarInt(0) \o Int32(-1)
    \o UVarInt(Len(F) + 1) \o F \o UVarInt(0)

\* The parts of a partition that matter.
InPartition(p, F, b, o, u, s, v) ==
    /\ Stands(Int32(p), b, o) /\ Stands(UVarInt(0), b, o + 30)
    /\ u = o + 30 + Len(UVarInt(0)) /\ s = u + 4
    /\ Stands(UVarInt(Len(F) + 1), b, s) /\ Stands(F, b, s + Len(UVarInt(Len(F) + 1)))
    /\ v = s + Len(UVarInt(Len(F) + 1)) + Len(F)
    /\ Stands(UVarInt(0), b, v)

\* Bytes are as long as they are.
LEMMA LongAs == \A v \in Seq(Byte) : Long(v, Len(v))
  BY DEF Long

\* Where the fields of a partition stand in a response.
LEMMA PartitionStands ==
    ASSUME NEW p \in Int, NEW e \in Int, NEW F \in Seq(Byte)
    PROVE  /\ PartitionBytes(p, e, F) \in Seq(Byte)
           /\ \A b \in Seq(Byte), o \in Nat : Stands(PartitionBytes(p, e, F), b, o) =>
                  \E u, s, v \in Nat : /\ InPartition(p, F, b, o, u, s, v)
                                       /\ v + Len(UVarInt(0)) = o + Len(PartitionBytes(p, e, F))
<1> DEFINE p1 == Int32(p)
           p2 == Int16(0)
           p3 == Int64(e)
           p5 == Int64(0)
           z == UVarInt(0)
           p7 == Int32(-1)
           p8 == UVarInt(Len(F) + 1)
           q2 == p1 \o p2
           q3 == q2 \o p3
           q4 == q3 \o p3
           q5 == q4 \o p5
           q6 == q5 \o z
           q7 == q6 \o p7
           q8 == q7 \o p8
           q9 == q8 \o F
           q10 == q9 \o z
           k == Len(z)
           l == Len(p8)
           h == Len(F)
<1>1. /\ Long(p1, 4) /\ Long(p2, 2) /\ Long(p3, 8) /\ Long(p5, 8) /\ Long(p7, 4)
  <2>1. 0 \in Int /\ -1 \in Int
    OBVIOUS
  <2> QED
    BY <2>1, IntTypes
<1>2. Long(z, k) /\ Long(p8, l) /\ Long(F, h) /\ k \in Nat /\ l \in Nat /\ h \in Nat
  <2>1. 0 \in Nat /\ Len(F) + 1 \in Nat
    OBVIOUS
  <2>2. z \in Seq(Byte) /\ p8 \in Seq(Byte)
    BY <2>1, UVarIntType
  <2> HIDE DEF z, p8
  <2>3. Len(z) \in Nat /\ Len(p8) \in Nat /\ Len(F) \in Nat
    BY <2>2
  <2> QED
    BY <2>2, <2>3, LongAs
<1>3. PartitionBytes(p, e, F) = q10
  BY DEF PartitionBytes
<1> HIDE DEF p1, p2, p3, p5, z, p7, p8, k, l, h
<1>4. 4 + 2 = 6 /\ 6 + 8 = 14 /\ 14 + 8 = 22 /\ 22 + 8 = 30
  OBVIOUS
<1>5. Long(q2, 6)
  <2>1. Long(q2, 4 + 2)
    BY <1>1, Joined
  <2> HIDE DEF q2
  <2> QED
    BY <1>4, <2>1
<1> HIDE DEF q2
<1>6. Long(q3, 14)
  <2>1. Long(q3, 6 + 8)
    BY <1>1, <1>5, Joined
  <2> HIDE DEF q3
  <2> QED
    BY <1>4, <2>1
<1> HIDE DEF q3
<1>7. Long(q4, 22)
  <2>1. Long(q4, 14 + 8)
    BY <1>1, <1>6, Joined
  <2> HIDE DEF q4
  <2> QED
    BY <1>4, <2>1
<1> HIDE DEF q4
<1>8. Long(q5, 30)
  <2>1. Long(q5, 22 + 8)
    BY <1>1, <1>7, Joined
  <2> HIDE DEF q5
  <2> QED
    BY <1>4, <2>1
<1> HIDE DEF q5
<1>9. Long(q6, 30 + k)
  BY <1>2, <1>8, Joined
<1> HIDE DEF q6
<1>10. Long(q7, 30 + k + 4)
  BY <1>1, <1>9, Joined
<1> HIDE DEF q7
<1>11. Long(q8, 30 + k + 4 + l)
  BY <1>2, <1>10, Joined
<1> HIDE DEF q8
<1>12. Long(q9, 30 + k + 4 + l + h)
  BY <1>2, <1>11, Joined
<1> HIDE DEF q9
<1>13. Long(q10, 30 + k + 4 + l + h + k)
  BY <1>2, <1>12, Joined
<1>14. ASSUME NEW b \in Seq(Byte), NEW o \in Nat, Stands(q10, b, o)
       PROVE  /\ Stands(p1, b, o) /\ Stands(z, b, o + 30) /\ Stands(p8, b, o + (30 + k + 4))
              /\ Stands(F, b, o + (30 + k + 4 + l)) /\ Stands(z, b, o + (30 + k + 4 + l + h))
  <2> DEFINE a7 == 30 + k + 4
             a8 == a7 + l
             a9 == a8 + h
  <2>10. Long(q7, a7) /\ Long(q8, a8) /\ Long(q9, a9)
    BY <1>10, <1>11, <1>12
  <2> HIDE DEF a7, a8, a9
  <2>1. Stands(q9, b, o) /\ Stands(z, b, o + a9)
    BY <1>2, <1>14, <2>10, Peel
  <2>2. Stands(q8, b, o) /\ Stands(F, b, o + a8)
    BY <1>2, <2>1, <2>10, Peel DEF q9
  <2>3. Stands(q7, b, o) /\ Stands(p8, b, o + a7)
    BY <1>2, <2>2, <2>10, Peel DEF q8
  <2>4. Stands(q6, b, o)
    BY <1>1, <1>9, <2>3, Peel DEF q7
  <2>5. Stands(q5, b, o) /\ Stands(z, b, o + 30)
    BY <1>2, <1>8, <2>4, Peel DEF q6
  <2>6. Stands(q4, b, o)
    BY <1>1, <1>7, <2>5, Peel DEF q5
  <2>7. Stands(q3, b, o)
    BY <1>1, <1>6, <2>6, Peel DEF q4
  <2>8. Stands(q2, b, o)
    BY <1>1, <1>5, <2>7, Peel DEF q3
  <2>9. Stands(p1, b, o)
    BY <1>1, <2>8, Peel DEF q2
  <2> QED
    BY <2>1, <2>2, <2>3, <2>5, <2>9 DEF a7, a8, a9
<1>15. q10 \in Seq(Byte) /\ Len(q10) = 30 + k + 4 + l + h + k
  BY <1>13 DEF Long
<1> HIDE DEF q10
<1>16. ASSUME NEW b \in Seq(Byte), NEW o \in Nat, Stands(q10, b, o)
       PROVE  \E u, s, v \in Nat : /\ InPartition(p, F, b, o, u, s, v)
                                   /\ v + k = o + Len(q10)
  <2> DEFINE u == o + 30 + k
             s == u + 4
             v == s + l + h
  <2>1. u \in Nat /\ s \in Nat /\ v \in Nat
    BY <1>2
  <2>6. /\ o + (30 + k + 4) = s /\ o + (30 + k + 4 + l) = s + l
        /\ o + (30 + k + 4 + l + h) = v /\ v + k = o + (30 + k + 4 + l + h + k)
    BY <1>2
  <2>2. /\ o + (30 + k + 4) = s /\ o + (30 + k + 4 + l) = s + l
        /\ o + (30 + k + 4 + l + h) = v /\ v + k = o + Len(q10)
    BY <1>15, <2>6
  <2>3. u = o + 30 + k /\ s = u + 4 /\ v = s + l + h
    OBVIOUS
  <2> HIDE DEF u, s, v
  <2>4. /\ Stands(p1, b, o) /\ Stands(z, b, o + 30) /\ Stands(p8, b, s)
        /\ Stands(F, b, s + l) /\ Stands(z, b, v)
    BY <1>14, <1>16, <2>2
  <2>5. InPartition(p, F, b, o, u, s, v)
    BY <2>3, <2>4 DEF InPartition, p1, z, p8, k, l, h
  <2> QED
    BY <2>1, <2>2, <2>5
<1> QED
  BY <1>3, <1>15, <1>16 DEF k, z

\* r is what has been read so far, of partition p, up to at.
Reads(r, name, x, at) ==
    /\ r = [value |-> r.value, at |-> at] /\ r.at = at
    /\ name \in DOMAIN r.value /\ r.value[name] = x

\* A field that is read keeps its value when another one is read.
LEMMA StillReads ==
    ASSUME NEW done, NEW name, NEW x, NEW at, Reads(done, name, x, at), NEW other, other # name,
           NEW part
    PROVE  Reads(With(done, other, part), name, x, part.at)
  BY WithHas DEF Reads

\* A field has the value just read for it.
LEMMA NowReads ==
    ASSUME NEW done, NEW name, NEW part
    PROVE  Reads(With(done, name, part), name, part.value, part.at)
  BY WithHas DEF Reads

\* The numbers of a partition are read to their end.
LEMMA PartitionFieldsRead ==
    ASSUME NEW b \in Seq(Byte), NEW o \in Nat
    PROVE  Reads(ReadFields(PartitionFields, b, Empty(o)), "partitionIndex",
                 ReadInt(4, b, o).value, o + 30)
<1> DEFINE at == <<o, o + 4, o + 6, o + 14, o + 22, o + 30>>
           F == PartitionFields
           H == [partitionIndex |-> ReadInt(4, b, o).value,
                 errorCode |-> ReadInt(2, b, o + 4).value,
                 highWatermark |-> ReadInt(8, b, o + 6).value,
                 lastStableOffset |-> ReadInt(8, b, o + 14).value,
                 logStartOffset |-> ReadInt(8, b, o + 22).value]
<1>1. /\ at[1] = o /\ at[2] = o + 4 /\ at[3] = o + 6 /\ at[4] = o + 14 /\ at[5] = o + 22
      /\ at[6] = o + 30
  OBVIOUS
<1>2. Len(F) = 5
  BY DEF PartitionFields
<1>3. /\ F[1][1] = "partitionIndex" /\ F[2][1] = "errorCode" /\ F[3][1] = "highWatermark"
      /\ F[4][1] = "lastStableOffset" /\ F[5][1] = "logStartOffset"
  BY DEF PartitionFields
<1>4. /\ F[1][2] = "int32" /\ F[2][2] = "int16" /\ F[3][2] = "int64" /\ F[4][2] = "int64"
      /\ F[5][2] = "int64"
  BY DEF PartitionFields
<1>5. /\ H.partitionIndex = ReadInt(4, b, o).value /\ H.errorCode = ReadInt(2, b, o + 4).value
      /\ H.highWatermark = ReadInt(8, b, o + 6).value
      /\ H.lastStableOffset = ReadInt(8, b, o + 14).value
      /\ H.logStartOffset = ReadInt(8, b, o + 22).value
  OBVIOUS
<1> HIDE DEF F, H
<1>6. "partitionIndex" \in Names(F, 5)
  <2>1. 1 \in 1 .. 5
    OBVIOUS
  <2> QED
    BY <1>3, <2>1 DEF Names
<1>7. /\ ReadInt(4, b, o) = [value |-> H.partitionIndex, at |-> o + 4]
      /\ ReadInt(2, b, o + 4) = [value |-> H.errorCode, at |-> o + 6]
      /\ ReadInt(8, b, o + 6) = [value |-> H.highWatermark, at |-> o + 14]
      /\ ReadInt(8, b, o + 14) = [value |-> H.lastStableOffset, at |-> o + 22]
      /\ ReadInt(8, b, o + 22) = [value |-> H.logStartOffset, at |-> o + 30]
  <2>1. /\ (o + 4) + 2 = o + 6 /\ (o + 6) + 8 = o + 14 /\ (o + 14) + 8 = o + 22
        /\ (o + 22) + 8 = o + 30
    OBVIOUS
  <2> QED
    BY <1>5, <2>1, IntAt
<1> HIDE DEF at
<1>8. ASSUME NEW i \in 1 .. 5
      PROVE  Read(F[i][2], b, at[i]) = [value |-> H[F[i][1]], at |-> at[i + 1]]
  <2>1. CASE i = 1
    <3>1. i + 1 = 2
      BY <2>1
    <3> QED
      BY <1>1, <1>3, <1>4, <1>7, <2>1, <3>1, MoreReadTypes
  <2>2. CASE i = 2
    <3>1. i + 1 = 3
      BY <2>2
    <3> QED
      BY <1>1, <1>3, <1>4, <1>7, <2>2, <3>1, MoreReadTypes
  <2>3. CASE i = 3
    <3>1. i + 1 = 4
      BY <2>3
    <3> QED
      BY <1>1, <1>3, <1>4, <1>7, <2>3, <3>1, MoreReadTypes
  <2>4. CASE i = 4
    <3>1. i + 1 = 5
      BY <2>4
    <3> QED
      BY <1>1, <1>3, <1>4, <1>7, <2>4, <3>1, MoreReadTypes
  <2>5. CASE i = 5
    <3>1. i + 1 = 6
      BY <2>5
    <3> QED
      BY <1>1, <1>3, <1>4, <1>7, <2>5, <3>1, MoreReadTypes
  <2> QED
    BY <2>1, <2>2, <2>3, <2>4, <2>5
<1>9. 5 \in Nat /\ 5 + 1 = 6
  OBVIOUS
<1>10. InFields(F, 5, b, at, H)
  BY <1>2, <1>8 DEF InFields
<1>11. ReadFields(F, b, [value |-> <<>>, at |-> at[1]])
          = [value |-> Merged(<<>>, Names(F, 5), H), at |-> at[5 + 1]]
  BY <1>9, <1>10, NoFields, FieldsHeld
<1> DEFINE v == Merged(<<>>, Names(F, 5), H)
<1>12. v["partitionIndex"] = ReadInt(4, b, o).value
  <2>1. v["partitionIndex"] = H["partitionIndex"]
    BY <1>6, MergedHas
  <2> QED
    BY <1>5, <2>1
<1>13. "partitionIndex" \in DOMAIN v
  BY <1>6 DEF Merged
<1> HIDE DEF v
<1>14. ReadFields(F, b, Empty(o)) = [value |-> v, at |-> o + 30]
  BY <1>1, <1>9, <1>11 DEF Empty, v
<1> QED
  BY <1>12, <1>13, <1>14 DEF Reads, F

\* A partition of a response is read as it was written.
LEMMA PartitionRead ==
    ASSUME NEW p \in Int, Fits(p, 4), NEW e \in Int, NEW F \in Seq(Byte), NEW b \in Seq(Byte),
           NEW o \in Nat, Stands(PartitionBytes(p, e, F), b, o)
    PROVE  LET r == FetchedPartition(b, o)
               at == o + Len(PartitionBytes(p, e, F))
           IN  /\ Reads(r, "partitionIndex", p, at)
               /\ Reads(r, "records", DecodedRecordBatch(F), at)
<1>1. PICK u \in Nat, s \in Nat, v \in Nat :
          /\ InPartition(p, F, b, o, u, s, v) /\ v + Len(UVarInt(0)) = o + Len(PartitionBytes(p, e, F))
  BY PartitionStands
<1> DEFINE z == UVarInt(0)
           l == UVarInt(Len(F) + 1)
           f1 == [at \in Nat |-> AbortedTransactions(b, at)]
           f2 == [at \in Nat |-> ReadRecordBatches(b, at)]
           fields == ReadFields(PartitionFields, b, Empty(o))
           aborted == With(fields, "abortedTransactions", f1[fields.at])
           replica == ReadFields(<<<<"preferredReadReplica", "int32">>>>, b, aborted)
           records == With(replica, "records", f2[replica.at])
           r == ReadFields(<<<<"tag", "tags">>>>, b, records)
<1>2. /\ Stands(Int32(p), b, o) /\ Stands(z, b, o + 30) /\ u = o + 30 + Len(z) /\ s = u + 4
      /\ Stands(l, b, s) /\ Stands(F, b, s + Len(l)) /\ v = s + Len(l) + Len(F) /\ Stands(z, b, v)
  BY <1>1 DEF InPartition
<1>3. FetchedPartition(b, o) = r
  BY DEF FetchedPartition, ReadPart
<1>4. f1[o + 30] = AbortedTransactions(b, o + 30) /\ f2[s] = ReadRecordBatches(b, s)
  OBVIOUS
<1>5. ReadInt(4, b, o).value = p
  BY <1>2, IntsRead
<1>6. Reads(fields, "partitionIndex", p, o + 30)
  BY <1>5, PartitionFieldsRead
<1> HIDE DEF fields, f1, f2
<1>7. fields.at = o + 30
  BY <1>6 DEF Reads
<1>8. f1[fields.at].at = u
  <2>1. o + 30 \in Nat
    OBVIOUS
  <2> DEFINE g == [at \in Nat |-> Aborted(b, at)]
  <2>2. AbortedTransactions(b, o + 30) = ReadCompactArray(b, o + 30, g)
    BY DEF AbortedTransactions
  <2> HIDE DEF g
  <2>3. ReadCompactArray(b, o + 30, g) = [value |-> <<>>, at |-> o + 30 + Len(UVarInt(0))]
    BY <1>2, <2>1, NoItems
  <2> QED
    BY <1>2, <1>4, <1>7, <2>2, <2>3
<1>9. Reads(aborted, "partitionIndex", p, u)
  <2> DEFINE part == f1[fields.at]
  <2>1. part.at = u
    BY <1>8
  <2> HIDE DEF part
  <2>2. Reads(With(fields, "abortedTransactions", part), "partitionIndex", p, part.at)
    BY <1>6, StillReads
  <2> QED
    BY <2>1, <2>2 DEF part
<1> HIDE DEF aborted
<1>10. replica = With(aborted, "preferredReadReplica", Read("int32", b, aborted.at))
  BY OneField
<1>11. Reads(replica, "partitionIndex", p, s)
  <2>1. aborted.at = u
    BY <1>9 DEF Reads
  <2> DEFINE part == Read("int32", b, aborted.at)
  <2>2. part.at = s
    <3>1. part = ReadInt(4, b, u)
      BY <2>1, MoreReadTypes
    <3>2. ReadInt(4, b, u) = [value |-> ReadInt(4, b, u).value, at |-> u + 4]
      BY IntAt
    <3> HIDE DEF part
    <3> QED
      BY <1>2, <3>1, <3>2
  <2> HIDE DEF part
  <2>3. Reads(With(aborted, "preferredReadReplica", part), "partitionIndex", p, part.at)
    BY <1>9, StillReads
  <2> QED
    BY <1>10, <2>2, <2>3 DEF part
<1> HIDE DEF replica
<1>12. replica.at = s
  BY <1>11 DEF Reads
<1>13. f2[replica.at].value = DecodedRecordBatch(F) /\ f2[replica.at].at = v
  <2>1. ReadRecordBatches(b, s) = [value |-> DecodedRecordBatch(F), at |-> s + Len(l) + Len(F)]
    BY <1>2, RecordBatchesRead
  <2> HIDE DEF l
  <2>2. f2[replica.at] = [value |-> DecodedRecordBatch(F), at |-> v]
    BY <1>2, <1>4, <1>12, <2>1
  <2> QED
    BY <2>2
<1>14. Reads(records, "partitionIndex", p, v) /\ Reads(records, "records", DecodedRecordBatch(F), v)
  <2> DEFINE part == f2[replica.at]
  <2>1. part.value = DecodedRecordBatch(F) /\ part.at = v
    BY <1>13
  <2> HIDE DEF part
  <2>2. Reads(With(replica, "records", part), "partitionIndex", p, part.at)
    BY <1>11, StillReads
  <2>3. Reads(With(replica, "records", part), "records", part.value, part.at)
    BY NowReads
  <2> QED
    BY <2>1, <2>2, <2>3 DEF part
<1> HIDE DEF records
<1>15. records.at = v
  BY <1>14 DEF Reads
<1>16. r = With(records, "tag", Read("tags", b, records.at))
  BY OneField
<1> DEFINE part == Read("tags", b, records.at)
           at == o + Len(PartitionBytes(p, e, F))
<1>17. part.at = at
  <2>1. part = ReadUVarInt(b, v)
    BY <1>15, MoreReadTypes
  <2>2. ReadUVarInt(b, v) = [value |-> 0, at |-> v + Len(z)]
    <3>1. 0 \in Nat
      OBVIOUS
    <3> QED
      BY SMTT(15), <1>2, <3>1, UVarIntRead
  <2> HIDE DEF part
  <2> QED
    BY <1>1, <2>1, <2>2
<1> HIDE DEF part, r, at
<1>18. Reads(With(records, "tag", part), "partitionIndex", p, part.at)
  BY <1>14, StillReads
<1>19. Reads(With(records, "tag", part), "records", DecodedRecordBatch(F), part.at)
  BY <1>14, StillReads
<1> QED
  BY <1>3, <1>16, <1>17, <1>18, <1>19 DEF part, at

-----------------------------------------------------------------------------
(* A response.                                                             *)

\* Partition i of a response has Fs[i + 1].
PartitionsBytes(n, es, Fs) == [i \in 1 .. n |-> PartitionBytes(i - 1, es[i], Fs[i])]
TopicBytes(n, es, Fs) ==
    TopicId \o CompactArray(PartitionsBytes(n, es, Fs)) \o UVarInt(0)
ResponseOf(n, es, Fs) ==
    UVarInt(0) \o Int32(0) \o Int16(0) \o Int32(0)
    \o CompactArray(<<TopicBytes(n, es, Fs)>>) \o UVarInt(0)

\* Offsets and bytes for n partitions.
Answers(n, es, Fs) ==
    /\ n \in Nat
    /\ \A i \in 1 .. n : Fits(i - 1, 4) /\ es[i] \in Int /\ Fs[i] \in Seq(Byte)

\* The partitions of a response are bytes.
LEMMA PartitionsBytesType ==
    ASSUME NEW n, NEW es, NEW Fs, Answers(n, es, Fs)
    PROVE  /\ PartitionsBytes(n, es, Fs) \in Seq(Seq(Byte))
           /\ Len(PartitionsBytes(n, es, Fs)) = n
           /\ \A i \in 1 .. n : PartitionsBytes(n, es, Fs)[i] = PartitionBytes(i - 1, es[i], Fs[i])
<1> DEFINE e(i) == PartitionBytes(i - 1, es[i], Fs[i])
           X == Seq(Byte)
           s == PartitionsBytes(n, es, Fs)
<1>1. n \in Nat
  BY DEF Answers
<1>2. ASSUME NEW i \in 1 .. n PROVE e(i) \in X
  <2>1. i - 1 \in Int /\ es[i] \in Int /\ Fs[i] \in Seq(Byte)
    BY DEF Answers
  <2> QED
    BY <2>1, PartitionStands
<1>3. s = [i \in 1 .. n |-> e(i)]
  BY DEF PartitionsBytes
<1> HIDE DEF e, X, s
<1>4. s \in [1 .. n -> X] /\ \A i \in 1 .. n : s[i] = e(i)
  BY <1>2, <1>3
<1>5. s \in Seq(X) /\ Len(s) = n
  BY <1>1, <1>4, FunctionIsSeq
<1> QED
  BY <1>4, <1>5 DEF s, X, e

\* What a reader makes of the partitions: one each, with its batches.
PartsRead(parts, n, Fs) ==
    /\ parts = [i \in 1 .. n |-> parts[i]]
    /\ \A i \in 1 .. n : /\ parts[i].partitionIndex = i - 1
                         /\ parts[i].records = DecodedRecordBatch(Fs[i])

\* The partitions of a response are read as they were written.
LEMMA PartitionsRead ==
    ASSUME NEW n, NEW es, NEW Fs, Answers(n, es, Fs), NEW b \in Seq(Byte), NEW o \in Nat,
           Stands(CompactArray(PartitionsBytes(n, es, Fs)), b, o)
    PROVE  \E parts : /\ FetchedPartitions(b, o)
                            = [value |-> parts, at |-> o + Len(CompactArray(PartitionsBytes(n, es, Fs)))]
                      /\ PartsRead(parts, n, Fs)
<1> DEFINE items == PartitionsBytes(n, es, Fs)
           item == [at \in Nat |-> FetchedPartition(b, at)]
<1>1. /\ items \in Seq(Seq(Byte)) /\ Len(items) = n
      /\ \A i \in 1 .. n : items[i] = PartitionBytes(i - 1, es[i], Fs[i])
  BY PartitionsBytesType
<1>2. FetchedPartitions(b, o) = ReadCompactArray(b, o, item)
  BY DEF FetchedPartitions
<1>3. \A at \in Nat : item[at] = FetchedPartition(b, at)
  OBVIOUS
<1>4. Stands(CompactArray(items), b, o)
  OBVIOUS
<1> HIDE DEF items, item
<1>5. ASSUME NEW i \in 1 .. n, NEW at \in Nat, Stands(items[i], b, at)
      PROVE  LET r == item[at]
                 end == at + Len(items[i])
             IN  Reads(r, "partitionIndex", i - 1, end) /\ Reads(r, "records", DecodedRecordBatch(Fs[i]), end)
  <2>1. i - 1 \in Int /\ Fits(i - 1, 4) /\ es[i] \in Int /\ Fs[i] \in Seq(Byte)
    BY DEF Answers
  <2>2. Stands(PartitionBytes(i - 1, es[i], Fs[i]), b, at)
    BY <1>1, <1>5
  <2> DEFINE p == i - 1
  <2>3. p \in Int /\ Fits(p, 4) /\ Stands(PartitionBytes(p, es[i], Fs[i]), b, at)
    BY <2>1, <2>2
  <2> HIDE DEF p
  <2>4. LET r == FetchedPartition(b, at)
            end == at + Len(PartitionBytes(p, es[i], Fs[i]))
        IN  Reads(r, "partitionIndex", p, end) /\ Reads(r, "records", DecodedRecordBatch(Fs[i]), end)
    BY <2>1, <2>3, PartitionRead
  <2>5. items[i] = PartitionBytes(p, es[i], Fs[i])
    BY <1>1 DEF p
  <2> QED
    BY <1>3, <2>4, <2>5 DEF p
<1>6. Passes(item, items, b)
  <2> SUFFICES ASSUME NEW i \in 1 .. Len(items), NEW at \in Nat, Stands(items[i], b, at)
               PROVE  item[at] = [value |-> item[at].value, at |-> at + Len(items[i])]
    BY DEF Passes
  <2>1. i \in 1 .. n
    BY <1>1
  <2>2. Reads(item[at], "partitionIndex", i - 1, at + Len(items[i]))
    BY <1>5, <2>1
  <2> QED
    BY <2>2 DEF Reads
<1>12. PICK A : ReadCompactly(A, items, b, o, item)
  BY <1>1, <1>4, <1>6, CompactArrayRead
<1>7. /\ Laid(A, items, b, o + Len(UVarInt(Len(items) + 1)))
      /\ ReadCompactArray(b, o, item)
            = [value |-> [i \in 1 .. Len(items) |-> item[A[i - 1]].value],
               at |-> o + Len(CompactArray(items))]
  BY <1>12 DEF ReadCompactly
<1> DEFINE parts == [i \in 1 .. n |-> item[A[i - 1]].value]
<1>8. ReadCompactArray(b, o, item) = [value |-> parts, at |-> o + Len(CompactArray(items))]
  BY <1>1, <1>7
<1>9. parts = [i \in 1 .. n |-> parts[i]] /\ \A i \in 1 .. n : parts[i] = item[A[i - 1]].value
  OBVIOUS
<1> HIDE DEF parts
<1>10. ASSUME NEW i \in 1 .. n
       PROVE  parts[i].partitionIndex = i - 1 /\ parts[i].records = DecodedRecordBatch(Fs[i])
  <2>1. n \in Nat
    BY DEF Answers
  <2>2. i - 1 \in 0 .. n /\ i \in 1 .. Len(items)
    BY <1>1, <2>1
  <2>3. A[i - 1] \in Nat /\ Stands(items[i], b, A[i - 1])
    BY <1>1, <1>7, <2>2 DEF Laid
  <2>4. /\ Reads(item[A[i - 1]], "partitionIndex", i - 1, A[i - 1] + Len(items[i]))
        /\ Reads(item[A[i - 1]], "records", DecodedRecordBatch(Fs[i]), A[i - 1] + Len(items[i]))
    BY <1>5, <2>3
  <2>5. parts[i]["partitionIndex"] = i - 1 /\ parts[i]["records"] = DecodedRecordBatch(Fs[i])
    BY <1>9, <2>4 DEF Reads
  <2> QED
    BY <2>5
<1>11. PartsRead(parts, n, Fs)
  BY <1>9, <1>10 DEF PartsRead
<1> QED
  BY <1>2, <1>8, <1>11 DEF items

\* Where four fields end.
LEMMA FourFields ==
    ASSUME NEW n1, NEW t1, NEW n2, NEW t2, NEW n3, NEW t3, NEW n4, NEW t4, NEW b, NEW o,
           NEW a1, Read(t1, b, o).at = a1, NEW a2, Read(t2, b, a1).at = a2,
           NEW a3, Read(t3, b, a2).at = a3, NEW a4, Read(t4, b, a3).at = a4
    PROVE  ReadFields(<<<<n1, t1>>, <<n2, t2>>, <<n3, t3>>, <<n4, t4>>>>, b, Empty(o)).at = a4
<1> DEFINE fields == <<<<n1, t1>>, <<n2, t2>>, <<n3, t3>>, <<n4, t4>>>>
           r0 == Empty(o)
           r1 == With(r0, n1, Read(t1, b, r0.at))
           r2 == With(r1, n2, Read(t2, b, r1.at))
           r3 == With(r2, n3, Read(t3, b, r2.at))
           r4 == With(r3, n4, Read(t4, b, r3.at))
           n == 4
           f == [i \in 0 .. n |-> IF i = 0 THEN r0 ELSE IF i = 1 THEN r1 ELSE IF i = 2 THEN r2
                                  ELSE IF i = 3 THEN r3 ELSE r4]
<1>1. /\ Len(fields) = n /\ fields[1][1] = n1 /\ fields[1][2] = t1 /\ fields[2][1] = n2
      /\ fields[2][2] = t2 /\ fields[3][1] = n3 /\ fields[3][2] = t3
      /\ fields[4][1] = n4 /\ fields[4][2] = t4
  OBVIOUS
<1>2. r0.at = o
  BY DEF Empty
<1> HIDE DEF r0
<1>3. r1.at = a1
  BY <1>2, WithHas
<1>4. r1 = With(r0, n1, Read(t1, b, r0.at))
  OBVIOUS
<1> HIDE DEF r1
<1>5. r2.at = a2
  BY <1>3, WithHas
<1>6. r2 = With(r1, n2, Read(t2, b, r1.at))
  OBVIOUS
<1> HIDE DEF r2
<1>7. r3.at = a3
  BY <1>5, WithHas
<1>8. r3 = With(r2, n3, Read(t3, b, r2.at))
  OBVIOUS
<1> HIDE DEF r3
<1>9. r4.at = a4
  BY <1>7, WithHas
<1>10. r4 = With(r3, n4, Read(t4, b, r3.at))
  OBVIOUS
<1> HIDE DEF r4, fields
<1>15. /\ 0 \in 0 .. n /\ 1 \in 0 .. n /\ 2 \in 0 .. n /\ 3 \in 0 .. n /\ 4 \in 0 .. n
       /\ n \in Nat /\ n = 4
  OBVIOUS
<1>16. \A i \in 1 .. n : \/ i = 1 /\ i - 1 = 0
                         \/ i = 2 /\ i - 1 = 1
                         \/ i = 3 /\ i - 1 = 2
                         \/ i = 4 /\ i - 1 = 3
  <2> HIDE DEF f
  <2>1. ASSUME NEW i \in 1 .. 4 PROVE i = 1 \/ i = 2 \/ i = 3 \/ i = 4
    OBVIOUS
  <2>2. 1 - 1 = 0 /\ 2 - 1 = 1 /\ 3 - 1 = 2 /\ 4 - 1 = 3
    OBVIOUS
  <2> QED
    BY <2>1, <2>2
<1> HIDE DEF n
<1>11. /\ f = [i \in 0 .. n |-> f[i]] /\ f[0] = r0 /\ f[1] = r1 /\ f[2] = r2 /\ f[3] = r3
       /\ f[4] = r4 /\ f[n] = r4
  BY <1>15
<1> HIDE DEF f
<1>12. ASSUME NEW i \in 1 .. n
       PROVE  f[i] = With(f[i - 1], fields[i][1], Read(fields[i][2], b, f[i - 1].at))
  <2>1. CASE i = 1 /\ i - 1 = 0
    BY <1>1, <1>4, <1>11, <2>1
  <2>2. CASE i = 2 /\ i - 1 = 1
    BY <1>1, <1>6, <1>11, <2>2
  <2>3. CASE i = 3 /\ i - 1 = 2
    BY <1>1, <1>8, <1>11, <2>3
  <2>4. CASE i = 4 /\ i - 1 = 3
    BY <1>1, <1>10, <1>11, <2>4
  <2> QED
    BY <1>16, <2>1, <2>2, <2>3, <2>4
<1>13. FieldByField(f, n, fields, b, r0)
  BY <1>1, <1>11, <1>12 DEF FieldByField
<1>14. ReadFields(fields, b, r0) = f[n]
  BY <1>13, <1>15, FieldsRead
<1> QED
  BY <1>9, <1>11, <1>14 DEF fields, r0

\* The id of the topic is 16 bytes.
LEMMA TopicIdLong == Long(TopicId, 16)
<1> DEFINE n == 16
           t == [i \in 1 .. n |-> i]
<1>1. n \in Nat /\ t \in [1 .. n -> Byte]
  BY DEF Byte
<1> HIDE DEF n, t
<1>2. t \in Seq(Byte) /\ Len(t) = n
  BY <1>1, FunctionIsSeq
<1>3. Long(t, n)
  BY <1>1, <1>2 DEF Long
<1> QED
  BY <1>3 DEF TopicId, t, n

\* A zero, in bytes.
LEMMA ZeroLong == Long(UVarInt(0), Len(UVarInt(0))) /\ UVarInt(0) \in Seq(Byte) /\ Len(UVarInt(0)) \in Nat
<1> DEFINE z == UVarInt(0)
<1>1. z \in Seq(Byte)
  <2>1. 0 \in Nat
    OBVIOUS
  <2> QED
    BY <2>1, UVarIntType
<1> HIDE DEF z
<1>2. Len(z) \in Nat /\ Long(z, Len(z))
  BY <1>1, LongAs
<1> QED
  BY <1>1, <1>2 DEF z

\* Where a zero ends.
LEMMA ZeroRead ==
    ASSUME NEW b \in Seq(Byte), NEW o \in Nat, Stands(UVarInt(0), b, o)
    PROVE  ReadUVarInt(b, o).at = o + Len(UVarInt(0))
<1>1. 0 \in Nat
  OBVIOUS
<1>2. ReadUVarInt(b, o) = [value |-> 0, at |-> o + Len(UVarInt(0))]
  BY <1>1, UVarIntRead
<1> QED
  BY <1>2

\* The topic of a response.
LEMMA TopicRead ==
    ASSUME NEW n, NEW es, NEW Fs, Answers(n, es, Fs), NEW b \in Seq(Byte), NEW o \in Nat,
           Stands(TopicBytes(n, es, Fs), b, o)
    PROVE  \E parts, y : /\ PartsRead(parts, n, Fs) /\ y \in Nat
                         /\ Reads(FetchedTopic(b, o), "partitions", parts, y)
<1> DEFINE C == CompactArray(PartitionsBytes(n, es, Fs))
           z == UVarInt(0)
           q == TopicId \o C
           k == Len(C)
           f == [at \in Nat |-> FetchedPartitions(b, at)]
           id == ReadFields(<<<<"topicId", "uuid">>>>, b, Empty(o))
           partitions == With(id, "partitions", f[id.at])
           r == ReadFields(<<<<"tag", "tags">>>>, b, partitions)
<1>1. C \in Seq(Byte)
  BY PartitionsBytesType, CompactArrayType
<1>2. TopicBytes(n, es, Fs) = q \o z /\ q = TopicId \o C
  BY DEF TopicBytes
<1>3. FetchedTopic(b, o) = r
  BY DEF FetchedTopic, ReadPart
<1>4. \A at \in Nat : f[at] = FetchedPartitions(b, at)
  OBVIOUS
<1> HIDE DEF C, f
<1>5. Long(C, k) /\ k \in Nat
  BY <1>1, LongAs
<1>6. Long(q, 16 + k)
  BY <1>5, TopicIdLong, Joined
<1> HIDE DEF q, k, z
<1>7. Stands(q, b, o)
  BY <1>2, <1>6, ZeroLong, Peel DEF z
<1>8. Stands(z, b, o + (16 + k))
  BY <1>2, <1>6, ZeroLong, Peel DEF z
<1>9. Stands(TopicId, b, o) /\ Stands(C, b, o + 16)
  BY <1>2, <1>5, <1>7, TopicIdLong, Peel
<1>10. Read("uuid", b, o).at = o + 16
  <2> DEFINE s == TopicId
             h == 16
  <2>1. Long(s, h) /\ Stands(s, b, o) /\ ReadBytes(h, b, o) = Read("uuid", b, o)
    BY <1>9, TopicIdLong, MoreReadTypes
  <2> HIDE DEF s, h
  <2>2. s \in Seq(Byte) /\ Len(s) = h
    BY <2>1 DEF Long
  <2>3. ReadBytes(h, b, o) = [value |-> s, at |-> o + h]
    BY <2>1, <2>2, BytesRead
  <2>4. Read("uuid", b, o).at = o + h
    BY <2>1, <2>3
  <2> QED
    BY <2>4 DEF h
<1>11. id = With(Empty(o), "topicId", Read("uuid", b, o))
  <2>1. id = With(Empty(o), "topicId", Read("uuid", b, Empty(o).at))
    BY OneField
  <2> QED
    BY <2>1 DEF Empty
<1> HIDE DEF id
<1>12. id.at = o + 16
  BY <1>10, <1>11, WithHas
<1>13. PICK parts : /\ FetchedPartitions(b, o + 16) = [value |-> parts, at |-> (o + 16) + k]
                    /\ PartsRead(parts, n, Fs)
  <2>1. o + 16 \in Nat
    OBVIOUS
  <2> DEFINE at == o + 16
  <2>2. Stands(CompactArray(PartitionsBytes(n, es, Fs)), b, at)
    BY <1>9 DEF C
  <2>3. at \in Nat
    BY <2>1
  <2> HIDE DEF at
  <2>4. \E parts : /\ FetchedPartitions(b, at)
                         = [value |-> parts, at |-> at + Len(CompactArray(PartitionsBytes(n, es, Fs)))]
                   /\ PartsRead(parts, n, Fs)
    BY <2>2, <2>3, PartitionsRead
  <2> QED
    BY <2>4 DEF at, k, C
<1>14. Reads(partitions, "partitions", parts, (o + 16) + k)
  <2> DEFINE part == f[id.at]
  <2>1. part = [value |-> parts, at |-> (o + 16) + k]
    BY <1>4, <1>12, <1>13
  <2> HIDE DEF part
  <2>2. part.value = parts /\ part.at = (o + 16) + k
    BY <2>1
  <2>3. Reads(With(id, "partitions", part), "partitions", part.value, part.at)
    BY NowReads
  <2> QED
    BY <2>2, <2>3 DEF part
<1> HIDE DEF partitions
<1>15. r = With(partitions, "tag", Read("tags", b, partitions.at))
  BY OneField
<1> DEFINE part == Read("tags", b, partitions.at)
           at == o + (16 + k)
<1>16. part.at = at + Len(z)
  <2>1. (o + 16) + k = at /\ at \in Nat
    BY <1>5
  <2>2. part = ReadUVarInt(b, at)
    <3>1. partitions.at = at
      BY <1>14, <2>1 DEF Reads
    <3> QED
      BY <3>1, MoreReadTypes
  <2>3. Stands(z, b, at)
    BY <1>8
  <2> HIDE DEF part, at
  <2> QED
    BY <2>1, <2>2, <2>3, ZeroRead DEF z
<1>17. at + Len(z) \in Nat
  BY <1>5, ZeroLong DEF z
<1> HIDE DEF part, at, r
<1>18. Reads(With(partitions, "tag", part), "partitions", parts, part.at)
  BY <1>14, StillReads
<1>19. Reads(r, "partitions", parts, at + Len(z))
  BY <1>15, <1>16, <1>18 DEF part
<1> QED
  BY <1>3, <1>13, <1>17, <1>19

\* An array of one item, in bytes.
LEMMA OneItemLong ==
    ASSUME NEW t \in Seq(Byte)
    PROVE  /\ CompactArray(<<t>>) \in Seq(Byte)
           /\ \A b \in Seq(Byte), o \in Nat : Stands(CompactArray(<<t>>), b, o) =>
                  Stands(UVarInt(2) \o t, b, o)
<1>1. CompactArray(<<t>>) = UVarInt(2) \o t
  BY OneItem
<1>2. UVarInt(2) \in Seq(Byte)
  <2>1. 2 \in Nat
    OBVIOUS
  <2> QED
    BY <2>1, UVarIntType
<1> DEFINE c == CompactArray(<<t>>)
           w == UVarInt(2)
<1> HIDE DEF c, w
<1>3. c = w \o t /\ w \in Seq(Byte)
  BY <1>1, <1>2 DEF c, w
<1>4. c \in Seq(Byte)
  BY <1>3
<1> QED
  BY <1>3, <1>4 DEF c, w

(***************************************************************************)
(* The fetch response as the broker writes it is read to what it says of   *)
(* each partition, however long the batches of the others are (fetch.ts:   *)
(* 66): the partition with its index has the batches of its bytes.         *)
(***************************************************************************)
THEOREM ResponseIsReadAsWritten ==
    ASSUME NEW n, NEW es, NEW Fs, Answers(n, es, Fs)
    PROVE  /\ ResponseOf(n, es, Fs) \in Seq(Byte)
           /\ PartsRead(FetchResponse(ResponseOf(n, es, Fs))[1].partitions, n, Fs)
<1> DEFINE z == UVarInt(0)
           T == TopicBytes(n, es, Fs)
           C == CompactArray(<<T>>)
           p2 == Int32(0)
           p3 == Int16(0)
           q2 == z \o p2
           q3 == q2 \o p3
           q4 == q3 \o p2
           q5 == q4 \o C
           b == q5 \o z
           k == Len(z)
           l == Len(C)
<1>1. T \in Seq(Byte)
  <2> DEFINE D == CompactArray(PartitionsBytes(n, es, Fs))
  <2>1. D \in Seq(Byte)
    BY PartitionsBytesType, CompactArrayType
  <2>2. TopicId \in Seq(Byte) /\ z \in Seq(Byte)
    BY TopicIdLong, ZeroLong DEF Long
  <2>3. T = TopicId \o D \o z
    BY DEF TopicBytes
  <2> HIDE DEF D, z, T
  <2> QED
    BY <2>1, <2>2, <2>3
<1>2. ResponseOf(n, es, Fs) = b
  BY DEF ResponseOf
<1> HIDE DEF T
<1>3. C \in Seq(Byte)
  BY <1>1, OneItemLong
<1>4. Long(p2, 4) /\ Long(p3, 2) /\ Long(z, k) /\ k \in Nat
  <2>1. 0 \in Int
    OBVIOUS
  <2> QED
    BY <2>1, IntTypes, ZeroLong
<1> HIDE DEF C, p2, p3, z, k
<1>5. Long(C, l)
  BY <1>3, LongAs
<1> HIDE DEF l
<1>6. Long(q2, k + 4)
  BY <1>4, Joined
<1> HIDE DEF q2
<1>7. Long(q3, k + 4 + 2)
  BY <1>4, <1>6, Joined
<1> HIDE DEF q3
<1> DEFINE at == k + 4 + 2 + 4
<1>8. Long(q4, at)
  BY <1>4, <1>7, Joined
<1> HIDE DEF q4
<1>9. at \in Nat
  BY <1>4
<1> HIDE DEF at
<1>10. Long(q5, at + l)
  BY <1>5, <1>8, Joined
<1> HIDE DEF q5
<1>11. b \in Seq(Byte)
  BY <1>4, <1>10 DEF Long
<1>12. Stands(b, b, 0) /\ 0 \in Nat
  BY <1>11, StandsInItself
<1> HIDE DEF b
<1>13. Stands(q5, b, 0)
  BY <1>4, <1>10, <1>11, <1>12, Peel DEF b
<1>14. Stands(q4, b, 0) /\ Stands(C, b, at)
  <2>1. Stands(q4, b, 0) /\ Stands(C, b, 0 + at)
    BY <1>5, <1>8, <1>11, <1>12, <1>13, Peel DEF q5
  <2>2. 0 + at = at
    BY <1>9
  <2> QED
    BY <2>1, <2>2
<1>15. Stands(q3, b, 0)
  BY <1>4, <1>7, <1>11, <1>12, <1>14, Peel DEF q4
<1>16. Stands(q2, b, 0)
  BY <1>4, <1>6, <1>11, <1>12, <1>15, Peel DEF q3
<1>17. Stands(z, b, 0)
  BY <1>4, <1>11, <1>12, <1>16, Peel DEF q2
<1> DEFINE o == ReadFields(<<<<"tag", "tags">>, <<"throttleTimeMs", "int32">>,
                     <<"errorCode", "int16">>, <<"sessionId", "int32">>>>, b, Empty(0)).at
<1>18. o = at
  <2>1. Read("tags", b, 0).at = k
    <3>1. Read("tags", b, 0) = ReadUVarInt(b, 0)
      BY MoreReadTypes
    <3>2. ReadUVarInt(b, 0).at = 0 + k
      BY <1>11, <1>12, <1>17, ZeroRead DEF z, k
    <3>3. 0 + k = k
      BY <1>4
    <3> QED
      BY <3>1, <3>2, <3>3
  <2>2. /\ Read("int32", b, k).at = k + 4 /\ Read("int16", b, k + 4).at = k + 4 + 2
        /\ Read("int32", b, k + 4 + 2).at = at
    <3>1. /\ ReadInt(4, b, k).at = k + 4 /\ ReadInt(2, b, k + 4).at = k + 4 + 2
          /\ ReadInt(4, b, k + 4 + 2).at = at
      BY DEF ReadInt, at
    <3> QED
      BY <3>1, MoreReadTypes
  <2> QED
    BY <2>1, <2>2, FourFields
<1> DEFINE item == [x \in Nat |-> FetchedTopic(b, x)]
<1>19. FetchResponse(b) = ReadCompactArray(b, o, item).value
  BY DEF FetchResponse
<1>20. \A x \in Nat : item[x] = FetchedTopic(b, x)
  OBVIOUS
<1> HIDE DEF o, item
<1>21. Stands(UVarInt(2) \o T, b, at)
  BY <1>1, <1>9, <1>11, <1>14, OneItemLong DEF C
<1> DEFINE w == UVarInt(2)
           next == at + Len(w)
<1>22. w \in Seq(Byte)
  <2>1. 2 \in Nat
    OBVIOUS
  <2> QED
    BY <2>1, UVarIntType
<1>23. next \in Nat /\ Stands(T, b, next)
  <2>1. Stands(w \o T, b, at)
    BY <1>21
  <2> HIDE DEF w
  <2> QED
    BY <1>1, <1>9, <1>11, <1>22, <2>1, StandsApart
<1> HIDE DEF next
<1>24. PICK parts, y : /\ PartsRead(parts, n, Fs) /\ y \in Nat
                       /\ Reads(FetchedTopic(b, next), "partitions", parts, y)
  BY <1>11, <1>23, TopicRead DEF T
<1> DEFINE x == FetchedTopic(b, next).value
<1>25. item[next] = [value |-> x, at |-> y] /\ x.partitions = parts
  BY <1>20, <1>23, <1>24 DEF Reads
<1> HIDE DEF x
<1>26. ReadCompactArray(b, at, item).value[1] = x
  BY <1>1, <1>9, <1>11, <1>21, <1>24, <1>25, OneItemRead DEF next
<1>27. FetchResponse(b)[1] = x
  BY <1>18, <1>19, <1>26
<1> QED
  BY <1>2, <1>11, <1>24, <1>25, <1>27

-----------------------------------------------------------------------------
(* A produce request.                                                      *)

\* A partition of a request.
PartBytes(x, B) == Int32(x) \o CompactBytes(B) \o UVarInt(0)

\* A part of a request is read as it was written.
LEMMA PartRead ==
    ASSUME NEW x \in Int, Fits(x, 4), NEW B \in Seq(Byte)
    PROVE  /\ PartBytes(x, B) \in Seq(Byte)
           /\ \A b \in Seq(Byte), o \in Nat : Stands(PartBytes(x, B), b, o) =>
                  LET r == ProducedPartition(b, o)
                      at == o + Len(PartBytes(x, B))
                  IN  Reads(r, "index", x, at) /\ Reads(r, "bytes", B, at)
<1> DEFINE z == UVarInt(0)
           n == Len(B)
           l == UVarInt(n + 1)
           c == l \o B
           p1 == Int32(x)
           q2 == p1 \o c
           q3 == q2 \o z
           k == Len(l)
           e == Len(z)
<1>1. PartBytes(x, B) = q3
  BY DEF PartBytes, CompactBytes
<1>2. /\ Long(l, k) /\ Long(B, n) /\ Long(p1, 4) /\ Long(z, e) /\ k \in Nat /\ n \in Nat /\ e \in Nat
      /\ n + 1 \in Nat
  <2>1. n + 1 \in Nat /\ n \in Nat
    OBVIOUS
  <2>2. l \in Seq(Byte) /\ z \in Seq(Byte)
    BY <2>1, UVarIntType, ZeroLong
  <2>3. Long(p1, 4)
    BY IntTypes
  <2> HIDE DEF l, z, p1, n
  <2>4. Long(l, k) /\ Long(z, e) /\ k \in Nat /\ e \in Nat
    BY <2>2, LongAs
  <2>5. Long(B, n)
    BY LongAs DEF n
  <2> QED
    BY <2>1, <2>3, <2>4, <2>5
<1> HIDE DEF l, z, p1, k, n, e
<1>3. Long(c, k + n)
  BY <1>2, Joined
<1> HIDE DEF c
<1>4. Long(q2, 4 + (k + n))
  BY <1>2, <1>3, Joined
<1> HIDE DEF q2
<1>5. Long(q3, 4 + (k + n) + e)
  BY <1>2, <1>4, Joined
<1>6. q3 \in Seq(Byte) /\ Len(q3) = 4 + (k + n) + e
  BY <1>5 DEF Long
<1> HIDE DEF q3
<1>7. ASSUME NEW b \in Seq(Byte), NEW o \in Nat, Stands(q3, b, o)
      PROVE  LET r == ProducedPartition(b, o)
                 at == o + Len(q3)
             IN  Reads(r, "index", x, at) /\ Reads(r, "bytes", B, at)
  <2> DEFINE s == 4 + (k + n)
             f == [at \in Nat |-> ProducedRecords(b, at)]
             r1 == ReadFields(<<<<"index", "int32">>>>, b, Empty(o))
             r2 == With(r1, "bytes", f[r1.at])
             r3 == ReadFields(<<<<"tag", "tags">>>>, b, r2)
  <2>1. Long(q2, s) /\ s \in Nat
    BY <1>2, <1>4
  <2>2. o + 4 + k + n = o + s /\ o + Len(q3) = o + s + e /\ o + 4 \in Nat /\ o + 4 + k \in Nat
        /\ o + s \in Nat
    BY <1>2, <1>6
  <2> HIDE DEF s
  <2>3. Stands(q2, b, o) /\ Stands(z, b, o + s)
    BY <1>2, <1>7, <2>1, Peel DEF q3
  <2>4. Stands(p1, b, o) /\ Stands(c, b, o + 4)
    BY <1>2, <1>3, <2>3, Peel DEF q2
  <2>5. Stands(l, b, o + 4) /\ Stands(B, b, o + 4 + k)
    BY <1>2, <2>2, <2>4, Peel DEF c
  <2>6. ProducedPartition(b, o) = r3
    BY DEF ProducedPartition, ReadPart
  <2>7. \A at \in Nat : f[at] = ProducedRecords(b, at)
    OBVIOUS
  <2> HIDE DEF f
  <2>8. Reads(r1, "index", x, o + 4)
    <3> DEFINE part == Read("int32", b, o)
    <3>1. r1 = With(Empty(o), "index", Read("int32", b, Empty(o).at))
      BY OneField
    <3>2. r1 = With(Empty(o), "index", part)
      BY <3>1 DEF Empty
    <3>3. part = ReadInt(4, b, o) /\ ReadInt(4, b, o).value = x
      BY <2>4, IntsRead, MoreReadTypes DEF p1
    <3>4. ReadInt(4, b, o) = [value |-> ReadInt(4, b, o).value, at |-> o + 4]
      BY IntAt
    <3> HIDE DEF part
    <3>5. part.value = x /\ part.at = o + 4
      BY <3>3, <3>4
    <3>6. Reads(With(Empty(o), "index", part), "index", part.value, part.at)
      BY NowReads
    <3> QED
      BY <3>2, <3>5, <3>6
  <2> HIDE DEF r1
  <2>9. f[r1.at] = [value |-> B, at |-> o + s]
    <3> DEFINE at == o + 4
               u == ReadUVarInt(b, at)
    <3>1. r1.at = at /\ at \in Nat
      BY <2>2, <2>8 DEF Reads
    <3>2. ReadUVarInt(b, at) = [value |-> n + 1, at |-> at + k]
      BY <1>2, <2>2, <2>5, UVarIntRead DEF l, k
    <3>3. ReadBytes(n, b, at + k) = [value |-> B, at |-> at + k + n]
      BY <2>2, <2>5, BytesRead DEF n
    <3>4. ProducedRecords(b, at) = ReadBytes(u.value - 1, b, u.at)
      BY DEF ProducedRecords
    <3>5. u.value - 1 = n /\ u.at = at + k
      <4> DEFINE h == n + 1
                 y == at + k
      <4>1. h - 1 = n
        BY <1>2
      <4>2. u = [value |-> h, at |-> y]
        BY <3>2
      <4> HIDE DEF h, y, u
      <4>3. u.value = h /\ u.at = y
        BY <4>2
      <4> QED
        BY <4>1, <4>3 DEF y
    <3>6. at + k + n = o + s
      BY <2>2
    <3> HIDE DEF at, u
    <3> QED
      BY <2>7, <3>1, <3>3, <3>4, <3>5, <3>6
  <2>10. Reads(r2, "index", x, o + s) /\ Reads(r2, "bytes", B, o + s)
    <3> DEFINE part == f[r1.at]
    <3>1. part.value = B /\ part.at = o + s
      BY <2>9
    <3> HIDE DEF part
    <3>2. Reads(With(r1, "bytes", part), "index", x, part.at)
      BY <2>8, StillReads
    <3>3. Reads(With(r1, "bytes", part), "bytes", part.value, part.at)
      BY NowReads
    <3> QED
      BY <3>1, <3>2, <3>3 DEF part
  <2> HIDE DEF r2
  <2>11. r3 = With(r2, "tag", Read("tags", b, r2.at))
    BY OneField
  <2> DEFINE part == Read("tags", b, r2.at)
  <2>12. part.at = o + s + e
    <3> DEFINE at == o + s
    <3>1. part = ReadUVarInt(b, at)
      BY <2>10, MoreReadTypes DEF Reads
    <3>2. at \in Nat /\ Stands(z, b, at)
      BY <2>2, <2>3
    <3> HIDE DEF part, at
    <3>3. ReadUVarInt(b, at).at = at + e
      BY <3>2, ZeroRead DEF z, e
    <3> QED
      BY <3>1, <3>3 DEF at
  <2> HIDE DEF part, r3
  <2>13. Reads(With(r2, "tag", part), "index", x, part.at)
    BY <2>10, StillReads
  <2>14. Reads(With(r2, "tag", part), "bytes", B, part.at)
    BY <2>10, StillReads
  <2> QED
    BY <2>2, <2>6, <2>11, <2>12, <2>13, <2>14 DEF part
<1> QED
  BY <1>1, <1>6, <1>7

\* Part i of a request is Bs[i] for xs[i].
PartsBytes(n, xs, Bs) == [i \in 1 .. n |-> PartBytes(xs[i], Bs[i])]
RequestTopic(topic, n, xs, Bs) ==
    CompactString(topic) \o CompactArray(PartsBytes(n, xs, Bs)) \o UVarInt(0)
RequestOf(acks, topic, n, xs, Bs) ==
    UVarInt(0) \o CompactString(Null) \o Int16(acks) \o Int32(30000)
    \o CompactArray(<<RequestTopic(topic, n, xs, Bs)>>) \o UVarInt(0)

\* Bytes for n partitions.
Asks(n, xs, Bs) ==
    /\ n \in Nat
    /\ \A i \in 1 .. n : xs[i] \in Int /\ Fits(xs[i], 4) /\ Bs[i] \in Seq(Byte)

\* The parts of a request are bytes.
LEMMA PartsBytesType ==
    ASSUME NEW n, NEW xs, NEW Bs, Asks(n, xs, Bs)
    PROVE  /\ PartsBytes(n, xs, Bs) \in Seq(Seq(Byte)) /\ Len(PartsBytes(n, xs, Bs)) = n
           /\ \A i \in 1 .. n : PartsBytes(n, xs, Bs)[i] = PartBytes(xs[i], Bs[i])
<1> DEFINE e(i) == PartBytes(xs[i], Bs[i])
           X == Seq(Byte)
           s == PartsBytes(n, xs, Bs)
<1>1. n \in Nat
  BY DEF Asks
<1>2. ASSUME NEW i \in 1 .. n PROVE e(i) \in X
  <2>1. xs[i] \in Int /\ Fits(xs[i], 4) /\ Bs[i] \in Seq(Byte)
    BY DEF Asks
  <2> QED
    BY <2>1, PartRead
<1>3. s = [i \in 1 .. n |-> e(i)]
  BY DEF PartsBytes
<1> HIDE DEF e, X, s
<1>4. s \in [1 .. n -> X] /\ \A i \in 1 .. n : s[i] = e(i)
  BY <1>2, <1>3
<1>5. s \in Seq(X) /\ Len(s) = n
  BY <1>1, <1>4, FunctionIsSeq
<1> QED
  BY <1>4, <1>5 DEF s, X, e

\* What the broker makes of them.
PartsGot(parts, n, xs, Bs) ==
    /\ parts = [i \in 1 .. n |-> parts[i]]
    /\ \A i \in 1 .. n : parts[i].index = xs[i] /\ parts[i].bytes = Bs[i]

\* The parts of a request are read as they were written.
LEMMA PartsGotRead ==
    ASSUME NEW n, NEW xs, NEW Bs, Asks(n, xs, Bs), NEW b \in Seq(Byte), NEW o \in Nat,
           Stands(CompactArray(PartsBytes(n, xs, Bs)), b, o)
    PROVE  \E parts, y : /\ ReadCompactArray(b, o, [at \in Nat |-> ProducedPartition(b, at)])
                               = [value |-> parts, at |-> y]
                         /\ y \in Nat /\ PartsGot(parts, n, xs, Bs)
<1> DEFINE items == PartsBytes(n, xs, Bs)
           item == [at \in Nat |-> ProducedPartition(b, at)]
<1>1. /\ items \in Seq(Seq(Byte)) /\ Len(items) = n
      /\ \A i \in 1 .. n : items[i] = PartBytes(xs[i], Bs[i])
  BY PartsBytesType
<1>3. \A at \in Nat : item[at] = ProducedPartition(b, at)
  OBVIOUS
<1>4. Stands(CompactArray(items), b, o)
  OBVIOUS
<1> HIDE DEF items, item
<1>5. ASSUME NEW i \in 1 .. n, NEW at \in Nat, Stands(items[i], b, at)
      PROVE  LET r == item[at]
                 end == at + Len(items[i])
             IN  Reads(r, "index", xs[i], end) /\ Reads(r, "bytes", Bs[i], end)
  <2>1. xs[i] \in Int /\ Fits(xs[i], 4) /\ Bs[i] \in Seq(Byte)
    BY DEF Asks
  <2> DEFINE B == Bs[i]
             x == xs[i]
  <2>2. Stands(PartBytes(x, B), b, at) /\ items[i] = PartBytes(x, B) /\ item[at] = ProducedPartition(b, at)
    BY <1>1, <1>3, <1>5
  <2>3. x \in Int /\ Fits(x, 4) /\ B \in Seq(Byte)
    BY <2>1
  <2> HIDE DEF B, x
  <2>4. LET r == ProducedPartition(b, at)
            end == at + Len(PartBytes(x, B))
        IN  Reads(r, "index", x, end) /\ Reads(r, "bytes", B, end)
    BY <2>2, <2>3, PartRead
  <2> QED
    BY <2>2, <2>4 DEF B, x
<1>6. Passes(item, items, b)
  <2> SUFFICES ASSUME NEW i \in 1 .. Len(items), NEW at \in Nat, Stands(items[i], b, at)
               PROVE  item[at] = [value |-> item[at].value, at |-> at + Len(items[i])]
    BY DEF Passes
  <2>1. i \in 1 .. n
    BY <1>1
  <2>2. Reads(item[at], "index", xs[i], at + Len(items[i]))
    BY <1>5, <2>1
  <2> QED
    BY <2>2 DEF Reads
<1>12. PICK A : ReadCompactly(A, items, b, o, item)
  BY <1>1, <1>4, <1>6, CompactArrayRead
<1>7. /\ Laid(A, items, b, o + Len(UVarInt(Len(items) + 1)))
      /\ ReadCompactArray(b, o, item)
            = [value |-> [i \in 1 .. Len(items) |-> item[A[i - 1]].value],
               at |-> o + Len(CompactArray(items))]
  BY <1>12 DEF ReadCompactly
<1> DEFINE parts == [i \in 1 .. n |-> item[A[i - 1]].value]
           y == o + Len(CompactArray(items))
<1>8. ReadCompactArray(b, o, item) = [value |-> parts, at |-> y]
  BY <1>1, <1>7
<1>9. parts = [i \in 1 .. n |-> parts[i]] /\ \A i \in 1 .. n : parts[i] = item[A[i - 1]].value
  OBVIOUS
<1>13. y \in Nat
  <2>1. CompactArray(items) \in Seq(Byte)
    BY <1>1, CompactArrayType
  <2> QED
    BY <2>1
<1> HIDE DEF parts, y
<1>10. ASSUME NEW i \in 1 .. n
       PROVE  parts[i].index = xs[i] /\ parts[i].bytes = Bs[i]
  <2>1. n \in Nat
    BY DEF Asks
  <2>2. i - 1 \in 0 .. n /\ i \in 1 .. Len(items)
    BY <1>1, <2>1
  <2>3. A[i - 1] \in Nat /\ Stands(items[i], b, A[i - 1])
    BY <1>1, <1>7, <2>2 DEF Laid
  <2>4. /\ Reads(item[A[i - 1]], "index", xs[i], A[i - 1] + Len(items[i]))
        /\ Reads(item[A[i - 1]], "bytes", Bs[i], A[i - 1] + Len(items[i]))
    BY <1>5, <2>3
  <2>5. parts[i]["index"] = xs[i] /\ parts[i]["bytes"] = Bs[i]
    BY <1>9, <2>4 DEF Reads
  <2> QED
    BY <2>5
<1>11. PartsGot(parts, n, xs, Bs)
  BY <1>9, <1>10 DEF PartsGot
<1> QED
  BY <1>8, <1>11, <1>13 DEF item

\* The topic of a request.
LEMMA RequestTopicRead ==
    ASSUME NEW topic \in Seq(Byte), NEW n, NEW xs, NEW Bs, Asks(n, xs, Bs), NEW b \in Seq(Byte),
           NEW o \in Nat, Stands(RequestTopic(topic, n, xs, Bs), b, o)
    PROVE  \E parts, y : /\ PartsGot(parts, n, xs, Bs) /\ y \in Nat
                         /\ ProducedTopic(b, o) = [value |-> parts, at |-> y]
<1> DEFINE C == CompactArray(PartsBytes(n, xs, Bs))
           z == UVarInt(0)
           t == CompactString(topic)
           q == t \o C
           k == Len(C)
           l == Len(t)
           at == o + l
<1>1. C \in Seq(Byte)
  BY PartsBytesType, CompactArrayType
<1>2. t \in Seq(Byte)
  <2>1. Len(topic) + 1 \in Nat /\ topic # Null
    BY NullAssumption DEF Byte
  <2>2. UVarInt(Len(topic) + 1) \in Seq(Byte) /\ t = UVarInt(Len(topic) + 1) \o topic
    BY <2>1, UVarIntType DEF CompactString
  <2> HIDE DEF t
  <2> QED
    BY <2>2
<1>3. RequestTopic(topic, n, xs, Bs) = q \o z
  BY DEF RequestTopic
<1>4. z \in Seq(Byte)
  BY ZeroLong
<1> HIDE DEF C, t, z
<1>5. Stands(q, b, o)
  <2>1. q \in Seq(Byte)
    BY <1>1, <1>2
  <2> HIDE DEF q
  <2> QED
    BY <1>3, <1>4, <2>1, StandsApart
<1>6. Stands(t, b, o) /\ Stands(C, b, at)
  BY <1>1, <1>2, <1>5, StandsApart
<1>7. at \in Nat
  BY <1>2
<1>8. ReadCompactString(b, o).at = at
  <2>1. topic \in Text /\ Stands(CompactString(topic), b, o)
    BY <1>6 DEF t, Text
  <2>2. ReadCompactString(b, o) = [value |-> topic, at |-> o + Len(CompactString(topic))]
    BY <2>1, CompactStringRead
  <2> QED
    BY <2>2 DEF t
<1> HIDE DEF at, l
<1>9. ProducedTopic(b, o) = ReadCompactArray(b, at, [y \in Nat |-> ProducedPartition(b, y)])
  BY <1>8 DEF ProducedTopic
<1>10. \E parts, y : /\ ReadCompactArray(b, at, [x \in Nat |-> ProducedPartition(b, x)])
                               = [value |-> parts, at |-> y]
                     /\ y \in Nat /\ PartsGot(parts, n, xs, Bs)
  BY <1>6, <1>7, PartsGotRead DEF C
<1> QED
  BY <1>9, <1>10

(***************************************************************************)
(* A produce request as produce.ts writes it (its header of a null         *)
(* transactional id, acks and a timeout, the topic, the partitions) is     *)
(* read by the protocol's definition to the partitions with their bytes.   *)
(***************************************************************************)
LEMMA RequestOfRead ==
    ASSUME NEW acks \in Int, NEW topic \in Seq(Byte), NEW n, NEW xs, NEW Bs, Asks(n, xs, Bs)
    PROVE  /\ RequestOf(acks, topic, n, xs, Bs) \in Seq(Byte)
           /\ PartsGot(Produces(RequestOf(acks, topic, n, xs, Bs)), n, xs, Bs)
<1> DEFINE z == UVarInt(0)
           T == RequestTopic(topic, n, xs, Bs)
           C == CompactArray(<<T>>)
           p1 == CompactString(Null)
           p2 == Int16(acks)
           ms == 30000
           p3 == Int32(ms)
           q2 == z \o p1
           q3 == q2 \o p2
           q4 == q3 \o p3
           q5 == q4 \o C
           b == q5 \o z
           k == Len(z)
           l == Len(C)
           j == Len(p1)
<1>1. T \in Seq(Byte)
  <2> DEFINE D == CompactArray(PartsBytes(n, xs, Bs))
             t == CompactString(topic)
  <2>1. D \in Seq(Byte)
    BY PartsBytesType, CompactArrayType
  <2>2. t \in Seq(Byte)
    <3>1. Len(topic) + 1 \in Nat /\ topic # Null
      BY NullAssumption DEF Byte
    <3>2. UVarInt(Len(topic) + 1) \in Seq(Byte) /\ t = UVarInt(Len(topic) + 1) \o topic
      BY <3>1, UVarIntType DEF CompactString
    <3> HIDE DEF t
    <3> QED
      BY <3>2
  <2>4. z \in Seq(Byte)
    BY ZeroLong
  <2>3. T = t \o D \o z
    BY DEF RequestTopic
  <2> HIDE DEF D, z, T, t
  <2> QED
    BY <2>1, <2>2, <2>3, <2>4
<1>2. RequestOf(acks, topic, n, xs, Bs) = b
  BY DEF RequestOf
<1> HIDE DEF T
<1>3. C \in Seq(Byte)
  BY <1>1, OneItemLong
<1>27. p1 = z
  BY DEF CompactString
<1>4. Long(p2, 2) /\ Long(p3, 4) /\ Long(z, k) /\ k \in Nat
  <2>1. ms \in Int
    OBVIOUS
  <2> HIDE DEF ms
  <2> QED
    BY <2>1, IntTypes, ZeroLong
<1> HIDE DEF C, p1, p2, p3, z, k, ms
<1>28. Long(p1, j) /\ j = k
  BY <1>4, <1>27 DEF k
<1>5. Long(C, l)
  BY <1>3, LongAs
<1> HIDE DEF l, j
<1>6. Long(q2, k + j)
  BY <1>4, <1>28, Joined
<1> HIDE DEF q2
<1>7. Long(q3, k + j + 2)
  BY <1>4, <1>6, Joined
<1> HIDE DEF q3
<1> DEFINE at == k + j + 2 + 4
<1>8. Long(q4, at)
  BY <1>4, <1>7, Joined
<1> HIDE DEF q4
<1>9. at \in Nat
  BY <1>4, <1>28
<1> HIDE DEF at
<1>10. Long(q5, at + l)
  BY <1>5, <1>8, Joined
<1> HIDE DEF q5
<1>11. b \in Seq(Byte)
  BY <1>4, <1>10 DEF Long
<1>12. Stands(b, b, 0) /\ 0 \in Nat
  BY <1>11, StandsInItself
<1> HIDE DEF b
<1>13. Stands(q5, b, 0)
  BY <1>4, <1>10, <1>11, <1>12, Peel DEF b
<1>14. Stands(q4, b, 0) /\ Stands(C, b, at)
  <2>1. Stands(q4, b, 0) /\ Stands(C, b, 0 + at)
    BY <1>5, <1>8, <1>11, <1>12, <1>13, Peel DEF q5
  <2>2. 0 + at = at
    BY <1>9
  <2> QED
    BY <2>1, <2>2
<1>15. Stands(q3, b, 0)
  BY <1>4, <1>7, <1>11, <1>12, <1>14, Peel DEF q4
<1>16. Stands(q2, b, 0)
  BY <1>4, <1>6, <1>11, <1>12, <1>15, Peel DEF q3
<1>17. Stands(z, b, 0) /\ Stands(p1, b, 0 + k)
  BY <1>4, <1>11, <1>12, <1>16, <1>28, Peel DEF q2
<1> DEFINE o == ReadFields(<<<<"tag", "tags">>, <<"transactionalId", "compactString">>,
                     <<"acks", "int16">>, <<"timeoutMs", "int32">>>>, b, Empty(0)).at
<1>18. o = at
  <2>5. 0 + k = k
    BY <1>4
  <2>1. Read("tags", b, 0).at = k
    <3>1. Read("tags", b, 0) = ReadUVarInt(b, 0)
      BY MoreReadTypes
    <3>2. ReadUVarInt(b, 0).at = 0 + k
      BY <1>11, <1>12, <1>17, ZeroRead DEF z, k
    <3> QED
      BY <2>5, <3>1, <3>2
  <2>4. Read("compactString", b, k).at = k + j
    <3>1. Null \in Text /\ Stands(CompactString(Null), b, k)
      BY <1>17, <2>5 DEF p1, Text
    <3>2. ReadCompactString(b, k) = [value |-> Null, at |-> k + Len(CompactString(Null))]
      BY <1>4, <1>11, <3>1, CompactStringRead
    <3> QED
      BY <3>2, MoreReadTypes DEF j, p1
  <2>2. /\ Read("int16", b, k + j).at = k + j + 2
        /\ Read("int32", b, k + j + 2).at = at
    <3>1. /\ ReadInt(2, b, k + j).at = k + j + 2
          /\ ReadInt(4, b, k + j + 2).at = at
      BY DEF ReadInt, at
    <3> QED
      BY <3>1, MoreReadTypes
  <2> QED
    BY <2>1, <2>2, <2>4, FourFields
<1> DEFINE item == [x \in Nat |-> ProducedTopic(b, x)]
<1>19. Produces(b) = ReadCompactArray(b, o, item).value[1]
  BY DEF Produces
<1>20. \A x \in Nat : item[x] = ProducedTopic(b, x)
  OBVIOUS
<1> HIDE DEF o, item
<1>21. Stands(UVarInt(2) \o T, b, at)
  BY <1>1, <1>9, <1>11, <1>14, OneItemLong DEF C
<1> DEFINE w == UVarInt(2)
           next == at + Len(w)
<1>22. w \in Seq(Byte)
  <2>1. 2 \in Nat
    OBVIOUS
  <2> QED
    BY <2>1, UVarIntType
<1>23. next \in Nat /\ Stands(T, b, next)
  <2>1. Stands(w \o T, b, at)
    BY <1>21
  <2> HIDE DEF w
  <2> QED
    BY <1>1, <1>9, <1>11, <1>22, <2>1, StandsApart
<1> HIDE DEF next
<1>24. PICK parts, y : /\ PartsGot(parts, n, xs, Bs) /\ y \in Nat
                       /\ ProducedTopic(b, next) = [value |-> parts, at |-> y]
  BY <1>11, <1>23, RequestTopicRead DEF T
<1>25. item[next] = [value |-> parts, at |-> y]
  BY <1>20, <1>23, <1>24
<1>26. ReadCompactArray(b, at, item).value[1] = parts
  <2>1. item[at + Len(UVarInt(2))] = [value |-> parts, at |-> y] /\ y \in Nat
    BY <1>24, <1>25 DEF next
  <2>2. T \in Seq(Byte) /\ b \in Seq(Byte) /\ at \in Nat
    BY <1>1, <1>9, <1>11
  <2> HIDE DEF T, b, at
  <2> QED
    BY <1>21, <2>1, <2>2, OneItemRead
<1>29. Produces(b) = parts
  BY <1>18, <1>19, <1>26
<1> QED
  BY <1>2, <1>11, <1>24, <1>29

(***************************************************************************)
(* The request that produce.ts writes for the batches of a topic is read,  *)
(* by the protocol's definition, to each of these with its partition.      *)
(***************************************************************************)
THEOREM RequestIsReadAsWritten ==
    ASSUME NEW acks \in Int, NEW topic \in Seq(Byte), NEW n \in Nat,
           NEW batches, DOMAIN batches = 1 .. n,
           \A i \in 1 .. n : /\ batches[i].index \in Int /\ Fits(batches[i].index, 4)
                             /\ TypedBatch(batches[i]) /\ Writable(batches[i])
    PROVE  LET parts == Produces(ProduceRequest(acks, topic, batches))
           IN  /\ ProduceRequest(acks, topic, batches) \in Seq(Byte)
               /\ parts = [i \in 1 .. n |-> parts[i]]
               /\ \A i \in 1 .. n : /\ parts[i].index = batches[i].index
                                    /\ parts[i].bytes = EncodedBatch(batches[i])
<1> DEFINE xs == [i \in 1 .. n |-> batches[i].index]
           Bs == [i \in 1 .. n |-> EncodedBatch(batches[i])]
<1>1. \A i \in 1 .. n : xs[i] = batches[i].index /\ Bs[i] = EncodedBatch(batches[i])
  OBVIOUS
<1> HIDE DEF xs, Bs
<1>2. ASSUME NEW i \in 1 .. n PROVE Bs[i] \in Seq(Byte)
  BY <1>1, BatchIsReadAsWritten DEF Framed
<1>3. Asks(n, xs, Bs)
  BY <1>1, <1>2 DEF Asks
<1>4. [i \in DOMAIN batches |-> EncodedPartition(batches[i])] = PartsBytes(n, xs, Bs)
  <2>1. ASSUME NEW i \in 1 .. n PROVE EncodedPartition(batches[i]) = PartBytes(xs[i], Bs[i])
    <3> DEFINE x == batches[i].index
               B == EncodedBatch(batches[i])
    <3>1. xs[i] = x /\ Bs[i] = B
      BY <1>1
    <3>2. EncodedPartition(batches[i]) = PartBytes(x, B)
      BY DEF EncodedPartition, PartBytes
    <3> HIDE DEF x, B
    <3> QED
      BY <3>1, <3>2
  <2> QED
    BY <2>1 DEF PartsBytes
<1>5. ProduceRequest(acks, topic, batches) = RequestOf(acks, topic, n, xs, Bs)
  <2> DEFINE P == PartsBytes(n, xs, Bs)
             Q == [i \in DOMAIN batches |-> EncodedPartition(batches[i])]
             with(items) == UVarInt(0) \o CompactString(Null) \o Int16(acks) \o Int32(30000)
                            \o CompactArray(<<CompactString(topic) \o CompactArray(items)
                                              \o UVarInt(0)>>) \o UVarInt(0)
  <2>1. ProduceRequest(acks, topic, batches) = with(Q)
    BY DEF ProduceRequest
  <2>2. RequestOf(acks, topic, n, xs, Bs) = with(P)
    BY DEF RequestOf, RequestTopic
  <2>3. Q = P
    BY <1>4
  <2> HIDE DEF P, Q, with
  <2> QED
    BY <2>1, <2>2, <2>3
<1>6. /\ RequestOf(acks, topic, n, xs, Bs) \in Seq(Byte)
      /\ PartsGot(Produces(RequestOf(acks, topic, n, xs, Bs)), n, xs, Bs)
  BY <1>3, RequestOfRead
<1> QED
  BY <1>1, <1>5, <1>6 DEF PartsGot

-----------------------------------------------------------------------------
(* Sequences of anything.                                                  *)

\* What belongs to a set of sequences is a sequence.
LEMMA IsSequence ==
    ASSUME NEW X, NEW s \in Seq(X)
    PROVE  Sequence(s) /\ Len(s) \in Nat /\ DOMAIN s = 1 .. Len(s) /\ \A i \in 1 .. Len(s) : s[i] \in X
<1> DEFINE n == Len(s)
           Y == ToSet(s)
<1>1. n \in Nat /\ DOMAIN s = 1 .. n /\ s = [i \in 1 .. n |-> s[i]] /\ \A i \in 1 .. n : s[i] \in X
  OBVIOUS
<1>2. \A i \in 1 .. n : s[i] \in Y
  BY <1>1 DEF ToSet
<1> HIDE DEF n, Y
<1>3. s \in [1 .. n -> Y]
  BY <1>1, <1>2
<1>4. s \in Seq(Y)
  BY <1>1, <1>3, FunctionIsSeq
<1> QED
  BY <1>1, <1>4 DEF Sequence, n, Y

\* The indices of a sequence.
LEMMA SequenceDomain ==
    ASSUME NEW s, Sequence(s)
    PROVE  Len(s) \in Nat /\ DOMAIN s = 1 .. Len(s)
<1> DEFINE Y == ToSet(s)
<1>1. s \in Seq(Y)
  BY DEF Sequence
<1> HIDE DEF Y
<1> QED
  BY <1>1

\* What is listed is a sequence.
LEMMA Listed ==
    ASSUME NEW n \in Nat, NEW s, s = [i \in 1 .. n |-> s[i]]
    PROVE  Sequence(s) /\ Len(s) = n
<1> DEFINE Y == {s[i] : i \in 1 .. n}
<1>1. \A i \in 1 .. n : s[i] \in Y
  OBVIOUS
<1> HIDE DEF Y
<1>2. s \in [1 .. n -> Y]
  BY <1>1
<1>3. s \in Seq(Y) /\ Len(s) = n
  BY <1>2, FunctionIsSeq
<1> QED
  BY <1>3, IsSequence

\* One sequence after another.
LEMMA InTurn ==
    ASSUME NEW s, NEW t, Sequence(s), Sequence(t)
    PROVE  /\ Sequence(s \o t) /\ Len(s \o t) = Len(s) + Len(t)
           /\ \A i \in 1 .. Len(s) : (s \o t)[i] = s[i]
           /\ \A i \in 1 .. Len(t) : (s \o t)[Len(s) + i] = t[i]
<1> DEFINE X == ToSet(s) \cup ToSet(t)
<1>1. s \in Seq(X) /\ t \in Seq(X)
  <2> DEFINE A == ToSet(s)
             B == ToSet(t)
  <2>1. s \in Seq(A) /\ t \in Seq(B)
    BY DEF Sequence
  <2>2. X = A \cup B
    OBVIOUS
  <2> HIDE DEF A, B, X
  <2> QED
    BY <2>1, <2>2
<1> HIDE DEF X
<1>2. s \o t \in Seq(X)
  BY <1>1
<1>3. Sequence(s \o t)
  BY <1>2, IsSequence
<1> QED
  BY <1>1, <1>3

\* An item more.
LEMMA OneMore ==
    ASSUME NEW s, Sequence(s), NEW x
    PROVE  /\ Sequence(Append(s, x)) /\ Len(Append(s, x)) = Len(s) + 1
           /\ \A i \in 1 .. Len(s) : Append(s, x)[i] = s[i]
           /\ Append(s, x)[Len(s) + 1] = x
<1> DEFINE X == ToSet(s) \cup {x}
<1>1. s \in Seq(X) /\ x \in X
  <2> DEFINE A == ToSet(s)
  <2>1. s \in Seq(A)
    BY DEF Sequence
  <2>2. X = A \cup {x}
    OBVIOUS
  <2> HIDE DEF A, X
  <2> QED
    BY <2>1, <2>2
<1> HIDE DEF X
<1>2. Append(s, x) \in Seq(X)
  BY <1>1
<1>3. Sequence(Append(s, x))
  BY <1>2, IsSequence
<1> QED
  BY <1>1, <1>3

\* v is w and maybe more.
Extends(w, v) == Len(w) \in Nat /\ Len(v) \in Nat /\ Len(w) <= Len(v) /\ \A i \in 1 .. Len(w) : v[i] = w[i]

-----------------------------------------------------------------------------
(* What is sent, appended or cleaned later changes nothing about what a    *)
(* batch holds.                                                            *)

\* What a batch holds stays true as more is written and cleaned.
LEMMA HoldsLater ==
    ASSUME NEW w, NEW c, NEW v, NEW e, Extends(w, v), c \subseteq e,
           NEW content, NEW first \in Nat, NEW next \in Nat, first < next, next <= Len(w),
           Holds(w, c, content, first, next)
    PROVE  Holds(v, e, content, first, next)
<1> SUFFICES ASSUME content.supported PROVE Holds(v, e, content, first, next)
  BY DEF Holds
<1> DEFINE r == content.records
           n == Len(r)
<1>1. /\ content.baseOffset = first /\ content.lastOffsetDelta = next - first - 1
      /\ Sequence(r)
      /\ n = next - first \/ (n = 0 /\ first .. next - 1 \subseteq c)
      /\ \A j \in 1 .. n : Gives(w, content, first, j)
  BY DEF Holds
<1> HIDE DEF r, n
<1>2. n = next - first \/ (n = 0 /\ first .. next - 1 \subseteq e)
  BY <1>1
<1>3. ASSUME NEW j \in 1 .. n PROVE Gives(v, content, first, j)
  <2>1. Gives(w, content, first, j)
    BY <1>1
  <2>2. first + j \in 1 .. Len(w)
    BY <1>1 DEF Extends
  <2>3. v[first + j] = w[first + j]
    BY <2>2 DEF Extends
  <2> QED
    BY <2>1, <2>3 DEF Gives
<1> QED
  BY <1>1, <1>2, <1>3 DEF Holds, r, n

\* A batch stays one as more is written and cleaned.
LEMMA BatchedLater ==
    ASSUME NEW w, NEW c, NEW v, NEW e, Extends(w, v), c \subseteq e,
           NEW bytes, NEW content, NEW first, NEW next, next <= Len(w),
           Batched(w, c, bytes, content, first, next)
    PROVE  Batched(v, e, bytes, content, first, next)
<1>1. first \in Nat /\ next \in Nat /\ first < next /\ Holds(w, c, content, first, next)
  BY DEF Batched
<1>2. Holds(v, e, content, first, next)
  BY <1>1, HoldsLater
<1> QED
  BY <1>2 DEF Batched

\* Where the batches of a log are.
LEMMA LogEnds ==
    ASSUME NEW l, NEW w, NEW c, InLog(l, w, c)
    PROVE  /\ Len(l) \in Nat /\ DOMAIN l = 1 .. Len(l) /\ EndOf(l) \in Nat
           /\ l = <<>> <=> Len(l) = 0
           /\ Len(l) > 0 => EndOf(l) = l[Len(l)].next
           /\ \A i \in 1 .. Len(l) :
                  /\ l[i].first \in Nat /\ l[i].next \in Nat /\ l[i].first < l[i].next
                  /\ l[i].next <= EndOf(l)
<1> DEFINE X == [first : Nat, next : Nat, bytes : Seq(Byte)]
           n == Len(l)
<1>1. l \in Seq(X)
  BY DEF InLog
<1> HIDE DEF X
<1>2. n \in Nat /\ DOMAIN l = 1 .. n /\ (l = <<>> <=> n = 0) /\ \A i \in 1 .. n : l[i] \in X
  BY <1>1
<1>3. Last(l) = l[n]
  BY DEF Last
<1> HIDE DEF n
<1>4. ASSUME NEW i \in 1 .. n PROVE l[i].first \in Nat /\ l[i].next \in Nat /\ l[i].first < l[i].next
  BY <1>2 DEF InLog, Batched
<1>5. EndOf(l) = IF n = 0 THEN 0 ELSE l[n].next
  BY <1>2, <1>3 DEF EndOf
<1>6. EndOf(l) \in Nat
  BY <1>2, <1>4, <1>5
<1>7. ASSUME NEW i \in 1 .. n PROVE l[i].next <= EndOf(l)
  <2>1. n # 0 /\ n \in 1 .. n
    BY <1>2
  <2>2. CASE i = n
    BY <1>4, <1>5, <2>1, <2>2
  <2>3. CASE i < n
    <3>1. l[i].next <= l[n].first
      BY <1>2, <2>1, <2>3 DEF InLog, Ordered
    <3> QED
      BY <1>4, <1>5, <2>1, <3>1
  <2> QED
    BY <1>2, <2>2, <2>3
<1> QED
  BY <1>2, <1>4, <1>5, <1>6, <1>7 DEF n

\* A log stays one as more is written and cleaned.
LEMMA LogLater ==
    ASSUME NEW l, NEW w, NEW c, InLog(l, w, c), EndOf(l) <= Len(w),
           NEW v, Extends(w, v), NEW e, c \subseteq e, e \subseteq 0 .. EndOf(l) - 1
    PROVE  InLog(l, v, e)
<1>1. /\ Len(l) \in Nat /\ DOMAIN l = 1 .. Len(l) /\ EndOf(l) \in Nat
      /\ \A i \in 1 .. Len(l) : l[i].next \in Nat /\ l[i].next <= EndOf(l)
  BY LogEnds
<1>2. ASSUME NEW i \in DOMAIN l
      PROVE  Batched(v, e, l[i].bytes, Content(l[i].bytes), l[i].first, l[i].next)
  <2>1. Batched(w, c, l[i].bytes, Content(l[i].bytes), l[i].first, l[i].next)
    BY DEF InLog
  <2>2. l[i].next <= Len(w)
    BY <1>1 DEF Extends
  <2> QED
    BY <2>1, <2>2, BatchedLater
<1>3. Covered(l, e)
  BY DEF InLog, Covered
<1> QED
  BY <1>2, <1>3 DEF InLog

\* A batch more.
LEMMA LogAppended ==
    ASSUME NEW l, NEW w, NEW c, InLog(l, w, c), NEW bytes, NEW next,
           Batched(w, c, bytes, Content(bytes), EndOf(l), next)
    PROVE  LET k == Append(l, [first |-> EndOf(l), next |-> next, bytes |-> bytes])
           IN  InLog(k, w, c) /\ EndOf(k) = next
<1> DEFINE e == [first |-> EndOf(l), next |-> next, bytes |-> bytes]
           k == Append(l, e)
           X == [first : Nat, next : Nat, bytes : Seq(Byte)]
           n == Len(l)
<1>1. /\ n \in Nat /\ DOMAIN l = 1 .. n /\ EndOf(l) \in Nat
      /\ \A i \in 1 .. n : /\ l[i].first \in Nat /\ l[i].next \in Nat /\ l[i].first < l[i].next
                           /\ l[i].next <= EndOf(l)
  BY LogEnds
<1>2. next \in Nat /\ EndOf(l) < next /\ bytes \in Seq(Byte)
  BY DEF Batched, Framed
<1>3. e.first = EndOf(l) /\ e.next = next /\ e.bytes = bytes /\ e \in X /\ l \in Seq(X)
  BY <1>1, <1>2 DEF InLog
<1> HIDE DEF X, e
<1>4. k \in Seq(X) /\ Len(k) = n + 1 /\ DOMAIN k = 1 .. n + 1 /\ k[n + 1] = e /\ \A i \in 1 .. n : k[i] = l[i]
  BY <1>3
<1>5. EndOf(k) = next
  <2>1. Last(k) = k[Len(k)]
    BY DEF Last
  <2>2. k # <<>>
    BY <1>1, <1>4
  <2> QED
    BY <1>3, <1>4, <2>1, <2>2 DEF EndOf
<1> HIDE DEF k, n
<1>6. \A i \in 1 .. n + 1 : i \in 1 .. n \/ i = n + 1
  BY <1>1
<1>7. ASSUME NEW i \in DOMAIN k
      PROVE  Batched(w, c, k[i].bytes, Content(k[i].bytes), k[i].first, k[i].next)
  <2>1. CASE i \in 1 .. n
    BY <1>1, <1>4, <2>1 DEF InLog
  <2>2. CASE i = n + 1
    BY <1>3, <1>4, <2>2
  <2> QED
    BY <1>4, <1>6, <2>1, <2>2
<1>8. Ordered(k)
  <2> SUFFICES ASSUME NEW i \in 1 .. n + 1, NEW j \in 1 .. n + 1, i < j PROVE k[i].next <= k[j].first
    BY <1>4 DEF Ordered
  <2>1. i \in 1 .. n
    BY <1>1
  <2>2. CASE j \in 1 .. n
    BY <1>1, <1>4, <2>1, <2>2 DEF InLog, Ordered
  <2>3. CASE j = n + 1
    BY <1>1, <1>3, <1>4, <2>1, <2>3
  <2> QED
    BY <1>6, <2>2, <2>3
<1>9. Covered(k, c)
  <2> SUFFICES ASSUME NEW o \in 0 .. next - 1
               PROVE  o \in c \/ \E i \in DOMAIN k : k[i].first <= o /\ o < k[i].next
    BY <1>5 DEF Covered
  <2>1. CASE o < EndOf(l)
    <3>1. o \in c \/ \E i \in DOMAIN l : l[i].first <= o /\ o < l[i].next
      <4>1. Covered(l, c)
        BY DEF InLog
      <4>2. o \in 0 .. EndOf(l) - 1
        BY <1>1, <1>2, <2>1
      <4> QED
        BY <4>1, <4>2 DEF Covered
    <3>2. \A i \in DOMAIN l : i \in DOMAIN k /\ k[i] = l[i]
      BY <1>1, <1>4
    <3> QED
      BY <3>1, <3>2
  <2>2. CASE EndOf(l) <= o
    <3>1. n + 1 \in DOMAIN k
      BY <1>1, <1>4
    <3> QED
      BY <1>2, <1>3, <1>4, <2>2, <3>1
  <2> QED
    BY <1>1, <2>1, <2>2
<1>10. c \subseteq 0 .. next - 1
  <2>1. c \subseteq 0 .. EndOf(l) - 1
    BY DEF InLog
  <2> QED
    BY <1>1, <1>2, <2>1
<1> QED
  BY <1>3, <1>4, <1>5, <1>7, <1>8, <1>9, <1>10 DEF InLog, X, k, e

\* Batches that were fetched.
LEMMA FetchedLater ==
    ASSUME NEW batches, NEW w, NEW c, NEW from \in Nat, NEW end \in Nat, Fetched(batches, w, c, from, end),
           end <= Len(w), NEW v, Extends(w, v), NEW e, c \subseteq e,
           NEW till \in Nat, end <= till
    PROVE  Fetched(batches, v, e, from, till)
<1> SUFFICES ASSUME \A i \in DOMAIN batches : batches[i].supported
             PROVE  Following(batches, v, e, from, till)
  BY DEF Fetched
<1>1. Following(batches, w, c, from, end)
  BY DEF Fetched
<1>2. ASSUME NEW i \in DOMAIN batches
      PROVE  /\ batches[i].baseOffset \in Nat /\ After(batches[i]) \in from + 1 .. till
             /\ batches[i].baseOffset < After(batches[i])
             /\ Holds(v, e, batches[i], batches[i].baseOffset, After(batches[i]))
  <2> DEFINE first == batches[i].baseOffset
             next == After(batches[i])
  <2>1. /\ first \in Nat /\ next \in from + 1 .. end /\ first < next
        /\ Holds(w, c, batches[i], first, next)
    BY <1>1 DEF Following
  <2> HIDE DEF next, first
  <2>2. next \in Nat /\ next <= Len(w) /\ next \in from + 1 .. till
    BY <2>1 DEF Extends
  <2>3. Holds(v, e, batches[i], first, next)
    BY <2>1, <2>2, HoldsLater
  <2> QED
    BY <2>1, <2>2, <2>3 DEF next, first
<1>3. Followed(batches, e, from)
  BY <1>1 DEF Following, Followed
<1> QED
  BY <1>1, <1>2, <1>3 DEF Following

\* What is consumed stays so as more is written, cleaned and appended.
LEMMA ConsumedLater ==
    ASSUME NEW d, NEW w, NEW c, NEW from, NEW end \in Nat, Consumed(d, w, c, from, end),
           end <= Len(w), NEW v, Sequence(v), Extends(w, v), NEW e, c \subseteq e,
           NEW till \in Nat, end <= till
    PROVE  Consumed(d, v, e, from, till)
<1>1. from \in Nat /\ from <= end
  BY DEF Consumed
<1>2. from \in 0 .. till
  BY <1>1
<1>3. ASSUME NEW i \in DOMAIN d
      PROVE  d[i].offset \in 0 .. from - 1 /\ v[d[i].offset + 1] \in {Null, d[i].message}
  <2>1. d[i].offset \in 0 .. from - 1 /\ w[d[i].offset + 1] \in {Null, d[i].message}
    BY DEF Consumed
  <2>2. d[i].offset + 1 \in 1 .. Len(w)
    BY <1>1, <2>1 DEF Extends
  <2> QED
    BY <2>1, <2>2 DEF Extends
<1>4. Done(d, e, from)
  BY DEF Consumed, Done
<1> QED
  BY <1>2, <1>3, <1>4 DEF Consumed

-----------------------------------------------------------------------------
(* Sequences of sequences.                                                 *)

\* Item j of r is item J[j] of block K[j], in the order of blocks and items.
Located(r, items, K, J) ==
    /\ Sequence(r)
    /\ \A j \in 1 .. Len(r) : /\ K[j] \in 1 .. Len(items) /\ J[j] \in 1 .. Len(items[K[j]])
                              /\ r[j] = items[K[j]][J[j]]
    /\ \A j, k \in 1 .. Len(r) : j < k => K[j] < K[k] \/ (K[j] = K[k] /\ J[j] < J[k])
    /\ \A i \in 1 .. Len(items) : \A l \in 1 .. Len(items[i]) :
           \E j \in 1 .. Len(r) : K[j] = i /\ J[j] = l

\* Where blocks end, and that they are one after the other.
Bounds(A, n, items) ==
    /\ A \in [0 .. n -> Nat] /\ A[0] = 0
    /\ \A i \in 1 .. n : Len(items[i]) \in Nat /\ A[i] = A[i - 1] + Len(items[i])

\* Every place of a flattened sequence lies in one of its items.
LEMMA BoundsRise ==
    ASSUME NEW n \in Nat, NEW items, NEW A, Bounds(A, n, items)
    PROVE  /\ \A k \in 0 .. n : \A i \in 0 .. k : A[i] <= A[k]
           /\ \A j \in 1 .. A[n] : \E i \in 1 .. n : A[i - 1] < j /\ j <= A[i]
<1> USE DEF Bounds
<1> DEFINE S == {k \in Nat : k <= n => \A i \in 0 .. k : A[i] <= A[k]}
<1>1. 0 \in S
  OBVIOUS
<1>2. ASSUME NEW k \in Nat, k \in S PROVE k + 1 \in S
  <2> SUFFICES ASSUME k + 1 <= n, NEW i \in 0 .. k + 1 PROVE A[i] <= A[k + 1]
    OBVIOUS
  <2>1. k + 1 \in 1 .. n /\ (k + 1) - 1 = k /\ k \in 0 .. n /\ k + 1 \in 0 .. n /\ i \in 0 .. n
    OBVIOUS
  <2>2. A[k + 1] = A[k] + Len(items[k + 1]) /\ Len(items[k + 1]) \in Nat /\ A[k] \in Nat
    BY <2>1
  <2>3. CASE i = k + 1
    BY <2>1, <2>3
  <2>4. CASE i \in 0 .. k
    <3>1. A[i] <= A[k]
      BY <1>2, <2>1, <2>4
    <3> QED
      BY <2>1, <2>2, <3>1
  <2> QED
    BY <2>3, <2>4
<1>3. \A k \in Nat : k \in S
  <2> HIDE DEF S
  <2> QED
    BY <1>1, <1>2, Induct
<1>4. \A k \in 0 .. n : \A i \in 0 .. k : A[i] <= A[k]
  BY <1>3
<1>5. ASSUME NEW j \in 1 .. A[n] PROVE \E i \in 1 .. n : A[i - 1] < j /\ j <= A[i]
  <2> DEFINE T == {i \in 0 .. n : j <= A[i]}
  <2>1. n \in T /\ T \in SUBSET Nat
    OBVIOUS
  <2>2. PICK i \in T : \A k \in T : i <= k
    BY <2>1, Least
  <2>3. i # 0
    OBVIOUS
  <2>4. i \in 1 .. n /\ i - 1 \in 0 .. n /\ ~(i <= i - 1)
    BY <2>3
  <2>5. i - 1 \notin T
    BY <2>2, <2>4
  <2>6. A[i - 1] \in Nat /\ ~(j <= A[i - 1])
    BY <2>4, <2>5
  <2> QED
    BY <2>4, <2>6
<1> QED
  BY <1>4, <1>5

\* Each place of a flattened sequence has an item and an index in it.
LEMMA Blocks ==
    ASSUME NEW D, NEW items \in Seq(Seq(D))
    PROVE  /\ FlattenSeq(items) \in Seq(D)
           /\ \E K, J : Located(FlattenSeq(items), items, K, J)
<1> DEFINE n == Len(items)
           r == FlattenSeq(items)
           h == Len(r)
<1>1. n \in Nat /\ \A i \in 1 .. n : items[i] \in Seq(D) /\ Len(items[i]) \in Nat
  OBVIOUS
<1>2. r \in Seq(D)
  <2>1. PICK F \in [0 .. n -> Seq(D)] : r = F[n]
    BY Flattened
  <2>2. n \in 0 .. n
    BY <1>1
  <2> HIDE DEF r, n
  <2> QED
    BY <2>1, <2>2
<1>3. PICK A : Laid(A, items, r, 0)
  <2>1. Stands(r, r, 0)
    <3> HIDE DEF r
    <3> QED
      BY <1>2 DEF Stands
  <2>2. 0 \in Nat
    OBVIOUS
  <2> QED
    BY <1>2, <2>1, <2>2, InRow
<1> HIDE DEF r
<1>4. h \in Nat /\ Sequence(r)
  BY <1>2, IsSequence
<1>5. Bounds(A, n, items) /\ A[n] = h
  <2>1. A[n] = 0 + h
    BY <1>3 DEF Laid, r
  <2>2. A \in [0 .. n -> Nat] /\ A[0] = 0 /\ \A i \in 1 .. n : A[i] = A[i - 1] + Len(items[i])
    BY <1>3 DEF Laid
  <2> HIDE DEF h, n
  <2>3. A[n] = h
    BY <1>4, <2>1
  <2> QED
    BY <1>1, <2>2, <2>3 DEF Bounds
<1>6. ASSUME NEW i \in 1 .. n, NEW l \in 1 .. Len(items[i]) PROVE r[A[i - 1] + l] = items[i][l]
  BY <1>3 DEF Laid, Stands
<1>7. /\ \A k \in 0 .. n : \A i \in 0 .. k : A[i] <= A[k]
      /\ \A j \in 1 .. h : \E i \in 1 .. n : A[i - 1] < j /\ j <= A[i]
  BY <1>1, <1>5, BoundsRise
<1> HIDE DEF h, n
<1> DEFINE K == [j \in 1 .. h |-> CHOOSE i \in 1 .. n : A[i - 1] < j /\ j <= A[i]]
           J == [j \in 1 .. h |-> j - A[K[j] - 1]]
<1>8. ASSUME NEW j \in 1 .. h
      PROVE  K[j] \in 1 .. n /\ A[K[j] - 1] < j /\ j <= A[K[j]] /\ J[j] = j - A[K[j] - 1]
  <2>1. K[j] = CHOOSE i \in 1 .. n : A[i - 1] < j /\ j <= A[i]
    OBVIOUS
  <2>3. J[j] = j - A[K[j] - 1]
    OBVIOUS
  <2> HIDE DEF K, J
  <2>2. \E i \in 1 .. n : A[i - 1] < j /\ j <= A[i]
    BY <1>7
  <2>4. K[j] \in 1 .. n /\ A[K[j] - 1] < j /\ j <= A[K[j]]
    BY <2>1, <2>2
  <2> QED
    BY <2>3, <2>4
<1> HIDE DEF K, J
<1>9. \A i \in 1 .. n : /\ i - 1 \in 0 .. n /\ i \in 0 .. n /\ A[i - 1] \in Nat /\ A[i] \in Nat
                        /\ A[i] = A[i - 1] + Len(items[i])
  BY <1>1, <1>5 DEF Bounds
<1>10. ASSUME NEW j \in 1 .. h
       PROVE  K[j] \in 1 .. n /\ J[j] \in 1 .. Len(items[K[j]]) /\ r[j] = items[K[j]][J[j]]
  <2> DEFINE i == K[j]
  <2>1. i \in 1 .. n /\ A[i - 1] < j /\ j <= A[i] /\ J[j] = j - A[i - 1]
    BY <1>8
  <2> HIDE DEF i
  <2>2. J[j] \in 1 .. Len(items[i]) /\ A[i - 1] + J[j] = j
    <3>1. A[i - 1] \in Nat /\ A[i] = A[i - 1] + Len(items[i]) /\ Len(items[i]) \in Nat
      BY <1>1, <1>9, <2>1
    <3> QED
      BY <1>4, <2>1, <3>1
  <2>3. r[A[i - 1] + J[j]] = items[i][J[j]]
    BY <1>6, <2>1, <2>2
  <2> QED
    BY <2>1, <2>2, <2>3 DEF i
\* An offset is in one block only.
<1>11. ASSUME NEW j \in 1 .. h, NEW i \in 1 .. n, j <= A[i] PROVE K[j] <= i
  <2> DEFINE k == K[j]
  <2>1. k \in 1 .. n /\ A[k - 1] < j
    BY <1>8
  <2> HIDE DEF k
  <2> SUFFICES ASSUME i <= k - 1 PROVE FALSE
    BY <2>1 DEF k
  <2>2. k - 1 \in 0 .. n /\ i \in 0 .. k - 1
    BY <1>1, <2>1
  <2>3. A[i] <= A[k - 1]
    BY <1>7, <2>2
  <2> QED
    BY <1>9, <1>11, <2>1, <2>3
<1>12. ASSUME NEW j \in 1 .. h, NEW k \in 1 .. h, j < k
       PROVE  K[j] < K[k] \/ (K[j] = K[k] /\ J[j] < J[k])
  <2>1. K[k] \in 1 .. n /\ k <= A[K[k]] /\ J[k] = k - A[K[k] - 1] /\ A[K[k] - 1] \in Nat /\ A[K[k]] \in Nat
    BY <1>8, <1>9
  <2>2. K[j] \in 1 .. n /\ J[j] = j - A[K[j] - 1]
    BY <1>8
  <2>3. j <= A[K[k]]
    BY <1>4, <1>12, <2>1
  <2>4. K[j] <= K[k]
    BY <1>11, <2>1, <2>3
  <2>5. CASE K[j] = K[k]
    BY <1>4, <1>12, <2>1, <2>2, <2>5
  <2> QED
    BY <2>1, <2>2, <2>4, <2>5
<1>13. ASSUME NEW i \in 1 .. n, NEW l \in 1 .. Len(items[i])
       PROVE  \E j \in 1 .. h : K[j] = i /\ J[j] = l
  <2> DEFINE j == A[i - 1] + l
  <2>1. j \in Nat /\ A[i - 1] < j /\ j <= A[i] /\ j > 0 /\ j - A[i - 1] = l
    BY SMTT(15), <1>1, <1>9
  <2>2. A[i] <= A[n]
    BY <1>1, <1>7, <1>9
  <2>3. j \in 1 .. h
    <3>1. A[i] \in Nat /\ A[n] = h
      BY <1>5, <1>9
    <3> HIDE DEF j
    <3> QED
      BY <1>4, <2>1, <2>2, <3>1
  <2> HIDE DEF j
  <2>4. K[j] <= i
    BY <1>11, <2>1, <2>3
  <2>5. K[j] \in 1 .. n /\ j <= A[K[j]] /\ J[j] = j - A[K[j] - 1]
    BY <1>8, <2>3
  <2>6. i <= K[j]
    <3> SUFFICES ASSUME K[j] <= i - 1 PROVE FALSE
      BY <2>5
    <3>1. i - 1 \in 0 .. n /\ K[j] \in 0 .. i - 1
      BY <1>1, <2>5
    <3>2. A[K[j]] <= A[i - 1]
      BY <1>7, <3>1
    <3> QED
      BY <1>9, <2>1, <2>5, <3>2
  <2>7. K[j] = i
    BY <2>4, <2>5, <2>6
  <2> QED
    BY <2>1, <2>3, <2>5, <2>7
<1>14. Located(r, items, K, J)
  BY <1>4, <1>10, <1>12, <1>13 DEF Located, h, n
<1> QED
  BY <1>2, <1>14 DEF r

\* r has those of the items v[1 .. n] whose places are in S, in their order.
Filtered(r, n, S, v, K) ==
    /\ Sequence(r)
    /\ \A j \in 1 .. Len(r) : K[j] \in 1 .. n /\ K[j] \in S /\ r[j] = v[K[j]]
    /\ \A j, k \in 1 .. Len(r) : j < k => K[j] < K[k]
    /\ \A i \in 1 .. n : i \in S => \E j \in 1 .. Len(r) : K[j] = i

\* A flattened sequence of what is kept has just that, in order.
LEMMA Filter ==
    ASSUME NEW n \in Nat, NEW S, NEW v
    PROVE  \E K : Filtered(FlattenSeq([i \in 1 .. n |-> When(i \in S, v[i])]), n, S, v, K)
<1> DEFINE D == {v[i] : i \in 1 .. n}
           X == Seq(D)
           e(i) == When(i \in S, v[i])
           items == [i \in 1 .. n |-> e(i)]
           r == FlattenSeq(items)
           one == 1
<1>1. ASSUME NEW i \in 1 .. n
      PROVE  /\ e(i) \in X
             /\ i \in S => Len(e(i)) = one /\ e(i)[1] = v[i]
             /\ i \notin S => Len(e(i)) = 0
  <2>1. v[i] \in D
    OBVIOUS
  <2> HIDE DEF D
  <2>2. <<>> \in Seq(D) /\ <<v[i]>> \in Seq(D) /\ Len(<<v[i]>>) = one /\ <<v[i]>>[1] = v[i] /\ Len(<<>>) = 0
    BY <2>1
  <2> QED
    BY <2>2 DEF When
<1> HIDE DEF e, X, one
<1>2. items \in [1 .. n -> X] /\ \A i \in 1 .. n : items[i] = e(i)
  BY <1>1
<1> HIDE DEF items
<1>3. items \in Seq(X) /\ Len(items) = n
  BY <1>2, FunctionIsSeq
<1>4. PICK K, J : Located(r, items, K, J)
  BY <1>3, Blocks DEF X
<1>5. one = 1
  BY DEF one
<1>6. ASSUME NEW i \in 1 .. n, NEW l \in 1 .. Len(items[i]) PROVE i \in S /\ l = 1 /\ items[i][l] = v[i]
  <2>1. items[i] = e(i)
    BY <1>2
  <2>2. i \in S
    <3> SUFFICES ASSUME i \notin S PROVE FALSE
      OBVIOUS
    <3> DEFINE z == Len(items[i])
    <3>1. z = 0
      BY <1>1, <2>1
    <3>2. l \in 1 .. z
      OBVIOUS
    <3> HIDE DEF z
    <3> QED
      BY <3>1, <3>2
  <2>3. l \in 1 .. one
    BY <1>1, <2>1, <2>2
  <2>4. l = 1
    BY <1>5, <2>3
  <2> QED
    BY <1>1, <2>1, <2>2, <2>4
<1> HIDE DEF r
<1>7. ASSUME NEW j \in 1 .. Len(r) PROVE K[j] \in 1 .. n /\ K[j] \in S /\ J[j] = 1 /\ r[j] = v[K[j]]
  <2>1. K[j] \in 1 .. n /\ J[j] \in 1 .. Len(items[K[j]]) /\ r[j] = items[K[j]][J[j]]
    BY <1>3, <1>4 DEF Located
  <2> QED
    BY <1>6, <2>1
<1>8. ASSUME NEW j \in 1 .. Len(r), NEW k \in 1 .. Len(r), j < k PROVE K[j] < K[k]
  <2>1. K[j] < K[k] \/ (K[j] = K[k] /\ J[j] < J[k])
    BY <1>4, <1>8 DEF Located
  <2>2. J[j] = 1 /\ J[k] = 1
    BY <1>7
  <2> QED
    BY <2>1, <2>2
<1>9. ASSUME NEW i \in 1 .. n, i \in S PROVE \E j \in 1 .. Len(r) : K[j] = i
  <2>1. 1 \in 1 .. Len(items[i])
    <3>1. Len(items[i]) = one
      BY <1>1, <1>2, <1>9
    <3>2. 1 \in 1 .. one
      BY <1>5
    <3> QED
      BY <3>1, <3>2
  <2>2. i \in 1 .. Len(items)
    BY <1>3
  <2> QED
    BY <1>4, <2>1, <2>2 DEF Located
<1>10. Sequence(r)
  BY <1>4 DEF Located
<1>11. Filtered(r, n, S, v, K)
  BY <1>7, <1>8, <1>9, <1>10 DEF Filtered
<1>12. [i \in 1 .. n |-> When(i \in S, v[i])] = items
  BY DEF items, e
<1> QED
  BY <1>11, <1>12 DEF r

-----------------------------------------------------------------------------
(* A batch of the producer.                                                *)

\* A timestamp is a number.
LEMMA TimestampType ==
    \A message \in Message : Timestamp(message) \in Int
  BY ScenarioAssumption DEF Timestamp, Message

\* The base of any timestamps is a number.
LEMMA BaseTimestampType ==
    ASSUME NEW n \in Nat, NEW times \in [1 .. n -> Int]
    PROVE  BaseTimestamp(times) \in Int
<1> DEFINE Z == Int
           e(x, i) == IF x = 0 \/ times[i] < x THEN times[i] ELSE x
           step == [i \in 1 .. n |-> [x \in Z |-> e(x, i)]]
           eq(g) == g = [i \in 0 .. n |-> IF i = 0 THEN 0 ELSE e(g[i - 1], i)]
           base == CHOOSE g : eq(g)
<1>1. 0 \in Z /\ Len(times) = n
  BY FunctionIsSeq
<1>2. BaseTimestamp(times) = base[n]
  BY <1>1 DEF BaseTimestamp
<1>3. \A i \in 1 .. n, x \in Z : e(x, i) \in Z
  OBVIOUS
<1> HIDE DEF e, Z
<1>4. step \in [1 .. n -> [Z -> Z]]
  <2> DEFINE s(i) == [x \in Z |-> e(x, i)]
             Y == [Z -> Z]
  <2>1. ASSUME NEW i \in 1 .. n PROVE s(i) \in Y
    BY <1>3
  <2> HIDE DEF s, Y
  <2>2. [i \in 1 .. n |-> s(i)] \in [1 .. n -> Y]
    BY <2>1
  <2> QED
    BY <2>2 DEF s, Y
<1>5. \A i \in 1 .. n, x \in Z : step[i][x] = e(x, i)
  OBVIOUS
<1> HIDE DEF step
<1>6. PICK f \in [0 .. n -> Z] : Steps(f, n, 0, step)
  BY <1>1, <1>4, Recursion
<1>7. eq(f)
  <2>1. ASSUME NEW i \in 1 .. n PROVE f[i] = e(f[i - 1], i)
    <3>1. i - 1 \in 0 .. n
      OBVIOUS
    <3>2. f[i] = step[i][f[i - 1]] /\ f[i - 1] \in Z
      BY <1>6, <3>1 DEF Steps
    <3> QED
      BY <1>5, <3>2
  <2> QED
    BY <1>6, <2>1 DEF Steps
<1>8. eq(base)
  <2> HIDE DEF eq
  <2> QED
    BY <1>7
<1> HIDE DEF base
<1>9. Made(base, Z, n, 0, step)
  <2>1. base = [i \in 0 .. n |-> base[i]] /\ base[0] = 0
    BY <1>8
  <2>2. ASSUME NEW i \in 1 .. n, base[i - 1] \in Z PROVE base[i] = step[i][base[i - 1]]
    <3>1. i \in 0 .. n /\ i # 0
      OBVIOUS
    <3>2. base[i] = e(base[i - 1], i)
      BY <1>8, <3>1
    <3> QED
      BY <1>5, <2>2, <3>2
  <2> QED
    BY <2>1, <2>2 DEF Made
<1>10. base \in [0 .. n -> Z]
  BY <1>1, <1>4, <1>9, StepsTyped
<1>11. n \in 0 .. n
  OBVIOUS
<1> QED
  BY <1>2, <1>10, <1>11 DEF Z

\* What the headers of a message are to the consumer.
LEMMA HeadersBack ==
    ASSUME NEW headers \in Seq(Seq(Byte) \X Seq(Byte))
    PROVE  {<<x.key, x.value>> : x \in ToSet([i \in 1 .. Len(headers) |-> Header(headers[i])])}
              = ToSet(headers)
<1> DEFINE n == Len(headers)
           X == Seq(Byte)
           r == [i \in 1 .. n |-> Header(headers[i])]
<1>1. n \in Nat /\ DOMAIN headers = 1 .. n /\ \A i \in 1 .. n : headers[i] \in X \X X
  OBVIOUS
<1> HIDE DEF n, X
<1>2. \A pair \in X \X X : <<Header(pair).key, Header(pair).value>> = pair
  BY DEF Header
<1>3. DOMAIN r = 1 .. n /\ \A i \in 1 .. n : r[i] = Header(headers[i])
  OBVIOUS
<1> HIDE DEF r
<1>4. \A i \in 1 .. n : <<r[i].key, r[i].value>> = headers[i]
  BY <1>1, <1>2, <1>3
<1>5. {<<x.key, x.value>> : x \in ToSet(r)} = ToSet(headers)
  <2>1. ToSet(r) = {r[i] : i \in 1 .. n} /\ ToSet(headers) = {headers[i] : i \in 1 .. n}
    BY <1>1, <1>3 DEF ToSet
  <2>2. ASSUME NEW x \in ToSet(r) PROVE <<x.key, x.value>> \in ToSet(headers)
    BY <1>4, <2>1
  <2>3. ASSUME NEW pair \in ToSet(headers) PROVE \E x \in ToSet(r) : <<x.key, x.value>> = pair
    <3>1. PICK i \in 1 .. n : pair = headers[i]
      BY <2>1
    <3>2. r[i] \in ToSet(r)
      BY <2>1
    <3> QED
      BY <1>4, <3>1, <3>2
  <2> HIDE DEF r
  <2> QED
    BY <2>2, <2>3
<1> QED
  BY <1>5 DEF r, n

\* Messages make records that can be encoded.
Recorded(messages, batch) ==
    /\ batch.attributes = 0 /\ batch.lastOffsetDelta = Len(messages) - 1
    /\ Len(batch.records) = Len(messages)
    /\ \A i \in 1 .. Len(messages) :
           batch.records[i] = Record(messages[i], batch.baseTimestamp, i - 1)

\* A record that toRecordBatch builds can be encoded.
LEMMA RecordType ==
    ASSUME NEW message \in Message, NEW base \in Int, NEW index \in Int
    PROVE  Record(message, base, index) \in Encodable
<1>1. Timestamp(message) - base \in Int
  BY TimestampType
<1>2. message.key \in Text /\ message.value \in Text /\ message.headers \in Seq(Seq(Byte) \X Seq(Byte))
  BY DEF Message
<1> DEFINE delta == Timestamp(message) - base
           H == Seq(Seq(Byte) \X Seq(Byte))
<1>3. delta \in Int /\ message.headers \in H
  BY <1>1, <1>2
<1>4. Record(message, base, index)
         = [timestampDelta |-> delta, offsetDelta |-> index, key |-> message.key,
            value |-> message.value, headers |-> message.headers]
  BY DEF Record
<1>5. Encodable = [timestampDelta : Int, offsetDelta : Int, key : Text, value : Text, headers : H]
  BY DEF Encodable
<1> HIDE DEF delta, H
<1> QED
  BY <1>2, <1>3, <1>4, <1>5

\* A batch of the producer has typed fields and one record per message.
LEMMA BatchType ==
    ASSUME NEW p \in Int, NEW messages \in Seq(Message), sequences[p] \in Int
    PROVE  /\ TypedBatch(Batch(p, messages)) /\ Batch(p, messages).index = p
           /\ Recorded(messages, Batch(p, messages))
<1> DEFINE n == Len(messages)
           b == Batch(p, messages)
           times == [i \in DOMAIN messages |-> Timestamp(messages[i])]
           base == BaseTimestamp(times)
           records == [i \in DOMAIN messages |-> Record(messages[i], base, i - 1)]
           opposite == [i \in DOMAIN times |-> -times[i]]
<1>1. n \in Nat /\ DOMAIN messages = 1 .. n /\ \A i \in 1 .. n : messages[i] \in Message
  OBVIOUS
<1>2. times \in [1 .. n -> Int]
  BY <1>1, TimestampType
<1> HIDE DEF times
<1>3. opposite \in [1 .. n -> Int]
  BY <1>2
<1> HIDE DEF opposite
<1>4. base \in Int /\ BaseTimestamp(opposite) \in Int
  BY <1>1, <1>2, <1>3, BaseTimestampType
<1>5. MaxTimestamp(times) \in Int
  BY <1>4 DEF MaxTimestamp, opposite
<1> HIDE DEF base
<1>6. ASSUME NEW i \in 1 .. n PROVE Record(messages[i], base, i - 1) \in Encodable
  <2>1. i - 1 \in Int
    OBVIOUS
  <2> QED
    BY <1>1, <1>4, <2>1, RecordType
<1>7. /\ records \in [1 .. n -> Encodable]
      /\ \A i \in 1 .. n : records[i] = Record(messages[i], base, i - 1)
  <2> DEFINE E == Encodable
             e(i) == Record(messages[i], base, i - 1)
  <2>1. \A i \in 1 .. n : e(i) \in E
    BY <1>6
  <2>2. records = [i \in 1 .. n |-> e(i)]
    BY <1>1
  <2> HIDE DEF E, e
  <2>3. records \in [1 .. n -> E] /\ \A i \in 1 .. n : records[i] = e(i)
    BY <2>1, <2>2
  <2> QED
    BY <2>3 DEF E, e
<1> HIDE DEF records
<1>8. records \in Seq(Encodable) /\ Len(records) = n
  BY <1>1, <1>7, FunctionIsSeq
<1>9. b = [index |-> p, baseOffset |-> 0, partitionLeaderEpoch |-> -1, attributes |-> 0,
           lastOffsetDelta |-> n - 1, baseTimestamp |-> base, maxTimestamp |-> MaxTimestamp(times),
           producerId |-> 1, producerEpoch |-> 0, baseSequence |-> sequences[p],
           records |-> records]
  BY DEF Batch, LastOffsetDelta, times, base, records
<1> HIDE DEF b
<1>10. /\ b.index = p /\ b.baseOffset = 0 /\ b.partitionLeaderEpoch = -1 /\ b.attributes = 0
       /\ b.lastOffsetDelta = n - 1 /\ b.baseTimestamp = base /\ b.maxTimestamp = MaxTimestamp(times)
       /\ b.producerId = 1 /\ b.producerEpoch = 0 /\ b.baseSequence = sequences[p]
       /\ b.records = records
  BY <1>9
<1> HIDE DEF n
<1>11. TypedBatch(b)
  BY <1>1, <1>4, <1>5, <1>8, <1>10 DEF TypedBatch
<1>12. Recorded(messages, b)
  BY <1>7, <1>8, <1>10 DEF Recorded, n
<1> QED
  BY <1>10, <1>11, <1>12 DEF b

\* A batch that is encoded for the offsets from first on.
LEMMA EncodedHolds ==
    ASSUME NEW batch, TypedBatch(batch), Writable(batch), NEW first \in Nat, NEW next \in Nat,
           first < next, batch.lastOffsetDelta = next - first - 1, NEW w, NEW c,
           \/ Len(batch.records) = next - first
           \/ Len(batch.records) = 0 /\ first .. next - 1 \subseteq c,
           ~(batch.attributes % 8 # 0) =>
               \A j \in 1 .. Len(batch.records) : Gives(w, DecodedOf(first, batch), first, j)
    PROVE  Batched(w, c, EncodedBatch(batch), ContentAt(first, EncodedBatch(batch)), first, next)
<1> DEFINE b == EncodedBatch(batch)
           d == DecodedOf(first, batch)
           n == Len(batch.records)
           records == [i \in 1 .. n |-> Decoded(batch.records[i])]
<1>1. Framed(b) /\ BatchHeader(b).lastOffsetDelta = next - first - 1 /\ ContentAt(first, b) = d
  BY BatchIsReadAsWritten
<1>2. n \in Nat
  BY DEF TypedBatch
<1> HIDE DEF b
<1>3. /\ n = next - first \/ (n = 0 /\ first .. next - 1 \subseteq c)
      /\ ~(batch.attributes % 8 # 0) => \A j \in 1 .. n : Gives(w, d, first, j)
  OBVIOUS
<1>4. CASE batch.attributes % 8 # 0
  <2>1. d = [supported |-> FALSE]
    BY <1>4 DEF DecodedOf
  <2> HIDE DEF d
  <2>2. ~d.supported
    BY <2>1
  <2> QED
    BY <1>1, <2>2 DEF Batched, Holds, b, d
<1>5. CASE ~(batch.attributes % 8 # 0)
  <2>1. d = [supported |-> TRUE, baseOffset |-> first, lastOffsetDelta |-> batch.lastOffsetDelta,
             baseTimestamp |-> batch.baseTimestamp, records |-> records]
    BY <1>5 DEF DecodedOf
  <2>2. Sequence(records) /\ Len(records) = n
    <3>1. records = [i \in 1 .. n |-> records[i]]
      OBVIOUS
    <3> HIDE DEF records, n
    <3> QED
      BY <1>2, <3>1, Listed
  <2> HIDE DEF d, records, n
  <2>3. d.baseOffset = first /\ d.lastOffsetDelta = next - first - 1 /\ d.records = records
    BY <2>1
  <2>4. Holds(w, c, d, first, next)
    BY <1>3, <1>5, <2>2, <2>3 DEF Holds
  <2> QED
    BY <1>1, <2>4 DEF Batched, b, d
<1> QED
  BY <1>4, <1>5

\* What the consumer makes of a record is what was sent.
LEMMA GivesSent ==
    ASSUME NEW message \in Message, NEW base \in Int, NEW first \in Nat, NEW j \in Nat,
           NEW d, d.baseOffset = first, d.baseTimestamp = base,
           d.records[j] = Decoded(Record(message, base, j - 1)),
           NEW w, w[first + j] = AsSent(message)
    PROVE  Gives(w, d, first, j)
<1> DEFINE H == Seq(Seq(Byte) \X Seq(Byte))
           t == Timestamp(message)
           headers == message.headers
           shown == [i \in 1 .. Len(headers) |-> Header(headers[i])]
           back == {<<x.key, x.value>> : x \in ToSet(shown)}
           r == d.records[j]
           delta == t - base
           index == j - 1
<1>1. headers \in Seq(Seq(Byte) \X Seq(Byte))
  BY DEF Message
<1>2. back = ToSet(headers)
  BY <1>1, HeadersBack
<1>3. t \in Int /\ delta \in Int /\ base + delta = t /\ index \in Int /\ first + index = first + j - 1
  <2>1. t \in Int
    BY TimestampType
  <2> HIDE DEF t
  <2> QED
    BY <2>1
<1>4. r = [attributes |-> 0, timestampDelta |-> delta, offsetDelta |-> index, key |-> message.key,
           value |-> message.value, headers |-> shown]
  BY DEF Decoded, Record
<1>5. Received(d, r)
         = [offset |-> d.baseOffset + r.offsetDelta,
            message |-> [key |-> r.key, value |-> r.value,
                         timestamp |-> d.baseTimestamp + r.timestampDelta,
                         headers |-> {<<x.key, x.value>> : x \in ToSet(r.headers)}]]
  BY DEF Received
<1>6. AsSent(message)
         = [key |-> message.key, value |-> message.value, timestamp |-> t,
            headers |-> ToSet(headers)]
  BY DEF AsSent
<1> HIDE DEF r, shown, delta, index, t, headers
<1>7. /\ r.timestampDelta = delta /\ r.offsetDelta = index /\ r.key = message.key
      /\ r.value = message.value /\ r.headers = shown
  BY <1>4
<1>8. {<<x.key, x.value>> : x \in ToSet(r.headers)} = ToSet(headers)
  BY <1>2, <1>7
<1>9. Received(d, r) = [offset |-> first + index, message |-> AsSent(message)]
  BY <1>3, <1>5, <1>6, <1>7, <1>8
<1>10. Received(d, r).offset = first + j - 1 /\ Received(d, r).message = AsSent(message)
  <2> DEFINE x == Received(d, r)
             s == AsSent(message)
             y == first + index
  <2>1. x = [offset |-> y, message |-> s]
    BY <1>9
  <2> HIDE DEF x, s, y
  <2>2. x.offset = y /\ x.message = s
    BY <2>1
  <2> QED
    BY <1>3, <2>2 DEF x, s, y
<1> QED
  BY <1>10 DEF Gives, r

\* The batch that send() makes of the messages for a partition.
LEMMA SentHolds ==
    ASSUME NEW messages \in Seq(Message), NEW n \in Nat, n = Len(messages), n > 0,
           NEW batch, TypedBatch(batch), Writable(batch), Recorded(messages, batch),
           NEW first \in Nat, NEW w, NEW c,
           \A j \in 1 .. n : w[first + j] = AsSent(messages[j])
    PROVE  Batched(w, c, EncodedBatch(batch), ContentAt(first, EncodedBatch(batch)), first, first + n)
<1> DEFINE d == DecodedOf(first, batch)
           base == batch.baseTimestamp
<1>1. /\ batch.attributes = 0 /\ batch.lastOffsetDelta = n - 1 /\ Len(batch.records) = n
      /\ \A i \in 1 .. n : batch.records[i] = Record(messages[i], base, i - 1)
  BY DEF Recorded
<1>2. base \in Int /\ \A i \in 1 .. n : messages[i] \in Message
  BY DEF TypedBatch
<1>3. d = [supported |-> TRUE, baseOffset |-> first, lastOffsetDelta |-> batch.lastOffsetDelta,
           baseTimestamp |-> base, records |-> [i \in 1 .. n |-> Decoded(batch.records[i])]]
  <2>1. ~(batch.attributes % 8 # 0)
    BY <1>1
  <2> QED
    BY <1>1, <2>1 DEF DecodedOf
<1> HIDE DEF base
<1> DEFINE records == [i \in 1 .. n |-> Decoded(batch.records[i])]
<1>4. \A i \in 1 .. n : records[i] = Decoded(batch.records[i])
  OBVIOUS
<1> HIDE DEF d, records
<1>5. d.baseOffset = first /\ d.baseTimestamp = base /\ d.records = records
  BY <1>3 DEF records
<1>6. ASSUME NEW j \in 1 .. n PROVE Gives(w, d, first, j)
  <2>1. d.records[j] = Decoded(Record(messages[j], base, j - 1))
    BY <1>1, <1>4, <1>5 DEF base
  <2>2. j \in Nat /\ w[first + j] = AsSent(messages[j]) /\ messages[j] \in Message
    BY <1>2
  <2> QED
    BY <1>2, <1>5, <2>1, <2>2, GivesSent
<1>7. /\ first + n \in Nat /\ first < first + n /\ (first + n) - first = n
      /\ batch.lastOffsetDelta = (first + n) - first - 1
  BY <1>1
<1> DEFINE next == first + n
<1>8. /\ next \in Nat /\ first < next /\ Len(batch.records) = next - first
      /\ batch.lastOffsetDelta = next - first - 1
      /\ \A j \in 1 .. Len(batch.records) : Gives(w, DecodedOf(first, batch), first, j)
  BY <1>1, <1>6, <1>7 DEF d
<1> HIDE DEF next
<1>9. Batched(w, c, EncodedBatch(batch), ContentAt(first, EncodedBatch(batch)), first, next)
  BY <1>8, EncodedHolds
<1> QED
  BY <1>9 DEF next

\* A batch of one record that no send() wrote.
LEMMA OthersHold ==
    ASSUME NEW batch, TypedBatch(batch), Writable(batch), batch.lastOffsetDelta = 0,
           NEW record, batch.records = <<record>>, record.offsetDelta = 0,
           NEW first \in Nat, NEW w, w[first + 1] = Null, NEW c
    PROVE  Batched(w, c, EncodedBatch(batch), ContentAt(first, EncodedBatch(batch)), first, first + 1)
<1> DEFINE d == DecodedOf(first, batch)
           one == 1
           next == first + one
           n == Len(batch.records)
           records == [i \in 1 .. n |-> Decoded(batch.records[i])]
<1>1. one = 1 /\ next \in Nat /\ first < next /\ next - first = one /\ 0 = next - first - 1 /\ one \in Nat
  OBVIOUS
<1>2. n = one /\ batch.records[1] = record
  OBVIOUS
<1> HIDE DEF n
<1>3. ASSUME ~(batch.attributes % 8 # 0), NEW j \in 1 .. n PROVE Gives(w, d, first, j)
  <2>1. d = [supported |-> TRUE, baseOffset |-> first, lastOffsetDelta |-> batch.lastOffsetDelta,
             baseTimestamp |-> batch.baseTimestamp, records |-> records]
    BY <1>3 DEF DecodedOf, n
  <2>2. j = 1
    BY <1>1, <1>2
  <2>3. records[j] = Decoded(record)
    BY <1>2, <2>2
  <2> HIDE DEF d, records
  <2>4. d.baseOffset = first /\ d.records = records
    BY <2>1
  <2> DEFINE r == Decoded(record)
  <2>5. r.offsetDelta = 0
    BY DEF Decoded
  <2> HIDE DEF r
  <2>6. Received(d, r).offset = first + 0
    BY <2>4, <2>5 DEF Received
  <2>7. d.records[j] = r
    BY <2>3, <2>4 DEF r
  <2>8. first + j - 1 = first + 0 /\ first + j = first + 1
    BY <2>2
  <2> QED
    BY <2>6, <2>7, <2>8 DEF Gives
<1> HIDE DEF next, one
<1>4. /\ batch.lastOffsetDelta = next - first - 1 /\ Len(batch.records) = next - first
      /\ ~(batch.attributes % 8 # 0) =>
             \A j \in 1 .. Len(batch.records) : Gives(w, DecodedOf(first, batch), first, j)
  BY <1>1, <1>2, <1>3 DEF d, n
<1>5. Batched(w, c, EncodedBatch(batch), ContentAt(first, EncodedBatch(batch)), first, next)
  BY <1>1, <1>4, EncodedHolds
<1> QED
  BY <1>5 DEF next, one

\* A batch whose records the cleaner took.
LEMMA EmptiedHolds ==
    ASSUME NEW bytes, Framed(bytes), NEW first \in Nat, NEW next \in Nat, first < next,
           BatchHeader(bytes).lastOffsetDelta = next - first - 1,
           NEW w, NEW c, first .. next - 1 \subseteq c,
           NEW batch, batch = WithHeader([baseOffset |-> first, records |-> <<>>], bytes),
           Writable(batch)
    PROVE  /\ Batched(w, c, EncodedBatch(batch), Content(EncodedBatch(batch)), first, next)
           /\ EncodedBatch(batch) \in Seq(Byte)
<1> DEFINE b == SubSeq(bytes, 13, Len(bytes))
           H == HeaderIn(b)
           v == [baseOffset |-> first, records |-> <<>>]
<1>1. Structure(v)
  BY DEF Structure
<1>2. batch = Merged(v, BatchNames, H)
  <2>1. ReadFields(BatchFields, b, [value |-> v, at |-> 0]) = [value |-> Merged(v, BatchNames, H), at |-> 45]
    BY <1>1, HeaderInRead
  <2>2. batch = ReadFields(BatchFields, b, [value |-> v, at |-> 0]).value
    BY DEF WithHeader
  <2> HIDE DEF b, v, H
  <2> QED
    BY <2>1, <2>2
<1>3. v.baseOffset = first /\ v.records = <<>> /\ DOMAIN v = {"baseOffset", "records"}
  OBVIOUS
<1>4. b \in Seq(Byte) /\ 45 <= Len(b)
  <2>1. bytes \in Seq(Byte) /\ Len(bytes) >= 57
    BY DEF Framed
  <2> DEFINE n == 13
  <2>2. n \in Nat /\ n > 0 /\ n <= Len(bytes) /\ 45 <= Len(bytes) - n + 1
    BY <2>1
  <2> HIDE DEF n
  <2>3. SubSeq(bytes, n, Len(bytes)) \in Seq(Byte) /\ Len(SubSeq(bytes, n, Len(bytes))) = Len(bytes) - n + 1
    BY <2>1, <2>2, FromHere
  <2> QED
    BY <2>2, <2>3 DEF n
<1> HIDE DEF b, v
<1>5. /\ H.partitionLeaderEpoch = ReadInt(4, b, 0).value /\ H.attributes = ReadInt(2, b, 9).value
      /\ H.lastOffsetDelta = ReadInt(4, b, 11).value /\ H.baseTimestamp = ReadInt(8, b, 15).value
      /\ H.maxTimestamp = ReadInt(8, b, 23).value /\ H.producerId = ReadInt(8, b, 31).value
      /\ H.producerEpoch = ReadInt(2, b, 39).value /\ H.baseSequence = ReadInt(4, b, 41).value
  BY DEF HeaderIn
<1> HIDE DEF H
<1>6. /\ batch.partitionLeaderEpoch = H.partitionLeaderEpoch /\ batch.attributes = H.attributes
      /\ batch.lastOffsetDelta = H.lastOffsetDelta /\ batch.baseTimestamp = H.baseTimestamp
      /\ batch.maxTimestamp = H.maxTimestamp /\ batch.producerId = H.producerId
      /\ batch.producerEpoch = H.producerEpoch /\ batch.baseSequence = H.baseSequence
  <2>1. \A name \in BatchNames : batch[name] = H[name]
    BY <1>2, MergedHas
  <2> QED
    BY <2>1 DEF BatchNames
<1>7. batch.baseOffset = first /\ batch.records = <<>>
  <2>1. \A name \in DOMAIN v \ BatchNames : batch[name] = v[name]
    BY <1>2, MergedHas
  <2>2. "baseOffset" \in DOMAIN v \ BatchNames /\ "records" \in DOMAIN v \ BatchNames
    BY <1>3 DEF BatchNames
  <2> QED
    BY <1>3, <2>1, <2>2
<1>8. \A n \in {2, 4, 8} : \A o \in Nat : o + n <= 45 => ReadInt(n, b, o).value \in Int
  <2> SUFFICES ASSUME NEW n \in {2, 4, 8}, NEW o \in Nat, o + n <= 45
               PROVE  ReadInt(n, b, o).value \in Int
    OBVIOUS
  <2>1. n \in Nat /\ n > 0
    OBVIOUS
  <2>2. o + n <= Len(b)
    BY <1>4, <2>1
  <2> QED
    BY <1>4, <2>1, <2>2, IntIsInt
<1>9. TypedBatch(batch)
  <2>1. /\ ReadInt(4, b, 0).value \in Int /\ ReadInt(2, b, 9).value \in Int
        /\ ReadInt(4, b, 11).value \in Int /\ ReadInt(8, b, 15).value \in Int
        /\ ReadInt(8, b, 23).value \in Int /\ ReadInt(8, b, 31).value \in Int
        /\ ReadInt(2, b, 39).value \in Int /\ ReadInt(4, b, 41).value \in Int
    BY SMTT(30), <1>8
  <2>2. <<>> \in Seq(Encodable)
    OBVIOUS
  <2>3. /\ H.partitionLeaderEpoch \in Int /\ H.attributes \in Int /\ H.lastOffsetDelta \in Int
        /\ H.baseTimestamp \in Int /\ H.maxTimestamp \in Int /\ H.producerId \in Int
        /\ H.producerEpoch \in Int /\ H.baseSequence \in Int
    BY <1>5, <2>1
  <2>4. /\ batch.partitionLeaderEpoch \in Int /\ batch.attributes \in Int
        /\ batch.lastOffsetDelta \in Int /\ batch.baseTimestamp \in Int
        /\ batch.maxTimestamp \in Int /\ batch.producerId \in Int
        /\ batch.producerEpoch \in Int /\ batch.baseSequence \in Int
    BY <1>6, <2>3
  <2> DEFINE none == <<>>
  <2>5. none \in Seq(Encodable) /\ batch.records = none
    BY <1>7, <2>2
  <2>6. batch.baseOffset \in Int
    <3>1. first \in Int
      OBVIOUS
    <3> QED
      BY <1>7, <3>1
  <2> HIDE DEF none
  <2>7. batch.records \in Seq(Encodable)
    BY <2>5
  <2> QED
    BY <2>4, <2>6, <2>7 DEF TypedBatch
<1>10. batch.lastOffsetDelta = next - first - 1
  <2>1. BatchHeader(bytes).lastOffsetDelta = H.lastOffsetDelta
    BY ContentDef DEF H, b
  <2> QED
    BY <1>6, <2>1
<1>11. Len(batch.records) = 0 /\ \A j \in 1 .. Len(batch.records) : FALSE
  BY <1>7
<1>12. Batched(w, c, EncodedBatch(batch), ContentAt(first, EncodedBatch(batch)), first, next)
  BY <1>9, <1>10, <1>11, EncodedHolds
<1>13. Content(EncodedBatch(batch)) = ContentAt(first, EncodedBatch(batch))
  <2>1. ReadInt(8, EncodedBatch(batch), 0).value = first
    BY <1>7, <1>9, BatchIsReadAsWritten
  <2> QED
    BY <2>1 DEF Content
<1> QED
  BY <1>12, <1>13 DEF Batched, Framed

-----------------------------------------------------------------------------
(* The log of a partition, as the broker and its cleaner change it.        *)

\* A batch gets the offset after the last one, and the log a batch more.
LEMMA EntryAppended ==
    ASSUME NEW l, NEW w, NEW c, InLog(l, w, c), Fits(EndOf(l), 8),
           NEW bytes, NEW next, Batched(w, c, bytes, ContentAt(EndOf(l), bytes), EndOf(l), next)
    PROVE  /\ InLog(Append(l, Entry(EndOf(l), bytes)), w, c)
           /\ EndOf(Append(l, Entry(EndOf(l), bytes))) = next
           /\ BatchHeader(bytes).lastOffsetDelta + 1 \in Nat
<1> DEFINE first == EndOf(l)
           given == Entry(first, bytes).bytes
           after == first + BatchHeader(bytes).lastOffsetDelta + 1
<1>1. /\ first \in Nat /\ next \in Nat /\ first < next /\ Framed(bytes)
      /\ BatchHeader(bytes).lastOffsetDelta = next - first - 1
      /\ Holds(w, c, ContentAt(first, bytes), first, next)
  BY DEF Batched
<1> HIDE DEF first
<1>2. after = next /\ BatchHeader(bytes).lastOffsetDelta + 1 \in Nat
  BY <1>1
<1>3. /\ Framed(given) /\ Content(given) = ContentAt(first, bytes)
      /\ BatchHeader(given) = BatchHeader(bytes)
  <2>1. first \in Int /\ Fits(first, 8)
    BY <1>1 DEF first
  <2> QED
    BY <1>1, <2>1, OffsetIsGiven
<1>4. Entry(first, bytes) = [first |-> first, next |-> next, bytes |-> given]
  <2>1. given = Int64(first) \o SubSeq(bytes, 9, Len(bytes))
    BY DEF Entry
  <2>2. Entry(first, bytes) = [first |-> first, next |-> after,
                               bytes |-> Int64(first) \o SubSeq(bytes, 9, Len(bytes))]
    BY DEF Entry
  <2> HIDE DEF given, after
  <2> QED
    BY <1>2, <2>1, <2>2
<1> HIDE DEF given
<1>5. Batched(w, c, given, Content(given), first, next)
  BY <1>1, <1>3 DEF Batched
<1>6. LET k == Append(l, [first |-> first, next |-> next, bytes |-> given])
      IN  InLog(k, w, c) /\ EndOf(k) = next
  BY <1>5, LogAppended DEF first
<1> QED
  BY <1>2, <1>4, <1>6 DEF first

\* The cleaner empties batch i.
LEMMA LogEmptied ==
    ASSUME NEW l, NEW w, NEW c, InLog(l, w, c), Extends(w, w), EndOf(l) <= Len(w),
           NEW i \in DOMAIN l, NEW e, e = c \cup (l[i].first .. l[i].next - 1),
           NEW bytes, Batched(w, e, bytes, Content(bytes), l[i].first, l[i].next)
    PROVE  InLog([l EXCEPT ![i].bytes = bytes], w, e) /\ EndOf([l EXCEPT ![i].bytes = bytes]) = EndOf(l)
<1> DEFINE k == [l EXCEPT ![i].bytes = bytes]
           n == Len(l)
           X == [first : Nat, next : Nat, bytes : Seq(Byte)]
<1>1. /\ n \in Nat /\ DOMAIN l = 1 .. n /\ EndOf(l) \in Nat
      /\ l = <<>> <=> n = 0
      /\ n > 0 => EndOf(l) = l[n].next
      /\ \A j \in 1 .. n : /\ l[j].first \in Nat /\ l[j].next \in Nat /\ l[j].first < l[j].next
                           /\ l[j].next <= EndOf(l)
  BY LogEnds
<1>2. e \subseteq 0 .. EndOf(l) - 1 /\ c \subseteq e
  <2>1. c \subseteq 0 .. EndOf(l) - 1
    BY DEF InLog
  <2>2. i \in 1 .. n
    BY <1>1
  <2>3. l[i].first \in Nat /\ l[i].next \in Nat /\ l[i].next <= EndOf(l)
    BY <1>1, <2>2
  <2>4. l[i].first .. l[i].next - 1 \subseteq 0 .. EndOf(l) - 1
    BY <1>1, <2>3
  <2> QED
    BY <2>1, <2>4
<1>3. InLog(l, w, e)
  BY <1>2, LogLater
<1>4. l \in Seq(X) /\ \A j \in 1 .. n : l[j] \in X
  <2>1. l \in Seq(X)
    BY DEF InLog
  <2> HIDE DEF X
  <2> QED
    BY <2>1
<1>5. bytes \in Seq(Byte)
  BY DEF Batched, Framed
<1>6. /\ DOMAIN k = 1 .. n
      /\ \A j \in 1 .. n : k[j].first = l[j].first /\ k[j].next = l[j].next /\ k[j] \in X
      /\ \A j \in 1 .. n : j # i => k[j] = l[j]
      /\ k[i].bytes = bytes
  <2>1. k = [j \in 1 .. n |-> IF j = i THEN [l[i] EXCEPT !.bytes = bytes] ELSE l[j]]
    BY <1>1, <1>4
  <2>2. l[i] \in X /\ l[i] = [first |-> l[i].first, next |-> l[i].next, bytes |-> l[i].bytes]
    BY <1>1, <1>4
  <2>3. [l[i] EXCEPT !.bytes = bytes] = [first |-> l[i].first, next |-> l[i].next, bytes |-> bytes]
    BY <2>2
  <2>4. DOMAIN k = 1 .. n /\ \A j \in 1 .. n : k[j] = IF j = i THEN [l[i] EXCEPT !.bytes = bytes] ELSE l[j]
    BY <2>1
  <2> DEFINE x == [first |-> l[i].first, next |-> l[i].next, bytes |-> bytes]
  <2>5. x \in X /\ x.first = l[i].first /\ x.next = l[i].next /\ x.bytes = bytes
    BY <1>5, <2>2
  <2> HIDE DEF k, x, X
  <2>6. i \in 1 .. n /\ k[i] = x
    BY <1>1, <2>3, <2>4 DEF x
  <2>7. \A j \in 1 .. n : j # i => k[j] = l[j]
    BY <2>4
  <2>8. ASSUME NEW j \in 1 .. n
        PROVE  k[j].first = l[j].first /\ k[j].next = l[j].next /\ k[j] \in X
    <3>1. CASE j = i
      BY <2>5, <2>6, <3>1
    <3>2. CASE j # i
      BY <1>4, <2>7, <3>2
    <3> QED
      BY <3>1, <3>2
  <2> QED
    BY <2>4, <2>5, <2>6, <2>7, <2>8
<1>7. k \in Seq(X) /\ Len(k) = n
  <2> HIDE DEF X
  <2>1. k = [j \in 1 .. n |-> k[j]]
    <3>1. k = [l EXCEPT ![i] = [@ EXCEPT !.bytes = bytes]]
      OBVIOUS
    <3> DEFINE x == [l[i] EXCEPT !.bytes = bytes]
    <3>2. k = [j \in DOMAIN l |-> IF j = i THEN x ELSE l[j]]
      BY <1>4, <3>1
    <3> HIDE DEF k, x
    <3> QED
      BY <1>1, <3>2
  <2> HIDE DEF k
  <2>2. k \in [1 .. n -> X]
    BY <1>6, <2>1
  <2> QED
    BY <1>1, <2>2, FunctionIsSeq
<1> HIDE DEF k
<1>8. EndOf(k) = EndOf(l)
  <2>1. k # <<>> /\ l # <<>> /\ n \in 1 .. n
    <3>1. i \in 1 .. n
      BY <1>1
    <3>2. n > 0
      BY <1>1, <3>1
    <3>3. k # <<>>
      BY <1>6, <3>1
    <3> QED
      BY <1>1, <3>2, <3>3
  <2>2. EndOf(k) = k[n].next
    BY <1>7, <2>1 DEF EndOf, Last
  <2> QED
    BY SMTT(15), <1>1, <1>6, <2>1, <2>2
<1>9. ASSUME NEW j \in DOMAIN k
      PROVE  Batched(w, e, k[j].bytes, Content(k[j].bytes), k[j].first, k[j].next)
  <2>1. CASE j = i
    BY <1>1, <1>6, <2>1
  <2>2. CASE j # i
    BY <1>1, <1>3, <1>6, <2>2 DEF InLog
  <2> QED
    BY <2>1, <2>2
<1>10. Ordered(k)
  BY <1>1, <1>3, <1>6 DEF InLog, Ordered
<1>11. Covered(k, e)
  <2>1. Covered(l, e)
    BY <1>3 DEF InLog
  <2> SUFFICES ASSUME NEW o \in 0 .. EndOf(l) - 1
               PROVE  o \in e \/ \E j \in DOMAIN k : k[j].first <= o /\ o < k[j].next
    BY <1>8 DEF Covered
  <2>2. o \in e \/ \E j \in DOMAIN l : l[j].first <= o /\ o < l[j].next
    BY <2>1 DEF Covered
  <2> QED
    BY <1>1, <1>6, <2>2
<1> QED
  BY <1>2, <1>7, <1>8, <1>9, <1>10, <1>11 DEF InLog, X, k

\* The cleaner removes batch i.
LEMMA LogRemoved ==
    ASSUME NEW l, NEW w, NEW c, InLog(l, w, c), Extends(w, w), EndOf(l) <= Len(w),
           NEW i \in DOMAIN l, i < Len(l), NEW e, e = c \cup (l[i].first .. l[i].next - 1)
    PROVE  InLog(RemoveAt(l, i), w, e) /\ EndOf(RemoveAt(l, i)) = EndOf(l)
<1> DEFINE k == RemoveAt(l, i)
           n == Len(l)
           X == [first : Nat, next : Nat, bytes : Seq(Byte)]
           old(j) == IF j < i THEN j ELSE j + 1
<1>1. /\ n \in Nat /\ DOMAIN l = 1 .. n /\ EndOf(l) \in Nat
      /\ l = <<>> <=> n = 0
      /\ n > 0 => EndOf(l) = l[n].next
      /\ \A j \in 1 .. n : /\ l[j].first \in Nat /\ l[j].next \in Nat /\ l[j].first < l[j].next
                           /\ l[j].next <= EndOf(l)
  BY LogEnds
<1>2. e \subseteq 0 .. EndOf(l) - 1 /\ c \subseteq e
  <2>1. c \subseteq 0 .. EndOf(l) - 1
    BY DEF InLog
  <2>2. i \in 1 .. n
    BY <1>1
  <2>3. l[i].first \in Nat /\ l[i].next \in Nat /\ l[i].next <= EndOf(l)
    BY <1>1, <2>2
  <2>4. l[i].first .. l[i].next - 1 \subseteq 0 .. EndOf(l) - 1
    BY <1>1, <2>3
  <2> QED
    BY <2>1, <2>4
<1>3. InLog(l, w, e)
  BY <1>2, LogLater
<1>4. l \in Seq(X)
  BY DEF InLog
<1> HIDE DEF X
<1>5. i \in 1 .. n /\ i < n
  BY <1>1
<1>6. k \in Seq(X) /\ Len(k) = n - 1 /\ \A j \in 1 .. n - 1 : k[j] = l[old(j)]
  <2>1. k = SubSeq(l, 1, i - 1) \o SubSeq(l, i + 1, n)
    BY DEF RemoveAt
  <2> DEFINE s == SubSeq(l, 1, i - 1)
             t == SubSeq(l, i + 1, n)
  <2>2. s \in Seq(X) /\ Len(s) = i - 1 /\ \A j \in 1 .. i - 1 : s[j] = l[j]
    <3>1. 1 \in Int /\ i - 1 \in Int /\ \A j \in 1 .. i - 1 : l[j] \in X
      BY <1>1, <1>4, <1>5
    <3>2. /\ s \in Seq(X) /\ Len(s) = IF 1 <= i - 1 THEN i - 1 - 1 + 1 ELSE 0
          /\ \A j \in 1 .. i - 1 - 1 + 1 : s[j] = l[1 + j - 1]
      BY <3>1, SubSeqProperties
    <3> HIDE DEF s
    <3> QED
      BY <1>5, <3>2
  <2>3. t \in Seq(X) /\ Len(t) = n - i /\ \A j \in 1 .. n - i : t[j] = l[i + j]
    <3>1. i + 1 \in Int /\ n \in Int /\ \A j \in i + 1 .. n : l[j] \in X
      BY <1>1, <1>4, <1>5
    <3>2. /\ t \in Seq(X) /\ Len(t) = IF i + 1 <= n THEN n - (i + 1) + 1 ELSE 0
          /\ \A j \in 1 .. n - (i + 1) + 1 : t[j] = l[i + 1 + j - 1]
      BY <3>1, SubSeqProperties
    <3>3. i + 1 <= n /\ n - (i + 1) + 1 = n - i
      BY <1>1, <1>5
    <3> HIDE DEF t, n
    <3>4. \A j \in 1 .. n - i : i + 1 + j - 1 = i + j
      BY <1>5
    <3> QED
      BY <3>2, <3>3, <3>4
  <2> HIDE DEF s, t, n
  <2>4. k = s \o t
    BY <2>1 DEF s, t
  <2> HIDE DEF k
  <2>5. /\ k \in Seq(X) /\ Len(k) = Len(s) + Len(t)
        /\ \A j \in 1 .. Len(s) + Len(t) : k[j] = IF j <= Len(s) THEN s[j] ELSE t[j - Len(s)]
    BY <2>2, <2>3, <2>4, ConcatProperties
  <2>6. Len(k) = n - 1 /\ Len(s) + Len(t) = n - 1
    BY <1>1, <1>5, <2>2, <2>3, <2>5
  <2>7. ASSUME NEW j \in 1 .. n - 1 PROVE k[j] = l[old(j)]
    <3>1. k[j] = IF j <= i - 1 THEN s[j] ELSE t[j - (i - 1)]
      BY <2>2, <2>5, <2>6
    <3>2. CASE j < i
      <4>1. j \in 1 .. i - 1 /\ j <= i - 1
        BY <1>5, <3>2
      <4> QED
        BY <2>2, <3>1, <3>2, <4>1
    <3>3. CASE ~(j < i)
      <4>1. j - (i - 1) \in 1 .. n - i /\ i + (j - (i - 1)) = j + 1 /\ ~(j <= i - 1)
        BY <1>1, <1>5, <3>3
      <4> QED
        BY <2>3, <3>1, <3>3, <4>1
    <3> QED
      BY <3>2, <3>3
  <2> QED
    BY <2>5, <2>6, <2>7
<1> HIDE DEF k, n
<1>7. DOMAIN k = 1 .. n - 1 /\ n - 1 \in 1 .. n - 1
  BY <1>1, <1>5, <1>6
<1>8. \A j \in 1 .. n - 1 : old(j) \in 1 .. n /\ old(j) # i
  BY <1>1, <1>5
<1>9. \A j, h \in 1 .. n - 1 : j < h => old(j) < old(h)
  BY <1>1, <1>5
<1>10. \A j \in 1 .. n : j # i => \E h \in 1 .. n - 1 : old(h) = j
  <2> SUFFICES ASSUME NEW j \in 1 .. n, j # i PROVE \E h \in 1 .. n - 1 : old(h) = j
    OBVIOUS
  <2>1. CASE j < i
    <3>1. j \in 1 .. n - 1 /\ old(j) = j
      BY <1>1, <1>5, <2>1
    <3> QED
      BY <3>1
  <2>2. CASE i < j
    <3>1. j - 1 \in 1 .. n - 1 /\ old(j - 1) = j
      BY <1>1, <1>5, <2>2
    <3> QED
      BY <3>1
  <2> QED
    BY <1>5, <2>1, <2>2
<1>11. old(n - 1) = n
  BY <1>1, <1>5
<1> HIDE DEF old
<1>12. EndOf(k) = EndOf(l)
  <2>1. k # <<>>
    BY <1>7
  <2>2. EndOf(k) = k[n - 1].next
    BY <1>6, <2>1 DEF EndOf, Last
  <2>3. n > 0
    BY <1>1, <1>5
  <2> QED
    BY <1>1, <1>6, <1>7, <1>11, <2>2, <2>3
<1>13. ASSUME NEW j \in DOMAIN k
       PROVE  Batched(w, e, k[j].bytes, Content(k[j].bytes), k[j].first, k[j].next)
  <2>1. k[j] = l[old(j)] /\ old(j) \in DOMAIN l
    BY <1>1, <1>6, <1>7, <1>8
  <2>2. Batched(w, e, l[old(j)].bytes, Content(l[old(j)].bytes), l[old(j)].first, l[old(j)].next)
    BY <1>3, <2>1 DEF InLog
  <2> QED
    BY <2>1, <2>2
<1>14. Ordered(k)
  <2>1. Ordered(l)
    BY <1>3 DEF InLog
  <2> SUFFICES ASSUME NEW j \in 1 .. n - 1, NEW h \in 1 .. n - 1, j < h PROVE k[j].next <= k[h].first
    BY <1>7 DEF Ordered
  <2>2. l[old(j)].next <= l[old(h)].first
    BY <1>1, <1>8, <1>9, <2>1 DEF Ordered
  <2> QED
    BY <1>6, <2>2
<1>15. Covered(k, e)
  <2>1. Covered(l, e)
    BY <1>3 DEF InLog
  <2> SUFFICES ASSUME NEW o \in 0 .. EndOf(l) - 1, o \notin e
               PROVE  \E j \in DOMAIN k : k[j].first <= o /\ o < k[j].next
    BY <1>12 DEF Covered
  <2>2. PICK j \in DOMAIN l : l[j].first <= o /\ o < l[j].next
    BY <2>1 DEF Covered
  <2>3. j # i
    <3> SUFFICES ASSUME j = i PROVE FALSE
      OBVIOUS
    <3>1. o \in l[i].first .. l[i].next - 1
      BY <1>1, <1>5, <2>2
    <3> QED
      BY <3>1
  <2>4. PICK h \in 1 .. n - 1 : old(h) = j
    BY <1>1, <1>10, <2>2, <2>3
  <2> QED
    BY <1>6, <1>7, <2>2, <2>4
<1> QED
  BY <1>2, <1>6, <1>12, <1>13, <1>14, <1>15 DEF InLog, X, k

-----------------------------------------------------------------------------
(* What a fetch returns of a log.                                          *)

\* The batches of r, in bytes.
BytesOf(r) == [j \in DOMAIN r |-> r[j].bytes]

\* The batches that end after an offset.
Later(l, from) == {i \in 1 .. Len(l) : l[i].next > from}

\* Batches out of a log are framed, each of them.
LEMMA LaterFramed ==
    ASSUME NEW l, NEW w, NEW c, InLog(l, w, c), NEW from, NEW r, NEW K,
           Filtered(r, Len(l), Later(l, from), l, K)
    PROVE  /\ Len(r) \in Nat /\ DOMAIN r = 1 .. Len(r)
           /\ BytesOf(r) \in Seq(Seq(Byte)) /\ Len(BytesOf(r)) = Len(r)
           /\ \A j \in 1 .. Len(r) : BytesOf(r)[j] = r[j].bytes /\ Framed(BytesOf(r)[j])
<1> DEFINE n == Len(r)
           X == Seq(Byte)
           bs == BytesOf(r)
<1>1. n \in Nat /\ DOMAIN r = 1 .. n
  BY SequenceDomain DEF Filtered
<1>2. ASSUME NEW j \in 1 .. n PROVE Framed(r[j].bytes)
  <2>1. K[j] \in DOMAIN l /\ r[j] = l[K[j]]
    BY LogEnds DEF Filtered
  <2>2. Batched(w, c, l[K[j]].bytes, Content(l[K[j]].bytes), l[K[j]].first, l[K[j]].next)
    BY <2>1 DEF InLog
  <2> QED
    BY <2>1, <2>2 DEF Batched
<1>3. bs = [j \in 1 .. n |-> r[j].bytes]
  BY <1>1 DEF BytesOf
<1>4. \A j \in 1 .. n : bs[j] = r[j].bytes
  BY <1>3
<1>5. \A j \in 1 .. n : r[j].bytes \in X
  BY <1>2 DEF Framed
<1> HIDE DEF X, n, bs
<1>6. bs \in [1 .. n -> X]
  BY <1>3, <1>5
<1>7. bs \in Seq(X) /\ Len(bs) = n
  BY <1>1, <1>6, FunctionIsSeq
<1> QED
  BY <1>1, <1>2, <1>4, <1>7 DEF X, n, bs

\* The batches that a limit on bytes leaves whole come next after an offset.
LEMMA LaterFollow ==
    ASSUME NEW l, NEW w, NEW c, InLog(l, w, c), NEW from \in Nat, NEW r, NEW K,
           Filtered(r, Len(l), Later(l, from), l, K), NEW h \in 0 .. Len(r)
    PROVE  Fetched(Contents(BytesOf(r), h), w, c, from, EndOf(l))
<1> DEFINE n == Len(r)
           B == Contents(BytesOf(r), h)
           end == EndOf(l)
<1>1. n \in Nat /\ \A j \in 1 .. n : BytesOf(r)[j] = r[j].bytes
  <2>1. Len(r) \in Nat /\ \A j \in 1 .. Len(r) : BytesOf(r)[j] = r[j].bytes /\ Framed(BytesOf(r)[j])
    BY LaterFramed
  <2> QED
    BY <2>1
<1>2. h \in Nat /\ h <= n /\ DOMAIN B = 1 .. h /\ \A j \in 1 .. h : B[j] = Content(r[j].bytes)
  BY <1>1 DEF Contents
<1>3. Sequence(B)
  <2>1. B = [j \in 1 .. h |-> B[j]]
    BY DEF Contents
  <2> HIDE DEF B
  <2> QED
    BY <1>2, <2>1, Listed
<1>4. /\ Len(l) \in Nat /\ DOMAIN l = 1 .. Len(l) /\ end \in Nat
      /\ \A i \in 1 .. Len(l) :
             /\ l[i].first \in Nat /\ l[i].next \in Nat /\ l[i].first < l[i].next
             /\ l[i].next <= end
  BY LogEnds
<1> HIDE DEF B, end, n
<1>5. ASSUME NEW j \in 1 .. n
      PROVE  K[j] \in 1 .. Len(l) /\ l[K[j]].next > from /\ r[j] = l[K[j]]
  <2>1. K[j] \in Later(l, from) /\ r[j] = l[K[j]]
    BY DEF Filtered, n
  <2> QED
    BY <2>1 DEF Later
<1> SUFFICES ASSUME \A j \in DOMAIN B : B[j].supported PROVE Following(B, w, c, from, end)
  BY <1>3 DEF Fetched, B, end
<1>6. ASSUME NEW j \in 1 .. h
      PROVE  LET e == l[K[j]]
             IN  /\ B[j].baseOffset = e.first /\ After(B[j]) = e.next
                 /\ Holds(w, c, B[j], e.first, e.next)
                 /\ e.first \in Nat /\ e.next \in from + 1 .. end /\ e.first < e.next
  <2> DEFINE e == l[K[j]]
  <2>1. j \in 1 .. n
    BY <1>1, <1>2
  <2>2. K[j] \in 1 .. Len(l) /\ e.next > from /\ r[j] = e /\ B[j] = Content(r[j].bytes)
    BY <1>2, <1>5, <2>1
  <2>3. Batched(w, c, e.bytes, Content(e.bytes), e.first, e.next)
    BY <1>4, <2>2 DEF InLog
  <2>4. e.first \in Nat /\ e.next \in Nat /\ e.first < e.next /\ e.next <= end
    BY <1>4, <2>2
  <2> HIDE DEF e
  <2>5. Holds(w, c, B[j], e.first, e.next) /\ B[j].supported
    BY <1>2, <2>2, <2>3 DEF Batched
  <2>6. B[j].baseOffset = e.first /\ B[j].lastOffsetDelta = e.next - e.first - 1
    BY <2>5 DEF Holds
  <2>7. After(B[j]) = e.next
    BY <2>4, <2>6 DEF After
  <2>8. e.next \in from + 1 .. end
    BY <1>4, <2>2, <2>4
  <2> QED
    BY <2>4, <2>5, <2>6, <2>7, <2>8 DEF e
<1>7. ASSUME NEW j \in 1 .. h, NEW k \in 1 .. h, j < k
      PROVE  After(B[j]) <= B[k].baseOffset
  <2>1. j \in 1 .. n /\ k \in 1 .. n
    BY <1>1, <1>2
  <2>2. K[j] < K[k] /\ K[j] \in DOMAIN l /\ K[k] \in DOMAIN l
    <3>1. K[j] < K[k]
      BY <1>7, <2>1 DEF Filtered, n
    <3> QED
      BY <1>4, <1>5, <2>1, <3>1
  <2>3. l[K[j]].next <= l[K[k]].first
    BY <2>2 DEF InLog, Ordered
  <2>4. After(B[j]) = l[K[j]].next /\ B[k].baseOffset = l[K[k]].first
    BY <1>6
  <2> QED
    BY <2>3, <2>4
<1>8. ASSUME NEW k \in 1 .. h, NEW o \in from .. After(B[k]) - 1, o \notin c
      PROVE  \E i \in 1 .. k : InOffsets(B[i], o)
  <2> DEFINE a == After(B[k])
  <2>1. o \in from .. a - 1 /\ a = l[K[k]].next /\ a \in from + 1 .. end
    BY <1>6
  <2>2. o \in 0 .. end - 1 /\ o < l[K[k]].next /\ from <= o
    <3> HIDE DEF a
    <3>1. end \in Nat
      BY <1>4
    <3>2. o \in 0 .. end - 1 /\ o < a /\ from <= o
      BY <2>1, <3>1
    <3> QED
      BY <2>1, <3>2
  <2>3. PICK i \in 1 .. Len(l) : l[i].first <= o /\ o < l[i].next
    <3>1. Covered(l, c)
      BY DEF InLog
    <3> QED
      BY <1>4, <1>8, <2>2, <3>1 DEF Covered, end
  <2>4. i \in Later(l, from)
    <3>1. l[i].next > from
      BY <1>4, <2>2, <2>3
    <3> QED
      BY <3>1 DEF Later
  <2>5. PICK j \in 1 .. n : K[j] = i
    BY <2>4 DEF Filtered, n
  <2>6. j <= k
    <3> SUFFICES ASSUME k < j PROVE FALSE
      BY <1>1, <1>2
    <3>1. k \in 1 .. n
      BY <1>1, <1>2
    <3>2. K[k] < K[j]
      BY <3>1 DEF Filtered, n
    <3>3. l[K[k]].next <= l[K[j]].first
      BY <1>4, <1>5, <3>1, <3>2 DEF InLog, Ordered
    <3> QED
      BY SMTT(15), <1>4, <1>5, <2>2, <2>3, <2>5, <3>1, <3>3
  <2>7. j \in 1 .. k /\ j \in 1 .. h
    BY <1>2, <2>6
  <2>8. B[j].baseOffset = l[i].first /\ After(B[j]) = l[i].next
    BY <1>6, <2>5, <2>7
  <2> QED
    BY <2>3, <2>7, <2>8 DEF InOffsets
<1>9. ASSUME NEW i \in DOMAIN B
      PROVE  /\ B[i].baseOffset \in Nat /\ After(B[i]) \in from + 1 .. end
             /\ B[i].baseOffset < After(B[i])
             /\ Holds(w, c, B[i], B[i].baseOffset, After(B[i]))
  BY <1>2, <1>6
<1>10. Followed(B, c, from)
  BY <1>2, <1>8 DEF Followed
<1> QED
  BY <1>2, <1>7, <1>9, <1>10 DEF Following

\* Whatever the limit on bytes, what is read of them comes next.
LEMMA CutLogRead ==
    ASSUME NEW l, NEW w, NEW c, InLog(l, w, c), NEW from \in Nat, NEW r, NEW K,
           Filtered(r, Len(l), Later(l, from), l, K), NEW limit \in Nat
    PROVE  /\ Subarray(FlattenSeq(BytesOf(r)), 0, limit) \in Seq(Byte)
           /\ Fetched(DecodedRecordBatch(Subarray(FlattenSeq(BytesOf(r)), 0, limit)),
                      w, c, from, EndOf(l))
<1> DEFINE bs == BytesOf(r)
           all == FlattenSeq(bs)
           b == Subarray(all, 0, limit)
<1>1. /\ Len(r) \in Nat /\ bs \in Seq(Seq(Byte)) /\ Len(bs) = Len(r)
      /\ \A j \in 1 .. Len(bs) : Framed(bs[j])
  BY LaterFramed
<1>2. all \in Seq(Byte)
  BY <1>1, Blocks
<1>3. b \in Seq(Byte)
  <2> HIDE DEF all
  <2> DEFINE h == IF limit < Len(all) THEN limit ELSE Len(all)
  <2>1. 1 \in Int /\ h \in Int /\ \A i \in 1 .. h : all[i] \in Byte
    BY <1>2
  <2>2. b = SubSeq(all, 1, h)
    BY DEF Subarray
  <2> HIDE DEF h, b
  <2> QED
    BY <2>1, <2>2, SubSeqProperties
<1> HIDE DEF bs
<1>4. PICK A : \E h : /\ Whole(h, Len(b), A, Len(bs)) /\ DecodedRecordBatch(b) = Contents(bs, h)
  BY <1>1, CutBatchesAreRead
<1>5. PICK h : /\ Whole(h, Len(b), A, Len(bs)) /\ DecodedRecordBatch(b) = Contents(bs, h)
  BY <1>4
<1> HIDE DEF b
<1>6. h \in 0 .. Len(r)
  BY <1>1, <1>5 DEF Whole
<1>7. Fetched(Contents(bs, h), w, c, from, EndOf(l))
  BY <1>6, LaterFollow DEF bs
<1> QED
  BY <1>3, <1>5, <1>7 DEF b, all, bs

-----------------------------------------------------------------------------
(* The response to a fetch.                                                *)

\* The batches behind the position are those of the log that end after it.
LEMMA BehindDef ==
    ASSUME NEW p, NEW w, NEW c, InLog(log[p], w, c)
    PROVE  \E K : Filtered(Behind(p), Len(log[p]), Later(log[p], position[p]), log[p], K)
<1> DEFINE l == log[p]
           n == Len(l)
           S == Later(l, position[p])
<1>1. n \in Nat /\ DOMAIN l = 1 .. n
  BY LogEnds
<1>2. \A i \in 1 .. n : (l[i].next > position[p]) <=> i \in S
  BY DEF Later
<1>3. \A i \in 1 .. n : When(l[i].next > position[p], l[i]) = When(i \in S, l[i])
  BY <1>2 DEF When
<1>4. Behind(p) = FlattenSeq([i \in 1 .. n |-> When(l[i].next > position[p], l[i])])
  BY <1>1 DEF Behind
<1> HIDE DEF l, n, S
<1>5. [i \in 1 .. n |-> When(l[i].next > position[p], l[i])] = [i \in 1 .. n |-> When(i \in S, l[i])]
  BY <1>3
<1>6. Behind(p) = FlattenSeq([i \in 1 .. n |-> When(i \in S, l[i])])
  BY <1>4, <1>5
<1>7. \E K : Filtered(FlattenSeq([i \in 1 .. n |-> When(i \in S, l[i])]), n, S, l, K)
  BY <1>1, Filter
<1>8. \E K : Filtered(Behind(p), n, S, l, K)
  BY <1>6, <1>7
<1> QED
  BY <1>8 DEF l, n, S

\* What a fetch returns of a log is read as batches that follow the position.
LEMMA FetchedBytesRead ==
    ASSUME NEW p, NEW w, NEW c, InLog(log[p], w, c), position[p] \in Nat,
           scenario.partitionMaxBytes \in Nat
    PROVE  /\ FetchedBytes(p) \in Seq(Byte)
           /\ Fetched(DecodedRecordBatch(FetchedBytes(p)), w, c, position[p], EndOf(log[p]))
<1> DEFINE r == Behind(p)
           bytes == FlattenSeq([i \in DOMAIN r |-> r[i].bytes])
           leads == r # <<>> /\ \A q \in 0..p - 1 : Behind(q) = <<>>
           whole == IF leads THEN Len(r[1].bytes) ELSE 0
           limit == scenario.partitionMaxBytes
           most == IF whole > limit THEN whole ELSE limit
<1>1. PICK K : Filtered(r, Len(log[p]), Later(log[p], position[p]), log[p], K)
  BY BehindDef
<1>2. /\ Len(r) \in Nat /\ DOMAIN r = 1 .. Len(r)
      /\ \A j \in 1 .. Len(r) : BytesOf(r)[j] = r[j].bytes /\ Framed(BytesOf(r)[j])
  BY <1>1, LaterFramed
<1>3. bytes = FlattenSeq(BytesOf(r)) /\ FetchedBytes(p) = Subarray(bytes, 0, most)
  BY DEF BytesOf, FetchedBytes
<1> HIDE DEF r, bytes, limit
<1>4. whole \in Nat
  <2>1. CASE leads
    <3>1. r # <<>> /\ whole = Len(r[1].bytes)
      BY <2>1
    <3>2. Sequence(r)
      BY <1>1 DEF Filtered
    <3>3. 1 \in 1 .. Len(r)
      <4> DEFINE Y == ToSet(r)
      <4>1. r \in Seq(Y)
        BY <3>2 DEF Sequence
      <4> HIDE DEF Y
      <4>2. Len(r) # 0
        BY <3>1, <4>1
      <4> QED
        BY <1>2, <4>2
    <3>4. r[1].bytes \in Seq(Byte)
      BY <1>2, <3>3 DEF Framed
    <3> QED
      BY <3>1, <3>4
  <2>2. CASE ~leads
    <3>1. whole = 0
      BY <2>2
    <3> QED
      BY <3>1
  <2> QED
    BY <2>1, <2>2
<1> HIDE DEF whole, leads
<1>5. most \in Nat
  BY <1>4 DEF limit
<1> HIDE DEF most
<1>6. /\ Subarray(FlattenSeq(BytesOf(r)), 0, most) \in Seq(Byte)
      /\ Fetched(DecodedRecordBatch(Subarray(FlattenSeq(BytesOf(r)), 0, most)), w, c, position[p], EndOf(log[p]))
  BY <1>1, <1>5, CutLogRead
<1> QED
  BY <1>3, <1>6

\* Each partition has its part in a response.
LEMMA BatchesOfPart ==
    ASSUME NEW n \in Nat, NEW parts, NEW Fs, PartsRead(parts, n, Fs), NEW p \in 0 .. n - 1
    PROVE  /\ \E part \in ToSet(parts) : part.partitionIndex = p
           /\ Batches(p, parts) = DecodedRecordBatch(Fs[p + 1])
<1>1. /\ DOMAIN parts = 1 .. n
      /\ \A i \in 1 .. n : parts[i].partitionIndex = i - 1 /\ parts[i].records = DecodedRecordBatch(Fs[i])
  BY DEF PartsRead
<1>2. p + 1 \in 1 .. n /\ (p + 1) - 1 = p
  OBVIOUS
<1>3. parts[p + 1] \in ToSet(parts) /\ parts[p + 1].partitionIndex = p
  BY <1>1, <1>2 DEF ToSet
<1>4. ASSUME NEW part \in ToSet(parts), part.partitionIndex = p
      PROVE  part = parts[p + 1]
  <2>1. PICK i \in 1 .. n : part = parts[i]
    BY <1>1 DEF ToSet
  <2>2. i - 1 = p
    BY <1>1, <1>4, <2>1
  <2>3. i = p + 1
    BY <2>2
  <2> QED
    BY <2>1, <2>3
<1>5. (CHOOSE part \in ToSet(parts) : part.partitionIndex = p) = parts[p + 1]
  BY <1>3, <1>4
<1>6. Batches(p, parts) = parts[p + 1].records
  BY <1>5 DEF Batches
<1> QED
  BY <1>1, <1>2, <1>3, <1>6

\* The bytes of a response, with its partitions by number.
LEMMA ResponseBytesDef ==
    ResponseBytes = ResponseOf(NumPartitions, [i \in 1 .. NumPartitions |-> End(i - 1)],
                               [i \in 1 .. NumPartitions |-> FetchedBytes(i - 1)])
<1> DEFINE n == NumPartitions
           es == [i \in 1 .. n |-> End(i - 1)]
           Fs == [i \in 1 .. n |-> FetchedBytes(i - 1)]
           partition(p) == Int32(p) \o Int16(0) \o Int64(End(p)) \o Int64(End(p)) \o Int64(0)
                           \o UVarInt(0) \o Int32(-1)
                           \o UVarInt(Len(FetchedBytes(p)) + 1) \o FetchedBytes(p) \o UVarInt(0)
           topic == TopicId \o CompactArray([i \in 1..n |-> partition(i - 1)]) \o UVarInt(0)
<1>1. ASSUME NEW i \in 1 .. n PROVE partition(i - 1) = PartitionBytes(i - 1, es[i], Fs[i])
  <2>1. es[i] = End(i - 1) /\ Fs[i] = FetchedBytes(i - 1)
    OBVIOUS
  <2> HIDE DEF es, Fs
  <2> QED
    BY <2>1 DEF PartitionBytes
<1>2. [i \in 1 .. n |-> partition(i - 1)] = PartitionsBytes(n, es, Fs)
  <2>1. PartitionsBytes(n, es, Fs) = [i \in 1 .. n |-> PartitionBytes(i - 1, es[i], Fs[i])]
    BY DEF PartitionsBytes
  <2> HIDE DEF partition, es, Fs
  <2> QED
    BY <1>1, <2>1
<1>3. ResponseBytes = UVarInt(0) \o Int32(0) \o Int16(0) \o Int32(0) \o CompactArray(<<topic>>) \o UVarInt(0)
  BY DEF ResponseBytes
<1> HIDE DEF partition, es, Fs
<1>4. topic = TopicBytes(n, es, Fs)
  BY <1>2 DEF TopicBytes
<1> HIDE DEF topic
<1>5. ResponseBytes = ResponseOf(n, es, Fs)
  BY <1>3, <1>4 DEF ResponseOf
<1> QED
  BY <1>5 DEF es, Fs

-----------------------------------------------------------------------------
(* What process() makes of the batches of a partition.                     *)

\* r has the messages of the records of the batches, in their order.
Told(r, batches, K, J) ==
    /\ Sequence(r)
    /\ \A j \in 1 .. Len(r) :
           /\ K[j] \in 1 .. Len(batches) /\ J[j] \in 1 .. Len(batches[K[j]].records)
           /\ r[j] = Received(batches[K[j]], batches[K[j]].records[J[j]])
    /\ \A j, k \in 1 .. Len(r) : j < k => K[j] < K[k] \/ (K[j] = K[k] /\ J[j] < J[k])
    /\ \A i \in 1 .. Len(batches) : \A h \in 1 .. Len(batches[i].records) :
           \E j \in 1 .. Len(r) : K[j] = i /\ J[j] = h

\* Each message of a partition is a record of one of its batches.
LEMMA MessagesDef ==
    ASSUME NEW batches, Sequence(batches), \A i \in DOMAIN batches : Sequence(batches[i].records)
    PROVE  \E K, J : Told(Messages(batches), batches, K, J)
<1> DEFINE n == Len(batches)
           D == {Received(batches[i], batches[i].records[j]) : i \in 1 .. n, j \in Nat}
           X == Seq(D)
           e(i) == [j \in DOMAIN batches[i].records |-> Received(batches[i], batches[i].records[j])]
           items == [i \in DOMAIN batches |-> e(i)]
           r == Messages(batches)
<1>1. n \in Nat /\ DOMAIN batches = 1 .. n
  BY SequenceDomain
<1>2. ASSUME NEW i \in 1 .. n
      PROVE  /\ e(i) \in X /\ Len(e(i)) = Len(batches[i].records)
             /\ \A j \in 1 .. Len(batches[i].records) :
                    e(i)[j] = Received(batches[i], batches[i].records[j])
  <2> DEFINE k == Len(batches[i].records)
             s == e(i)
  <2>1. k \in Nat /\ DOMAIN batches[i].records = 1 .. k
    BY <1>1, SequenceDomain
  <2>2. s = [j \in 1 .. k |-> Received(batches[i], batches[i].records[j])]
    BY <2>1
  <2>3. \A j \in 1 .. k : Received(batches[i], batches[i].records[j]) \in D
    BY <2>1
  <2> HIDE DEF k, s, D
  <2>4. s \in [1 .. k -> D] /\ \A j \in 1 .. k : s[j] = Received(batches[i], batches[i].records[j])
    BY <2>2, <2>3
  <2>5. s \in Seq(D) /\ Len(s) = k
    BY <2>1, <2>4, FunctionIsSeq
  <2> QED
    BY <2>4, <2>5 DEF k, s
<1> HIDE DEF X, e
<1>3. items = [i \in 1 .. n |-> e(i)]
  BY <1>1
<1> HIDE DEF items
<1>4. items \in [1 .. n -> X] /\ \A i \in 1 .. n : items[i] = e(i)
  BY <1>2, <1>3
<1>5. items \in Seq(X) /\ Len(items) = n
  BY <1>1, <1>4, FunctionIsSeq
<1>6. r = FlattenSeq(items)
  BY DEF Messages, items, e
<1> HIDE DEF r, D, n
<1>7. PICK K, J : Located(FlattenSeq(items), items, K, J)
  BY <1>5, Blocks DEF X
<1>8. Sequence(r)
  BY <1>6, <1>7 DEF Located
<1>9. ASSUME NEW j \in 1 .. Len(r)
      PROVE  /\ K[j] \in 1 .. n /\ J[j] \in 1 .. Len(batches[K[j]].records)
             /\ r[j] = Received(batches[K[j]], batches[K[j]].records[J[j]])
  <2>1. K[j] \in 1 .. n /\ J[j] \in 1 .. Len(items[K[j]]) /\ r[j] = items[K[j]][J[j]]
    BY <1>5, <1>6, <1>7 DEF Located
  <2>2. items[K[j]] = e(K[j])
    BY <1>4, <2>1
  <2> QED
    BY <1>2, <2>1, <2>2
<1>10. \A j, k \in 1 .. Len(r) : j < k => K[j] < K[k] \/ (K[j] = K[k] /\ J[j] < J[k])
  BY <1>6, <1>7 DEF Located
<1>11. ASSUME NEW i \in 1 .. n, NEW h \in 1 .. Len(batches[i].records)
       PROVE  \E j \in 1 .. Len(r) : K[j] = i /\ J[j] = h
  <2>1. i \in 1 .. Len(items) /\ h \in 1 .. Len(items[i])
    BY <1>2, <1>4, <1>5
  <2> QED
    BY <1>6, <1>7, <2>1 DEF Located
<1>12. Told(r, batches, K, J)
  BY <1>8, <1>9, <1>10, <1>11 DEF Told, n
<1> QED
  BY <1>12 DEF r

\* The messages that are not resolved are those from the position on.
LEMMA UnresolvedDef ==
    ASSUME NEW messages, Sequence(messages), NEW from
    PROVE  \E K : Filtered(Unresolved(messages, from), Len(messages),
                           {i \in 1 .. Len(messages) : messages[i].offset >= from}, messages, K)
<1> DEFINE n == Len(messages)
           S == {i \in 1 .. n : messages[i].offset >= from}
<1>1. n \in Nat /\ DOMAIN messages = 1 .. n
  BY SequenceDomain
<1>2. \A i \in 1 .. n : (messages[i].offset >= from) <=> i \in S
  OBVIOUS
<1>3. \A i \in 1 .. n : When(messages[i].offset >= from, messages[i]) = When(i \in S, messages[i])
  BY <1>2 DEF When
<1>4. Unresolved(messages, from)
        = FlattenSeq([i \in 1 .. n |-> When(messages[i].offset >= from, messages[i])])
  BY <1>1 DEF Unresolved
<1> HIDE DEF n, S
<1>5. [i \in 1 .. n |-> When(messages[i].offset >= from, messages[i])]
        = [i \in 1 .. n |-> When(i \in S, messages[i])]
  BY <1>3
<1>6. Unresolved(messages, from) = FlattenSeq([i \in 1 .. n |-> When(i \in S, messages[i])])
  BY <1>4, <1>5
<1>7. \E K : Filtered(FlattenSeq([i \in 1 .. n |-> When(i \in S, messages[i])]), n, S, messages, K)
  BY <1>1, Filter
<1>8. \E K : Filtered(Unresolved(messages, from), n, S, messages, K)
  BY <1>6, <1>7
<1> QED
  BY <1>8 DEF n, S

\* The messages rise, are what was sent, and are all there is up to the last
\* offset of the batches.
Tells(r, batches, w, c) ==
    /\ Sequence(r) /\ Rising(r)
    /\ \A j \in DOMAIN r : /\ r[j].offset \in Nat
                           /\ w[r[j].offset + 1] \in {Null, r[j].message}
                           /\ batches # <<>> /\ r[j].offset < After(Last(batches))
    /\ \A i \in DOMAIN batches : \A o \in Nat :
           InOffsets(batches[i], o) => o \in c \/ \E j \in DOMAIN r : r[j].offset = o

\* The messages of a response have the offsets and the values that were written.
LEMMA MessagesTell ==
    ASSUME NEW batches, Sequence(batches), NEW w, NEW c, NEW from \in Nat, NEW end \in Nat,
           Following(batches, w, c, from, end), \A i \in DOMAIN batches : batches[i].supported
    PROVE  Tells(Messages(batches), batches, w, c)
<1> DEFINE n == Len(batches)
           r == Messages(batches)
           base(i) == batches[i].baseOffset
           after(i) == After(batches[i])
           size(i) == Len(batches[i].records)
<1>1. n \in Nat /\ DOMAIN batches = 1 .. n
  BY SequenceDomain
<1>2. ASSUME NEW i \in 1 .. n
      PROVE  /\ base(i) \in Nat /\ after(i) \in Nat /\ base(i) < after(i)
             /\ Sequence(batches[i].records)
             /\ size(i) = after(i) - base(i) \/ (size(i) = 0 /\ base(i) .. after(i) - 1 \subseteq c)
             /\ \A j \in 1 .. size(i) : Gives(w, batches[i], base(i), j)
  <2>1. i \in DOMAIN batches
    BY <1>1
  <2>2. /\ base(i) \in Nat /\ after(i) \in from + 1 .. end /\ base(i) < after(i)
        /\ Holds(w, c, batches[i], base(i), after(i)) /\ batches[i].supported
    BY <2>1 DEF Following
  <2> HIDE DEF base, after
  <2>3. after(i) \in Nat
    BY <2>2
  <2> QED
    BY <2>2, <2>3 DEF Holds
<1>3. \A i, k \in 1 .. n : i < k => after(i) <= base(k)
  BY <1>1 DEF Following
<1>4. ASSUME NEW i \in 1 .. n PROVE size(i) \in Nat /\ size(i) <= after(i) - base(i)
  <2>1. size(i) \in Nat
    BY <1>2, SequenceDomain
  <2>2. /\ base(i) \in Nat /\ after(i) \in Nat /\ base(i) < after(i)
        /\ size(i) = after(i) - base(i) \/ size(i) = 0
    BY <1>2
  <2> DEFINE x == size(i)
             y == after(i)
             z == base(i)
  <2>3. x \in Nat /\ z \in Nat /\ y \in Nat /\ z < y /\ (x = y - z \/ x = 0)
    BY <2>1, <2>2
  <2> HIDE DEF x, y, z
  <2>4. x \in Nat /\ x <= y - z
    BY <2>3
  <2> QED
    BY <2>4 DEF x, y, z
<1>5. PICK K, J : Told(r, batches, K, J)
  BY <1>1, <1>2, MessagesDef
<1> DEFINE at(j) == base(K[j]) + J[j] - 1
           number == Len(r)
<1>6. number \in Nat /\ DOMAIN r = 1 .. number /\ Sequence(r)
  BY <1>5, SequenceDomain DEF Told
<1>7. ASSUME NEW j \in 1 .. number
      PROVE  /\ K[j] \in 1 .. n /\ J[j] \in 1 .. size(K[j])
             /\ r[j].offset = at(j) /\ w[at(j) + 1] \in {Null, r[j].message}
  <2>1. /\ K[j] \in 1 .. n /\ J[j] \in 1 .. size(K[j])
        /\ r[j] = Received(batches[K[j]], batches[K[j]].records[J[j]])
    BY <1>5 DEF Told
  <2>2. Gives(w, batches[K[j]], base(K[j]), J[j])
    BY <1>2, <2>1
  <2>3. r[j].offset = at(j) /\ w[base(K[j]) + J[j]] \in {Null, r[j].message}
    BY <2>1, <2>2 DEF Gives
  <2>4. base(K[j]) \in Nat /\ J[j] \in Nat
    <3>1. base(K[j]) \in Nat /\ size(K[j]) \in Nat
      BY <1>2, <1>4, <2>1
    <3> HIDE DEF base, size
    <3> QED
      BY <2>1, <3>1
  <2>5. base(K[j]) + J[j] = at(j) + 1
    <3> HIDE DEF base
    <3> QED
      BY <2>4
  <2> QED
    BY <2>1, <2>3, <2>5
<1> HIDE DEF r, n, number, base, after, size
<1>8. ASSUME NEW j \in 1 .. number
      PROVE  at(j) \in Nat /\ base(K[j]) <= at(j) /\ at(j) < after(K[j])
  <2>1. K[j] \in 1 .. n /\ J[j] \in 1 .. size(K[j])
    BY <1>7
  <2>2. /\ base(K[j]) \in Nat /\ after(K[j]) \in Nat /\ size(K[j]) \in Nat
        /\ size(K[j]) <= after(K[j]) - base(K[j])
    BY <1>2, <1>4, <2>1
  <2> QED
    BY <2>1, <2>2
<1>9. ASSUME NEW j \in 1 .. number, NEW k \in 1 .. number, j < k PROVE at(j) < at(k)
  <2>1. K[j] < K[k] \/ (K[j] = K[k] /\ J[j] < J[k])
    BY <1>5, <1>9 DEF Told, number
  <2>2. CASE K[j] < K[k]
    <3>1. K[j] \in 1 .. n /\ K[k] \in 1 .. n
      BY <1>7
    <3>2. after(K[j]) <= base(K[k])
      BY <1>3, <2>2, <3>1
    <3>3. /\ at(j) \in Nat /\ at(k) \in Nat /\ at(j) < after(K[j]) /\ base(K[k]) <= at(k)
          /\ after(K[j]) \in Nat /\ base(K[k]) \in Nat
      BY <1>2, <1>8, <3>1
    <3> HIDE DEF at
    <3> QED
      BY <3>2, <3>3
  <2>3. CASE K[j] = K[k] /\ J[j] < J[k]
    <3>1. /\ K[j] \in 1 .. n /\ J[j] \in 1 .. size(K[j]) /\ J[k] \in 1 .. size(K[j])
          /\ base(K[j]) \in Nat /\ size(K[j]) \in Nat
      BY <1>2, <1>4, <1>7, <2>3
    <3> DEFINE x == base(K[j])
    <3>2. at(j) = x + J[j] - 1 /\ at(k) = x + J[k] - 1
      BY <2>3
    <3> HIDE DEF x, at
    <3>3. x \in Nat /\ J[j] \in Int /\ J[k] \in Int
      BY <3>1 DEF x
    <3> QED
      BY <2>3, <3>2, <3>3
  <2> QED
    BY <2>1, <2>2, <2>3
<1>10. Rising(r)
  <2> HIDE DEF at
  <2> QED
    BY <1>6, <1>7, <1>9 DEF Rising
<1>11. ASSUME NEW j \in DOMAIN r
       PROVE  /\ r[j].offset \in Nat
              /\ w[r[j].offset + 1] \in {Null, r[j].message}
              /\ batches # <<>> /\ r[j].offset < After(Last(batches))
  <2>1. j \in 1 .. number /\ K[j] \in 1 .. n
    BY <1>6, <1>7
  <2>2. n \in 1 .. n /\ Last(batches) = batches[n]
    BY <1>1, <2>1 DEF Last, n
  <2>3. after(K[j]) <= after(n)
    <3>1. CASE K[j] = n
      BY <1>2, <2>1, <3>1
    <3>2. CASE K[j] # n
      <4>1. K[j] < n
        BY <1>1, <2>1, <3>2
      <4>2. after(K[j]) <= base(n)
        BY <1>3, <2>1, <2>2, <4>1
      <4> QED
        BY <1>2, <2>1, <2>2, <4>2
    <3> QED
      BY <3>1, <3>2
  <2>4. at(j) \in Nat /\ at(j) < after(K[j]) /\ after(K[j]) \in Nat /\ after(n) \in Nat
    BY <1>2, <1>8, <2>1, <2>2
  <2>5. r[j].offset = at(j) /\ w[at(j) + 1] \in {Null, r[j].message}
    BY <1>7, <2>1
  <2> HIDE DEF at
  <2>6. batches # <<>>
    BY <1>1, <2>2
  <2>7. after(n) = After(Last(batches))
    BY <2>2 DEF after
  <2> QED
    BY <2>3, <2>4, <2>5, <2>6, <2>7
<1>12. ASSUME NEW i \in DOMAIN batches, NEW o \in Nat, InOffsets(batches[i], o), o \notin c
       PROVE  \E j \in DOMAIN r : r[j].offset = o
  <2>1. i \in 1 .. n /\ base(i) <= o /\ o < after(i)
    BY <1>1, <1>12 DEF InOffsets, base, after
  <2>2. base(i) \in Nat /\ after(i) \in Nat /\ o \in base(i) .. after(i) - 1
    BY <1>2, <2>1
  <2>3. size(i) = after(i) - base(i)
    BY <1>2, <1>12, <2>1, <2>2
  <2> DEFINE h == o - base(i) + 1
  <2>4. h \in 1 .. size(i) /\ base(i) + h - 1 = o
    BY <2>1, <2>2, <2>3
  <2> HIDE DEF h
  <2>5. PICK j \in 1 .. number : K[j] = i /\ J[j] = h
    BY ZenonT(30), <1>5, <2>1, <2>4 DEF Told, number, n, size
  <2>6. r[j].offset = at(j)
    BY <1>7
  <2>7. at(j) = o
    BY <2>4, <2>5
  <2> QED
    BY <1>6, <2>6, <2>7
<1> QED
  BY <1>6, <1>10, <1>11, <1>12 DEF Tells, r

\* What is delivered then: the consumer is done with the offsets up to the
\* position that process() resolves.
LEMMA ConsumedMore ==
    ASSUME NEW d, NEW w, NEW c, NEW from, NEW end \in Nat, Consumed(d, w, c, from, end),
           NEW batches, Sequence(batches), Following(batches, w, c, from, end),
           \A i \in DOMAIN batches : batches[i].supported
    PROVE  Consumed(d \o Unresolved(Messages(batches), from), w, c,
                    IF batches = <<>> THEN from ELSE After(Last(batches)), end)
<1> DEFINE r == Messages(batches)
           u == Unresolved(r, from)
           S == {i \in 1 .. Len(r) : r[i].offset >= from}
           t == d \o u
           n == Len(batches)
           till == IF batches = <<>> THEN from ELSE After(Last(batches))
<1>1. from \in Nat /\ from <= end
  BY DEF Consumed
<1>2. Tells(r, batches, w, c)
  BY <1>1, MessagesTell
<1>3. Sequence(r) /\ Len(r) \in Nat /\ DOMAIN r = 1 .. Len(r)
  BY <1>2, SequenceDomain DEF Tells
<1>4. PICK K : Filtered(u, Len(r), S, r, K)
  BY <1>3, UnresolvedDef
<1>5. n \in Nat /\ DOMAIN batches = 1 .. n /\ (batches = <<>> <=> n = 0)
  <2> DEFINE Y == ToSet(batches)
  <2>1. batches \in Seq(Y)
    BY DEF Sequence
  <2> HIDE DEF Y
  <2> QED
    BY <2>1
<1> HIDE DEF n
<1>6. till \in Nat /\ from <= till /\ till <= end
  <2>1. CASE batches = <<>>
    BY <1>1, <2>1
  <2>2. CASE batches # <<>>
    <3>1. n \in DOMAIN batches /\ Last(batches) = batches[n]
      BY <1>5, <2>2 DEF Last, n
    <3>2. After(batches[n]) \in from + 1 .. end
      BY <3>1 DEF Following
    <3> QED
      BY <1>1, <2>2, <3>1, <3>2
  <2> QED
    BY <2>1, <2>2
<1>7. ASSUME NEW j \in 1 .. Len(u)
      PROVE  /\ K[j] \in DOMAIN r /\ u[j] = r[K[j]]
             /\ u[j].offset \in from .. till - 1
             /\ w[u[j].offset + 1] \in {Null, u[j].message}
  <2>1. K[j] \in 1 .. Len(r) /\ K[j] \in S /\ u[j] = r[K[j]]
    BY <1>4 DEF Filtered
  <2>2. K[j] \in DOMAIN r /\ r[K[j]].offset >= from
    BY <1>3, <2>1
  <2>3. /\ r[K[j]].offset \in Nat /\ w[r[K[j]].offset + 1] \in {Null, r[K[j]].message}
        /\ batches # <<>> /\ r[K[j]].offset < After(Last(batches))
    BY <1>2, <2>2 DEF Tells
  <2>4. till = After(Last(batches))
    BY <2>3
  <2> HIDE DEF till, r, u
  <2> QED
    BY <1>1, <1>6, <2>1, <2>2, <2>3, <2>4
<1> HIDE DEF u, S, r, till
<1>8. Len(d) \in Nat /\ DOMAIN d = 1 .. Len(d) /\ Sequence(d)
  BY SequenceDomain DEF Consumed
<1>9. Len(u) \in Nat /\ Sequence(u)
  BY <1>4, SequenceDomain DEF Filtered
<1>10. /\ Sequence(t) /\ Len(t) = Len(d) + Len(u)
       /\ \A i \in 1 .. Len(d) : t[i] = d[i]
       /\ \A i \in 1 .. Len(u) : t[Len(d) + i] = u[i]
  BY <1>8, <1>9, InTurn
<1> HIDE DEF t
<1>11. DOMAIN t = 1 .. Len(d) + Len(u)
  BY <1>10, SequenceDomain
<1>12. ASSUME NEW i \in DOMAIN t
       PROVE  \/ i \in 1 .. Len(d) /\ t[i] = d[i] /\ t[i].offset \in 0 .. from - 1
                 /\ w[t[i].offset + 1] \in {Null, t[i].message}
              \/ \E j \in 1 .. Len(u) : i = Len(d) + j /\ t[i] = u[j]
  <2>1. CASE i <= Len(d)
    <3>1. i \in 1 .. Len(d) /\ i \in DOMAIN d
      BY <1>8, <1>11, <2>1
    <3>2. d[i].offset \in 0 .. from - 1 /\ w[d[i].offset + 1] \in {Null, d[i].message}
      BY <3>1 DEF Consumed
    <3>3. t[i] = d[i]
      BY <1>10, <3>1
    <3> QED
      BY <3>1, <3>2, <3>3
  <2>2. CASE i > Len(d)
    <3>1. i - Len(d) \in 1 .. Len(u) /\ i = Len(d) + (i - Len(d))
      BY <1>8, <1>9, <1>11, <2>2
    <3> QED
      BY <1>10, <3>1
  <2> QED
    BY <1>8, <1>11, <2>1, <2>2
<1>13. ASSUME NEW i \in DOMAIN t
       PROVE  t[i].offset \in 0 .. till - 1 /\ w[t[i].offset + 1] \in {Null, t[i].message}
  <2>1. CASE i \in 1 .. Len(d) /\ t[i] = d[i] /\ t[i].offset \in 0 .. from - 1
             /\ w[t[i].offset + 1] \in {Null, t[i].message}
    BY <1>1, <1>6, <2>1
  <2>2. CASE \E j \in 1 .. Len(u) : i = Len(d) + j /\ t[i] = u[j]
    BY <1>1, <1>6, <1>7, <2>2
  <2> QED
    BY <1>12, <2>1, <2>2
<1>14. ASSUME NEW i \in DOMAIN t, NEW k \in DOMAIN t, i < k PROVE t[i].offset < t[k].offset
  <2>1. CASE k \in 1 .. Len(d)
    <3>1. i \in 1 .. Len(d)
      BY <1>8, <1>11, <1>14, <2>1
    <3>2. d[i].offset < d[k].offset
      BY <1>8, <1>14, <2>1, <3>1 DEF Consumed, Rising
    <3> QED
      BY <1>10, <2>1, <3>1, <3>2
  <2>2. CASE k \notin 1 .. Len(d)
    <3>1. PICK h \in 1 .. Len(u) : k = Len(d) + h /\ t[k] = u[h]
      BY <1>12, <2>2
    <3>2. CASE i \in 1 .. Len(d) /\ t[i].offset \in 0 .. from - 1
      <4>1. u[h].offset \in from .. till - 1
        BY <1>7
      <4> QED
        BY <1>1, <1>6, <3>1, <3>2, <4>1
    <3>3. CASE \E j \in 1 .. Len(u) : i = Len(d) + j /\ t[i] = u[j]
      <4>1. PICK j \in 1 .. Len(u) : i = Len(d) + j /\ t[i] = u[j]
        BY <3>3
      <4>2. j < h
        BY <1>8, <1>9, <1>14, <3>1, <4>1
      <4>3. K[j] < K[h]
        BY <1>4, <4>2 DEF Filtered
      <4>4. r[K[j]].offset < r[K[h]].offset
        BY <1>2, <1>7, <4>3 DEF Tells, Rising
      <4> QED
        BY <1>7, <3>1, <4>1, <4>4
    <3> QED
      BY <1>12, <3>2, <3>3
  <2> QED
    BY <2>1, <2>2
<1>15. ASSUME NEW o \in 0 .. till - 1, o \notin c
       PROVE  \E i \in DOMAIN t : t[i].offset = o
  <2>1. CASE o < from
    <3>1. o \in 0 .. from - 1
      BY <1>1, <1>6, <2>1
    <3>2. PICK i \in DOMAIN d : d[i].offset = o
      BY <1>15, <3>1 DEF Consumed, Done
    <3>3. i \in 1 .. Len(d) /\ i \in DOMAIN t
      BY <1>8, <1>9, <1>11, <3>2
    <3> QED
      BY <1>10, <3>2, <3>3
  <2>2. CASE from <= o
    <3>1. batches # <<>>
      BY <1>1, <1>6, <2>2 DEF till
    <3>2. till = After(batches[n]) /\ n \in DOMAIN batches
      BY <1>5, <3>1 DEF till, Last, n
    <3>3. o \in from .. After(batches[n]) - 1 /\ o \in Nat
      BY <1>1, <1>6, <2>2, <3>2
    <3>4. PICK k \in 1 .. n : InOffsets(batches[k], o)
      BY <1>15, <3>2, <3>3 DEF Following, Followed
    <3>5. PICK j \in DOMAIN r : r[j].offset = o
      BY <1>2, <1>5, <1>15, <3>3, <3>4 DEF Tells
    <3>6. j \in S /\ j \in 1 .. Len(r)
      BY <1>1, <1>3, <2>2, <3>3, <3>5 DEF S
    <3>7. PICK h \in 1 .. Len(u) : K[h] = j
      BY <1>4, <3>6 DEF Filtered
    <3>8. u[h] = r[j] /\ Len(d) + h \in DOMAIN t /\ t[Len(d) + h] = u[h]
      BY <1>7, <1>8, <1>9, <1>10, <1>11, <3>7
    <3> QED
      BY <3>5, <3>8
  <2> QED
    BY <1>1, <1>6, <2>1, <2>2
<1>16. Rising(t) /\ Done(t, c, till)
  BY <1>14, <1>15 DEF Rising, Done
<1>17. till \in 0 .. end
  BY <1>6
<1>18. Sequence(w)
  BY DEF Consumed
<1> QED
  BY <1>10, <1>13, <1>16, <1>17, <1>18 DEF Consumed, t, u, r, till

-----------------------------------------------------------------------------
(* The invariant, step by step.                                            *)

\* The lengths of what is sent and of the logs.
LEMMA InPart ==
    ASSUME PathInv, NEW p \in Partitions
    PROVE  /\ InLog(log[p], written[p], cleaned[p]) /\ EndOf(log[p]) \in Nat
           /\ Consumed(delivered[p], written[p], cleaned[p], position[p], EndOf(log[p]))
           /\ position[p] \in Nat /\ position[p] <= EndOf(log[p])
           /\ Sequence(written[p]) /\ Len(written[p]) \in Nat
           /\ EndOf(log[p]) <= Len(written[p])
           /\ Extends(written[p], written[p])
<1>1. /\ InLog(log[p], written[p], cleaned[p])
      /\ Consumed(delivered[p], written[p], cleaned[p], position[p], EndOf(log[p]))
  BY DEF PathInv
<1>2. EndOf(log[p]) \in Nat
  BY <1>1, LogEnds
<1>3. position[p] \in 0 .. EndOf(log[p]) /\ Sequence(written[p])
  BY <1>1 DEF Consumed
<1>4. Len(written[p]) \in Nat
  BY <1>3, SequenceDomain
<1>5. Len(written[p]) = EndOf(log[p]) \/ EndOf(log[p]) < Len(written[p])
  <2>1. CASE request = Null
    BY <2>1 DEF PathInv, RequestOK
  <2>2. CASE request # Null
    <3>1. CASE \E part \in ToSet(Produces(request)) : part.index = p
      <4>1. PICK part \in ToSet(Produces(request)) : part.index = p
        BY <3>1
      <4>2. Outstanding(part.bytes, log[p], written[p], cleaned[p])
        BY <2>2, <4>1 DEF PathInv, RequestOK
      <4> QED
        BY <4>2 DEF Outstanding, Batched
    <3>2. CASE \A part \in ToSet(Produces(request)) : part.index # p
      BY <2>2, <3>2 DEF PathInv, RequestOK
    <3> QED
      BY <3>1, <3>2
  <2> QED
    BY <2>1, <2>2
<1>6. EndOf(log[p]) <= Len(written[p])
  BY <1>2, <1>4, <1>5
<1>7. Extends(written[p], written[p])
  BY <1>4 DEF Extends
<1> QED
  BY <1>1, <1>2, <1>3, <1>4, <1>6, <1>7

\* What the assumption on the constants says of the scenario.
LEMMA Limits ==
    ASSUME PathTyped
    PROVE  /\ scenario \in Scenarios /\ scenario.partitionMaxBytes \in Nat
           /\ scenario.cleanings \in Nat
           /\ scenario.sends \in Seq(Seq(Message) \ {<<>>})
           /\ scenario.foreign \in Seq([partition : Partitions, attributes : Int])
<1>1. scenario \in Scenarios
  BY DEF PathTyped
<1> QED
  BY <1>1, ScenarioAssumption DEF Partitions

\* The partitions are numbered from 0.
LEMMA PartitionsAre == /\ NumPartitions \in Nat /\ Partitions = 0 .. NumPartitions - 1
                       /\ \A p \in Partitions : p \in Nat /\ Fits(p, 4)
<1>1. NumPartitions \in Nat \ {0} /\ \A p \in 0 .. NumPartitions - 1 : Fits(p, 4)
  BY ScenarioAssumption
<1> QED
  BY <1>1 DEF Partitions

\* The invariant holds at first.
LEMMA PathInit == Init => PathInv
<1> SUFFICES ASSUME Init PROVE PathInv
  OBVIOUS
<1> USE DEF Init
<1>1. PathTyped
  <2>1. /\ scenario.cleanings \in Nat
        /\ scenario.sends \in Seq(Seq(Message) \ {<<>>})
        /\ scenario.foreign \in Seq([partition : 0..NumPartitions - 1, attributes : Int])
    BY ScenarioAssumption
  <2>2. Len(scenario.sends) \in Nat /\ Len(scenario.foreign) \in Nat
    BY <2>1
  <2>3. sent \in 0 .. Len(scenario.sends) /\ foreign \in 0 .. Len(scenario.foreign)
    BY <2>2
  <2>4. cleanings \in 0 .. scenario.cleanings
    BY <2>1
  <2>5. log = [p \in Partitions |-> log[p]] /\ cleaned = [p \in Partitions |-> cleaned[p]]
        /\ written = [p \in Partitions |-> written[p]]
    OBVIOUS
  <2>6. sequences \in [Partitions -> Nat] /\ counter \in Nat
    OBVIOUS
  <2>7. fetcher = IF response = Null THEN "fetching" ELSE "processing"
    OBVIOUS
  <2> QED
    BY <2>3, <2>4, <2>5, <2>6, <2>7 DEF PathTyped
<1>2. ASSUME NEW p \in Partitions
      PROVE  /\ log[p] = <<>> /\ written[p] = <<>> /\ cleaned[p] = {} /\ delivered[p] = <<>>
             /\ position[p] = 0
  OBVIOUS
<1>3. EndOf(<<>>) = 0
  BY DEF EndOf
<1> DEFINE none == <<>>
<1>4. Len(none) = 0 /\ Sequence(none) /\ DOMAIN none = {}
  <2>1. none \in Seq({})
    OBVIOUS
  <2>2. Sequence(none)
    BY <2>1, IsSequence
  <2> QED
    BY <2>2
<1>5. InLog(none, none, {})
  <2>1. none \in Seq([first : Nat, next : Nat, bytes : Seq(Byte)])
    OBVIOUS
  <2> HIDE DEF none
  <2>2. EndOf(none) = 0
    BY <1>3 DEF none
  <2>3. Ordered(none) /\ Covered(none, {})
    <3>1. 0 .. EndOf(none) - 1 = {}
      BY <2>2
    <3> QED
      BY <1>4, <3>1 DEF Ordered, Covered
  <2> QED
    BY <1>4, <2>1, <2>3 DEF InLog
<1>6. Consumed(none, none, {}, 0, 0)
  <2>1. Rising(none) /\ Done(none, {}, 0)
    <3>1. 0 .. 0 - 1 = {}
      OBVIOUS
    <3> HIDE DEF none
    <3> QED
      BY <1>4, <3>1 DEF Rising, Done
  <2>2. 0 \in 0 .. 0
    OBVIOUS
  <2> HIDE DEF none
  <2> QED
    BY <1>4, <2>1, <2>2 DEF Consumed
<1>7. \A p \in Partitions : Len(written[p]) = EndOf(log[p])
  BY <1>2, <1>3, <1>4
<1>8. RequestOK /\ ResponseOK
  BY <1>7 DEF RequestOK, ResponseOK
<1>9. ASSUME NEW p \in Partitions
      PROVE  /\ InLog(log[p], written[p], cleaned[p])
             /\ Consumed(delivered[p], written[p], cleaned[p], position[p], EndOf(log[p]))
  BY <1>2, <1>3, <1>5, <1>6
<1> QED
  BY <1>1, <1>8, <1>9 DEF PathInv

\* A fetch keeps the invariant: its response has what follows each position.
LEMMA FetchKeeps ==
    ASSUME PathInv, Fetch
    PROVE  PathInv'
<1>1. /\ UNCHANGED <<scenario, sent, counter, sequences, request, written, position, delivered>>
      /\ UNCHANGED <<log, cleaned, foreign, cleanings>>
      /\ response' = ResponseBytes /\ fetcher' = "processing"
  BY DEF Fetch, FetchResolves, producerVars, historyVars, consumerVars, externalVars
<1> DEFINE n == NumPartitions
           es == [i \in 1 .. n |-> End(i - 1)]
           Fs == [i \in 1 .. n |-> FetchedBytes(i - 1)]
           parts == FetchResponse(ResponseOf(n, es, Fs))[1].partitions
<1>2. n \in Nat /\ \A i \in 1 .. n : i - 1 \in Partitions
  BY PartitionsAre
<1>3. ASSUME NEW p \in Partitions
      PROVE  /\ FetchedBytes(p) \in Seq(Byte) /\ End(p) \in Int
             /\ Fetched(DecodedRecordBatch(FetchedBytes(p)), written[p], cleaned[p], position[p], EndOf(log[p]))
  <2>1. InLog(log[p], written[p], cleaned[p]) /\ position[p] \in Nat /\ EndOf(log[p]) \in Nat
    BY InPart
  <2>2. scenario.partitionMaxBytes \in Nat
    BY Limits DEF PathInv
  <2>3. End(p) = EndOf(log[p])
    BY DEF End, EndOf
  <2>4. /\ FetchedBytes(p) \in Seq(Byte)
        /\ Fetched(DecodedRecordBatch(FetchedBytes(p)), written[p], cleaned[p], position[p], EndOf(log[p]))
    BY <2>1, <2>2, FetchedBytesRead
  <2>5. End(p) \in Int
    BY <2>1, <2>3
  <2> QED
    BY <2>4, <2>5
<1>4. ASSUME NEW i \in 1 .. n PROVE Fits(i - 1, 4) /\ es[i] \in Int /\ Fs[i] \in Seq(Byte)
  <2>1. i - 1 \in Partitions
    BY <1>2
  <2>2. es[i] = End(i - 1) /\ Fs[i] = FetchedBytes(i - 1)
    OBVIOUS
  <2> HIDE DEF es, Fs
  <2> QED
    BY <1>3, <2>1, <2>2, PartitionsAre
<1>5. response' = ResponseOf(n, es, Fs)
  BY <1>1, ResponseBytesDef
<1>6. ASSUME NEW p \in Partitions PROVE Fs[p + 1] = FetchedBytes(p) /\ p \in 0 .. n - 1
  <2>1. p \in 0 .. n - 1 /\ p + 1 \in 1 .. n /\ (p + 1) - 1 = p
    BY PartitionsAre
  <2> QED
    BY <2>1
<1> HIDE DEF es, Fs, n
<1>7. Answers(n, es, Fs)
  BY <1>2, <1>4 DEF Answers
<1>8. ResponseOf(n, es, Fs) \in Seq(Byte) /\ PartsRead(parts, n, Fs)
  BY <1>7, ResponseIsReadAsWritten
<1>9. response' \in Seq(Byte) /\ PartsRead(parts, n, Fs) /\ Answer' = parts
  BY <1>5, <1>8 DEF Answer
<1> HIDE DEF parts
<1>10. ASSUME NEW p \in Partitions
       PROVE  /\ \E part \in ToSet(Answer') : part.partitionIndex = p
              /\ Fetched(Batches(p, Answer'), written[p], cleaned[p], position[p], EndOf(log[p]))
  <2>1. /\ \E part \in ToSet(parts) : part.partitionIndex = p
        /\ Batches(p, parts) = DecodedRecordBatch(Fs[p + 1])
    BY <1>2, <1>6, <1>9, BatchesOfPart
  <2> QED
    BY <1>3, <1>6, <1>9, <2>1
<1>11. ResponseOK'
  BY <1>1, <1>9, <1>10 DEF ResponseOK
<1>12. PathTyped'
  <2>1. response' # Null
    BY <1>9, NullIsNoText
  <2>2. fetcher' = IF response' = Null THEN "fetching" ELSE "processing"
    BY <1>1, <2>1
  <2>3. PathTyped
    BY DEF PathInv
  <2> QED
    BY <1>1, <2>2, <2>3 DEF PathTyped
<1>13. RequestOK'
  <2>1. RequestOK
    BY DEF PathInv
  <2> QED
    BY <1>1, <2>1 DEF RequestOK
<1>14. \A p \in Partitions :
           /\ InLog(log[p], written[p], cleaned[p])'
           /\ Consumed(delivered[p], written[p], cleaned[p], position[p], EndOf(log[p]))'
  BY <1>1, InPart
<1> QED
  BY <1>11, <1>12, <1>13, <1>14 DEF PathInv

\* What the decoder does not throw for is supported.
LEMMA AllSupported ==
    ASSUME NEW parts, ~Unsupported(parts), NEW p, \E part \in ToSet(parts) : part.partitionIndex = p
    PROVE  \A i \in DOMAIN Batches(p, parts) : Batches(p, parts)[i].supported
<1> DEFINE chosen == CHOOSE part \in ToSet(parts) : part.partitionIndex = p
<1>1. chosen \in ToSet(parts)
  OBVIOUS
<1>2. Batches(p, parts) = chosen.records
  BY DEF Batches
<1> HIDE DEF chosen
<1>3. \A i \in DOMAIN chosen.records : chosen.records[i] \in ToSet(chosen.records)
  BY DEF ToSet
<1> QED
  BY <1>1, <1>2, <1>3 DEF Unsupported

\* process() keeps the invariant: what it moves past is delivered or cleaned.
LEMMA ProcessKeeps ==
    ASSUME PathInv, Process
    PROVE  PathInv'
<1>1. /\ UNCHANGED <<scenario, sent, counter, sequences, request, written>>
      /\ UNCHANGED <<log, cleaned, foreign, cleanings>>
      /\ response' = Null /\ fetcher' = "fetching" /\ fetcher = "processing"
      /\ Settled(Answer)
  BY DEF Process, ProcessSettles, producerVars, historyVars, externalVars, Answer
<1>2. PathTyped /\ RequestOK /\ ResponseOK
  BY DEF PathInv
<1>3. response # Null
  BY <1>1, <1>2 DEF PathTyped
<1>4. PathTyped' /\ ResponseOK'
  BY <1>1, <1>2 DEF PathTyped, ResponseOK
<1>5. RequestOK'
  BY <1>1, <1>2 DEF RequestOK
<1>6. ASSUME NEW p \in Partitions
      PROVE  Consumed(delivered'[p], written[p], cleaned[p], position'[p], EndOf(log[p]))
  <2>1. /\ Consumed(delivered[p], written[p], cleaned[p], position[p], EndOf(log[p]))
        /\ EndOf(log[p]) \in Nat
    BY InPart
  <2>2. CASE Rejected(Answer) \/ NoMessages(Answer)
    BY <2>1, <2>2 DEF Rejected, NoMessages, consumerVars
  <2>3. CASE Handled(Answer)
    <3> DEFINE batches == Batches(p, Answer)
    <3>1. /\ ~Unsupported(Answer)
          /\ delivered'[p] = delivered[p] \o Unresolved(Messages(batches), position[p])
          /\ position'[p] = IF batches = <<>> THEN position[p] ELSE Resolved(batches)
      BY <2>3 DEF Handled
    <3>2. /\ \E part \in ToSet(Answer) : part.partitionIndex = p
          /\ Fetched(batches, written[p], cleaned[p], position[p], EndOf(log[p]))
      BY <1>2, <1>3 DEF ResponseOK
    <3>3. \A i \in DOMAIN batches : batches[i].supported
      BY <3>1, <3>2, AllSupported
    <3> HIDE DEF batches
    <3>4. Sequence(batches) /\ Following(batches, written[p], cleaned[p], position[p], EndOf(log[p]))
      BY <3>2, <3>3 DEF Fetched
    <3>5. Consumed(delivered[p] \o Unresolved(Messages(batches), position[p]), written[p], cleaned[p],
                   IF batches = <<>> THEN position[p] ELSE After(Last(batches)), EndOf(log[p]))
      BY <2>1, <3>3, <3>4, ConsumedMore
    <3>6. Resolved(batches) = After(Last(batches))
      BY DEF Resolved, After
    <3> QED
      BY <3>1, <3>5, <3>6
  <2> QED
    BY <1>1, <2>2, <2>3 DEF Settled
<1>7. \A p \in Partitions :
          /\ InLog(log[p], written[p], cleaned[p])'
          /\ Consumed(delivered[p], written[p], cleaned[p], position[p], EndOf(log[p]))'
  BY <1>1, <1>6, InPart
<1> QED
  BY <1>4, <1>5, <1>7 DEF PathInv

-----------------------------------------------------------------------------
(* The cleaner, the other producers and the broker: what a change of one   *)
(* log leaves.                                                             *)

\* Of one partition: what is sent stays or grows, and so do the log and what is
\* cleaned of it.
Grown(l, w, c, k, v, e) ==
    /\ Extends(w, v) /\ Sequence(v) /\ c \subseteq e
    /\ InLog(k, v, e) /\ EndOf(l) <= EndOf(k)

\* A log that grew keeps what was consumed of it, and any response.
LEMMA GrownKeeps ==
    ASSUME NEW d, NEW l, NEW w, NEW c, NEW from, InLog(l, w, c), EndOf(l) <= Len(w),
           Consumed(d, w, c, from, EndOf(l)), NEW k, NEW v, NEW e, Grown(l, w, c, k, v, e)
    PROVE  /\ Consumed(d, v, e, from, EndOf(k))
           /\ \A batches : Fetched(batches, w, c, from, EndOf(l)) =>
                  Fetched(batches, v, e, from, EndOf(k))
<1>1. EndOf(l) \in Nat /\ EndOf(k) \in Nat
  BY LogEnds DEF Grown
<1>2. Extends(w, v) /\ Sequence(v) /\ c \subseteq e /\ EndOf(l) <= EndOf(k)
  BY DEF Grown
<1>3. from \in Nat
  BY <1>1 DEF Consumed
<1>4. Consumed(d, v, e, from, EndOf(k))
  BY <1>1, <1>2, ConsumedLater
<1>5. ASSUME NEW batches, Fetched(batches, w, c, from, EndOf(l))
      PROVE  Fetched(batches, v, e, from, EndOf(k))
  BY <1>1, <1>2, <1>3, <1>5, FetchedLater
<1> QED
  BY <1>4, <1>5

\* The consumer's part of the invariant, when all partitions are.
LEMMA AllGrown ==
    ASSUME PathInv, UNCHANGED <<response, position, delivered>>,
           \A p \in Partitions :
               Grown(log[p], written[p], cleaned[p], log'[p], written'[p], cleaned'[p])
    PROVE  /\ ResponseOK'
           /\ \A p \in Partitions :
                  /\ InLog(log[p], written[p], cleaned[p])'
                  /\ Consumed(delivered[p], written[p], cleaned[p], position[p], EndOf(log[p]))'
<1>1. ASSUME NEW p \in Partitions
      PROVE  /\ InLog(log'[p], written'[p], cleaned'[p])
             /\ Consumed(delivered[p], written'[p], cleaned'[p], position[p], EndOf(log'[p]))
             /\ \A batches : Fetched(batches, written[p], cleaned[p], position[p], EndOf(log[p])) =>
                    Fetched(batches, written'[p], cleaned'[p], position[p], EndOf(log'[p]))
  <2>1. /\ InLog(log[p], written[p], cleaned[p])
        /\ Consumed(delivered[p], written[p], cleaned[p], position[p], EndOf(log[p]))
        /\ EndOf(log[p]) <= Len(written[p])
    BY InPart
  <2>2. Grown(log[p], written[p], cleaned[p], log'[p], written'[p], cleaned'[p])
    OBVIOUS
  <2>3. InLog(log'[p], written'[p], cleaned'[p])
    BY <2>2 DEF Grown
  <2> QED
    BY <2>1, <2>2, <2>3, GrownKeeps
<1>2. ResponseOK
  BY DEF PathInv
<1>3. ResponseOK'
  <2> SUFFICES ASSUME response # Null
               PROVE  /\ response \in Seq(Byte)
                      /\ \A p \in Partitions :
                             /\ \E part \in ToSet(Answer) : part.partitionIndex = p
                             /\ Fetched(Batches(p, Answer), written'[p], cleaned'[p], position[p], EndOf(log'[p]))
    BY DEF ResponseOK, Answer
  <2>1. response \in Seq(Byte)
    BY <1>2 DEF ResponseOK
  <2>2. ASSUME NEW p \in Partitions
        PROVE  /\ \E part \in ToSet(Answer) : part.partitionIndex = p
               /\ Fetched(Batches(p, Answer), written'[p], cleaned'[p], position[p], EndOf(log'[p]))
    BY <1>1, <1>2 DEF ResponseOK
  <2> QED
    BY <2>1, <2>2
<1> QED
  BY <1>1, <1>3

\* What the cleaner does to a log.
Cleared(l, w, c, k, e) == InLog(k, w, e) /\ EndOf(k) = EndOf(l) /\ c \subseteq e

\* A step of the cleaner that leaves each log in order keeps the invariant.
LEMMA ClearedKeeps ==
    ASSUME PathInv,
           UNCHANGED <<scenario, sent, counter, sequences, request, fetcher, response>>,
           UNCHANGED <<written, position, delivered, foreign>>,
           cleanings' \in 0 .. scenario.cleanings,
           log' = [p \in Partitions |-> log'[p]], cleaned' = [p \in Partitions |-> cleaned'[p]],
           \A p \in Partitions : Cleared(log[p], written[p], cleaned[p], log'[p], cleaned'[p])
    PROVE  PathInv'
<1>1. PathTyped /\ RequestOK
  BY DEF PathInv
<1>2. PathTyped'
  BY <1>1 DEF PathTyped
<1>3. ASSUME NEW p \in Partitions
      PROVE  Grown(log[p], written[p], cleaned[p], log'[p], written'[p], cleaned'[p])
  <2>1. Sequence(written[p]) /\ Extends(written[p], written[p]) /\ EndOf(log[p]) \in Nat
    BY InPart
  <2>2. InLog(log'[p], written[p], cleaned'[p]) /\ EndOf(log'[p]) = EndOf(log[p]) /\ cleaned[p] \subseteq cleaned'[p]
    BY DEF Cleared
  <2> QED
    BY <2>1, <2>2 DEF Grown
<1>4. /\ ResponseOK'
      /\ \A p \in Partitions :
             /\ InLog(log[p], written[p], cleaned[p])'
             /\ Consumed(delivered[p], written[p], cleaned[p], position[p], EndOf(log[p]))'
  BY <1>3, AllGrown
<1>5. ASSUME NEW p \in Partitions, NEW bytes, Outstanding(bytes, log[p], written[p], cleaned[p])
      PROVE  Outstanding(bytes, log'[p], written[p], cleaned'[p])
  <2>1. Extends(written[p], written[p]) /\ Len(written[p]) \in Nat
    BY InPart
  <2>2. EndOf(log'[p]) = EndOf(log[p]) /\ cleaned[p] \subseteq cleaned'[p]
    BY DEF Cleared
  <2> DEFINE x == EndOf(log[p])
             h == Len(written[p])
             content == ContentAt(x, bytes)
  <2>3. Fits(x, 8) /\ Batched(written[p], cleaned[p], bytes, content, x, h)
    BY <1>5 DEF Outstanding
  <2> HIDE DEF content, x
  <2>4. h <= Len(written[p])
    BY <2>1
  <2>5. Batched(written[p], cleaned'[p], bytes, content, x, h)
    BY <2>1, <2>2, <2>3, <2>4, BatchedLater
  <2> QED
    BY <2>2, <2>3, <2>5 DEF Outstanding, content, x
<1>6. RequestOK'
  <2>1. CASE request = Null
    <3>1. \A p \in Partitions : EndOf(log'[p]) = EndOf(log[p])
      BY DEF Cleared
    <3> QED
      BY <1>1, <2>1, <3>1 DEF RequestOK
  <2>2. CASE request # Null
    <3>1. \A p \in Partitions : EndOf(log'[p]) = EndOf(log[p])
      BY DEF Cleared
    <3>2. /\ request \in Seq(Byte)
          /\ \A part \in ToSet(Produces(request)) :
                 /\ part.index \in Partitions
                 /\ Outstanding(part.bytes, log[part.index], written[part.index], cleaned[part.index])
          /\ \A p \in Partitions :
                 (\A part \in ToSet(Produces(request)) : part.index # p) => Len(written[p]) = EndOf(log[p])
      BY <1>1, <2>2 DEF RequestOK
    <3>3. \A part \in ToSet(Produces(request)) :
              /\ part.index \in Partitions
              /\ Outstanding(part.bytes, log'[part.index], written[part.index], cleaned'[part.index])
      BY <1>5, <3>2
    <3> QED
      BY <2>2, <3>1, <3>2, <3>3 DEF RequestOK
  <2> QED
    BY <2>1, <2>2
<1> QED
  BY <1>2, <1>4, <1>6 DEF PathInv

\* What CleanedEntry() does, whatever becomes of the log.
LEMMA CleanedEntryDoes ==
    ASSUME PathInv, NEW p \in Partitions, NEW i \in DOMAIN log[p], CleanedEntry(p, i)
    PROVE  /\ UNCHANGED <<scenario, sent, counter, sequences, request, fetcher, response>>
           /\ UNCHANGED <<written, position, delivered, foreign>>
           /\ cleanings' \in 0 .. scenario.cleanings
           /\ cleaned' = [q \in Partitions |-> cleaned'[q]]
           /\ cleaned'[p] = cleaned[p] \cup (log[p][i].first .. log[p][i].next - 1)
           /\ \A q \in Partitions : q # p => cleaned'[q] = cleaned[q]
           /\ \A q \in Partitions : Cleared(log[q], written[q], cleaned[q], log[q], cleaned[q])
<1>1. /\ cleanings > 0 /\ cleanings' = cleanings - 1
      /\ cleaned' = [cleaned EXCEPT ![p] = @ \cup (log[p][i].first .. log[p][i].next - 1)]
      /\ UNCHANGED <<scenario, sent, counter, sequences, request, fetcher, response>>
      /\ UNCHANGED <<written, position, delivered, foreign>>
  BY DEF CleanedEntry, producerVars, fetchVars, historyVars, consumerVars
<1>2. PathTyped
  BY DEF PathInv
<1>3. cleaned = [q \in Partitions |-> cleaned[q]] /\ cleanings \in 0 .. scenario.cleanings
  BY <1>2 DEF PathTyped
<1>4. scenario.cleanings \in Nat
  BY <1>2, Limits
<1>5. cleanings' \in 0 .. scenario.cleanings
  BY <1>1, <1>3, <1>4
<1>6. \A q \in Partitions : Cleared(log[q], written[q], cleaned[q], log[q], cleaned[q])
  BY InPart DEF Cleared
<1>7. /\ cleaned' = [q \in Partitions |-> cleaned'[q]]
      /\ cleaned'[p] = cleaned[p] \cup (log[p][i].first .. log[p][i].next - 1)
      /\ \A q \in Partitions : q # p => cleaned'[q] = cleaned[q]
  <2> DEFINE x == cleaned[p] \cup (log[p][i].first .. log[p][i].next - 1)
  <2>1. cleaned' = [q \in Partitions |-> IF q = p THEN x ELSE cleaned[q]]
    BY <1>1, <1>3
  <2> HIDE DEF x
  <2>2. \A q \in Partitions : cleaned'[q] = IF q = p THEN x ELSE cleaned[q]
    BY <2>1
  <2>3. cleaned' = [q \in Partitions |-> cleaned'[q]]
    BY <2>1, <2>2
  <2> QED
    BY <2>2, <2>3 DEF x
<1> QED
  BY <1>1, <1>5, <1>6, <1>7

\* The cleaner keeps the invariant when it empties a batch.
LEMMA TakeRecordsKeeps ==
    ASSUME PathInv, NEW p \in Partitions, NEW i \in DOMAIN log[p], TakeRecords(p, i)
    PROVE  PathInv'
<1> DEFINE l == log[p]
           first == l[i].first
           next == l[i].next
           e == cleaned[p] \cup (first .. next - 1)
           w == written[p]
           batch == WithHeader([baseOffset |-> first, records |-> <<>>], l[i].bytes)
           bytes == EncodedBatch(batch)
<1>1. CleanedEntry(p, i) /\ Writable(batch) /\ log' = [log EXCEPT ![p][i].bytes = bytes]
  BY DEF TakeRecords
<1>2. /\ UNCHANGED <<scenario, sent, counter, sequences, request, fetcher, response>>
      /\ UNCHANGED <<written, position, delivered, foreign>>
      /\ cleanings' \in 0 .. scenario.cleanings
      /\ cleaned' = [q \in Partitions |-> cleaned'[q]]
      /\ cleaned'[p] = e
      /\ \A q \in Partitions : q # p => cleaned'[q] = cleaned[q]
      /\ \A q \in Partitions : Cleared(log[q], written[q], cleaned[q], log[q], cleaned[q])
  BY <1>1, CleanedEntryDoes
<1>3. InLog(l, w, cleaned[p]) /\ EndOf(l) <= Len(w) /\ Extends(w, w)
  BY InPart
<1>4. Batched(w, cleaned[p], l[i].bytes, Content(l[i].bytes), first, next)
  BY <1>3 DEF InLog
<1>5. log = [q \in Partitions |-> log[q]]
  BY DEF PathInv, PathTyped
<1>6. /\ log' = [q \in Partitions |-> log'[q]]
      /\ log'[p] = [l EXCEPT ![i].bytes = bytes]
      /\ \A q \in Partitions : q # p => log'[q] = log[q]
  <2> DEFINE x == [l EXCEPT ![i].bytes = bytes]
  <2> HIDE DEF bytes
  <2>1. log' = [q \in Partitions |-> IF q = p THEN x ELSE log[q]]
    BY <1>1, <1>5
  <2> HIDE DEF x
  <2>2. \A q \in Partitions : log'[q] = IF q = p THEN x ELSE log[q]
    BY <2>1
  <2>3. log' = [q \in Partitions |-> log'[q]]
    BY <2>1, <2>2
  <2> QED
    BY <2>2, <2>3 DEF x
<1>7. Batched(w, e, bytes, Content(bytes), first, next)
  <2>1. /\ Framed(l[i].bytes) /\ first \in Nat /\ next \in Nat /\ first < next
        /\ BatchHeader(l[i].bytes).lastOffsetDelta = next - first - 1
    BY <1>4 DEF Batched
  <2>2. first .. next - 1 \subseteq e
    OBVIOUS
  <2> HIDE DEF first, next, e
  <2>3. batch = WithHeader([baseOffset |-> first, records |-> <<>>], l[i].bytes)
    OBVIOUS
  <2> HIDE DEF batch
  <2> QED
    BY <1>1, <2>1, <2>2, <2>3, EmptiedHolds
<1> HIDE DEF bytes
<1>8. InLog([l EXCEPT ![i].bytes = bytes], w, e) /\ EndOf([l EXCEPT ![i].bytes = bytes]) = EndOf(l)
  BY <1>3, <1>7, LogEmptied
<1>9. ASSUME NEW q \in Partitions
      PROVE  Cleared(log[q], written[q], cleaned[q], log'[q], cleaned'[q])
  <2>1. CASE q = p
    BY <1>2, <1>6, <1>8, <2>1 DEF Cleared
  <2>2. CASE q # p
    BY <1>2, <1>6, <2>2
  <2> QED
    BY <2>1, <2>2
<1> HIDE DEF l, e
<1> QED
  BY <1>2, <1>6, <1>9, ClearedKeeps

\* The cleaner keeps the invariant when it removes a batch.
LEMMA TakeBatchKeeps ==
    ASSUME PathInv, NEW p \in Partitions, NEW i \in DOMAIN log[p], TakeBatch(p, i)
    PROVE  PathInv'
<1> DEFINE l == log[p]
           e == cleaned[p] \cup (l[i].first .. l[i].next - 1)
           w == written[p]
<1>1. CleanedEntry(p, i) /\ i < Len(l) /\ log' = [log EXCEPT ![p] = RemoveAt(@, i)]
  BY DEF TakeBatch
<1>2. /\ UNCHANGED <<scenario, sent, counter, sequences, request, fetcher, response>>
      /\ UNCHANGED <<written, position, delivered, foreign>>
      /\ cleanings' \in 0 .. scenario.cleanings
      /\ cleaned' = [q \in Partitions |-> cleaned'[q]]
      /\ cleaned'[p] = e
      /\ \A q \in Partitions : q # p => cleaned'[q] = cleaned[q]
      /\ \A q \in Partitions : Cleared(log[q], written[q], cleaned[q], log[q], cleaned[q])
  BY <1>1, CleanedEntryDoes
<1>3. InLog(l, w, cleaned[p]) /\ EndOf(l) <= Len(w) /\ Extends(w, w)
  BY InPart
<1>5. log = [q \in Partitions |-> log[q]]
  BY DEF PathInv, PathTyped
<1>6. /\ log' = [q \in Partitions |-> log'[q]]
      /\ log'[p] = RemoveAt(l, i)
      /\ \A q \in Partitions : q # p => log'[q] = log[q]
  <2> DEFINE x == RemoveAt(l, i)
  <2>1. log' = [q \in Partitions |-> IF q = p THEN x ELSE log[q]]
    BY <1>1, <1>5
  <2> HIDE DEF x
  <2>2. \A q \in Partitions : log'[q] = IF q = p THEN x ELSE log[q]
    BY <2>1
  <2>3. log' = [q \in Partitions |-> log'[q]]
    BY <2>1, <2>2
  <2> QED
    BY <2>2, <2>3 DEF x
<1>8. InLog(RemoveAt(l, i), w, e) /\ EndOf(RemoveAt(l, i)) = EndOf(l)
  BY <1>1, <1>3, LogRemoved
<1>9. ASSUME NEW q \in Partitions
      PROVE  Cleared(log[q], written[q], cleaned[q], log'[q], cleaned'[q])
  <2>1. CASE q = p
    BY <1>2, <1>6, <1>8, <2>1 DEF Cleared
  <2>2. CASE q # p
    BY <1>2, <1>6, <2>2
  <2> QED
    BY <2>1, <2>2
<1> HIDE DEF l, e
<1> QED
  BY <1>2, <1>6, <1>9, ClearedKeeps

\* The broker appends what was sent.
LEMMA ProducedKeeps ==
    ASSUME PathInv, Produced
    PROVE  PathInv'
<1> DEFINE parts == Produces(request)
           bytes(p) == (CHOOSE part \in ToSet(parts) : part.index = p).bytes
           to == {parts[i].index : i \in DOMAIN parts}
           h(p) == BatchHeader(bytes(p)).lastOffsetDelta
<1>1. /\ request # Null /\ request' = Null
      /\ UNCHANGED <<scenario, sent, counter, fetcher, response, written, position, delivered>>
      /\ UNCHANGED <<cleaned, foreign, cleanings>>
      /\ Appended(parts)
  BY DEF Produced, Answered, fetchVars, historyVars, consumerVars
<1>2. /\ log' = [p \in Partitions |->
                    IF p \in to THEN Append(log[p], Entry(End(p), bytes(p))) ELSE log[p]]
      /\ sequences' = [p \in Partitions |->
                    IF p \in to THEN sequences[p] + h(p) + 1 ELSE sequences[p]]
  BY <1>1 DEF Appended
<1>3. PathTyped /\ RequestOK
  BY DEF PathInv
<1>4. to = {part.index : part \in ToSet(parts)}
  BY DEF ToSet
<1> HIDE DEF to
<1>5. ASSUME NEW p \in Partitions, p \in to
      PROVE  /\ Outstanding(bytes(p), log[p], written[p], cleaned[p])
  <2> DEFINE part == CHOOSE part \in ToSet(parts) : part.index = p
  <2>1. \E x \in ToSet(parts) : x.index = p
    BY <1>4, <1>5
  <2>2. part \in ToSet(parts) /\ part.index = p
    BY <2>1
  <2>3. bytes(p) = part.bytes
    OBVIOUS
  <2> HIDE DEF part, bytes
  <2> QED
    BY <1>1, <1>3, <2>2, <2>3 DEF RequestOK
<1>6. ASSUME NEW p \in Partitions, p \notin to
      PROVE  Len(written[p]) = EndOf(log[p])
  <2>1. \A part \in ToSet(parts) : part.index # p
    BY <1>4, <1>6
  <2> QED
    BY <1>1, <1>3, <2>1 DEF RequestOK
<1> HIDE DEF parts, bytes
<1>7. ASSUME NEW p \in Partitions
      PROVE  /\ InLog(log'[p], written[p], cleaned[p]) /\ EndOf(log'[p]) = Len(written[p])
             /\ sequences'[p] \in Nat
  <2>1. InLog(log[p], written[p], cleaned[p]) /\ sequences[p] \in Nat
    BY <1>3, InPart DEF PathTyped
  <2>2. CASE p \in to
    <3> DEFINE l == log[p]
               b == bytes(p)
               k == Append(l, Entry(EndOf(l), b))
               next == Len(written[p])
               w == written[p]
               c == cleaned[p]
    <3>1. /\ Fits(EndOf(l), 8)
          /\ Batched(w, c, b, ContentAt(EndOf(l), b), EndOf(l), next)
      BY <1>5, <2>2 DEF Outstanding
    <3>2. End(p) = EndOf(l)
      BY DEF End, EndOf
    <3>3. log'[p] = k /\ sequences'[p] = sequences[p] + BatchHeader(b).lastOffsetDelta + 1
      <4>1. log'[p] = Append(log[p], Entry(End(p), bytes(p))) /\ sequences'[p] = sequences[p] + h(p) + 1
        BY <1>2, <2>2
      <4> QED
        BY <3>2, <4>1
    <3> HIDE DEF next, w, c, b, l
    <3>4. InLog(k, w, c) /\ EndOf(k) = next /\ BatchHeader(b).lastOffsetDelta + 1 \in Nat
      <4>1. InLog(l, w, c)
        BY <2>1 DEF l, w, c
      <4> QED
        BY <3>1, <4>1, EntryAppended
    <3>5. sequences'[p] \in Nat
      <4> DEFINE x == BatchHeader(b).lastOffsetDelta
                 s == sequences[p]
      <4>0. s \in Nat /\ x + 1 \in Nat /\ sequences'[p] = s + x + 1
        BY <2>1, <3>3, <3>4
      <4>1. x \in Int
        BY <3>1 DEF Batched
      <4> HIDE DEF x, s
      <4>2. s + x + 1 \in Nat
        BY <4>0, <4>1
      <4> QED
        BY <4>0, <4>2
    <3> QED
      BY <3>3, <3>4, <3>5 DEF w, c, next
  <2>3. CASE p \notin to
    <3>1. log'[p] = log[p] /\ sequences'[p] = sequences[p]
      BY <1>2, <2>3
    <3> QED
      BY <1>6, <2>1, <2>3, <3>1
  <2> QED
    BY <2>2, <2>3
<1>8. ASSUME NEW p \in Partitions
      PROVE  Grown(log[p], written[p], cleaned[p], log'[p], written'[p], cleaned'[p])
  <2>1. Sequence(written[p]) /\ Extends(written[p], written[p]) /\ EndOf(log[p]) <= Len(written[p])
    BY InPart
  <2> QED
    BY <1>1, <1>7, <2>1 DEF Grown
<1>9. /\ ResponseOK'
      /\ \A p \in Partitions :
             /\ InLog(log[p], written[p], cleaned[p])'
             /\ Consumed(delivered[p], written[p], cleaned[p], position[p], EndOf(log[p]))'
  BY <1>1, <1>8, AllGrown
<1>10. RequestOK'
  BY <1>1, <1>7 DEF RequestOK
<1>11. log' = [p \in Partitions |-> log'[p]] /\ sequences' \in [Partitions -> Nat]
  <2> DEFINE x(p) == IF p \in to THEN Append(log[p], Entry(End(p), bytes(p))) ELSE log[p]
             y(p) == IF p \in to THEN sequences[p] + h(p) + 1 ELSE sequences[p]
  <2>1. log' = [p \in Partitions |-> x(p)] /\ sequences' = [p \in Partitions |-> y(p)]
    BY <1>2
  <2> HIDE DEF x, y
  <2>2. log' = [p \in Partitions |-> log'[p]] /\ sequences' = [p \in Partitions |-> sequences'[p]]
    BY <2>1
  <2> QED
    BY <1>7, <2>2
<1>12. PathTyped'
  BY <1>1, <1>3, <1>11 DEF PathTyped
<1> QED
  BY <1>9, <1>10, <1>12 DEF PathInv

-----------------------------------------------------------------------------
(* Other producers.                                                        *)

\* A batch of another producer, made out of an empty one of the client's.
Others(p, attributes, record) ==
    [Batch(p, <<>>) EXCEPT
         !.attributes = attributes, !.lastOffsetDelta = 0,
         !.baseTimestamp = Now, !.maxTimestamp = Now,
         !.producerId = 2, !.records = <<record>>]

\* A batch of another producer has typed fields and its one record.
LEMMA OthersType ==
    ASSUME NEW p \in Int, NEW attributes \in Int, NEW record \in Encodable, sequences[p] \in Int
    PROVE  /\ TypedBatch(Others(p, attributes, record))
           /\ Others(p, attributes, record).lastOffsetDelta = 0
           /\ Others(p, attributes, record).records = <<record>>
<1> DEFINE none == <<>>
           b == Batch(p, none)
           one == <<record>>
           o == Others(p, attributes, record)
<1>1. none \in Seq(Message)
  OBVIOUS
<1>2. TypedBatch(b)
  BY <1>1, BatchType
<1>3. b = [index |-> b.index, baseOffset |-> b.baseOffset,
           partitionLeaderEpoch |-> b.partitionLeaderEpoch, attributes |-> b.attributes,
           lastOffsetDelta |-> b.lastOffsetDelta, baseTimestamp |-> b.baseTimestamp,
           maxTimestamp |-> b.maxTimestamp, producerId |-> b.producerId,
           producerEpoch |-> b.producerEpoch, baseSequence |-> b.baseSequence,
           records |-> b.records]
  BY DEF Batch
<1>4. o = [b EXCEPT !.attributes = attributes, !.lastOffsetDelta = 0, !.baseTimestamp = Now,
                    !.maxTimestamp = Now, !.producerId = 2, !.records = one]
  BY DEF Others
<1>5. one \in Seq(Encodable)
  OBVIOUS
<1> HIDE DEF b, one, o
<1>6. o = [index |-> b.index, baseOffset |-> b.baseOffset,
           partitionLeaderEpoch |-> b.partitionLeaderEpoch, attributes |-> attributes,
           lastOffsetDelta |-> 0, baseTimestamp |-> Now,
           maxTimestamp |-> Now, producerId |-> 2,
           producerEpoch |-> b.producerEpoch, baseSequence |-> b.baseSequence,
           records |-> one]
  BY <1>3, <1>4
<1>7. /\ o.baseOffset = b.baseOffset /\ o.partitionLeaderEpoch = b.partitionLeaderEpoch
      /\ o.attributes = attributes /\ o.lastOffsetDelta = 0 /\ o.baseTimestamp = Now
      /\ o.maxTimestamp = Now /\ o.producerId = 2 /\ o.producerEpoch = b.producerEpoch
      /\ o.baseSequence = b.baseSequence /\ o.records = one
  BY <1>6
<1>8. Now \in Int
  BY ScenarioAssumption
<1>9. TypedBatch(o)
  BY <1>2, <1>5, <1>7, <1>8 DEF TypedBatch
<1> QED
  BY <1>7, <1>9 DEF o, one

\* A batch of another producer keeps the invariant.
LEMMA ForeignBatchKeeps ==
    ASSUME PathInv, ForeignBatch
    PROVE  PathInv'
<1> DEFINE f == scenario.foreign[foreign + 1]
           p == f.partition
           record == [timestampDelta |-> 0, offsetDelta |-> 0, key |-> <<0, 0, 0, 1>>,
                      value |-> <<0, 0, 0, 0, 0, 0>>, headers |-> <<>>]
           batch == Others(p, f.attributes, record)
           l == log[p]
           w == written[p]
           c == cleaned[p]
           first == EndOf(l)
           bytes == EncodedBatch(batch)
           k == Append(l, Entry(first, bytes))
           v == Append(w, Null)
<1>1. /\ request = Null /\ foreign < Len(scenario.foreign) /\ foreign' = foreign + 1
      /\ UNCHANGED <<scenario, sent, counter, sequences, request, fetcher, response>>
      /\ UNCHANGED <<position, delivered, cleaned, cleanings>>
      /\ Writable(batch) /\ Room(p)
      /\ log' = [log EXCEPT ![p] = Append(@, Entry(End(p), bytes))]
      /\ written' = [written EXCEPT ![p] = Append(@, Null)]
  BY DEF ForeignBatch, producerVars, fetchVars, consumerVars, Others
<1>2. PathTyped /\ RequestOK
  BY DEF PathInv
<1>3. f \in [partition : Partitions, attributes : Int] /\ foreign' \in 0 .. Len(scenario.foreign)
  <2> DEFINE X == [partition : Partitions, attributes : Int]
  <2>1. scenario.foreign \in Seq(X)
    BY <1>2, Limits
  <2> HIDE DEF X
  <2>2. foreign \in 0 .. Len(scenario.foreign) /\ Len(scenario.foreign) \in Nat
    BY <1>2, <2>1 DEF PathTyped
  <2>3. foreign < Len(scenario.foreign) /\ foreign' = foreign + 1
    BY <1>1
  <2>4. foreign + 1 \in 1 .. Len(scenario.foreign) /\ foreign' \in 0 .. Len(scenario.foreign)
    BY <2>2, <2>3
  <2>5. f \in X
    BY <2>1, <2>4
  <2> QED
    BY <2>4, <2>5 DEF X
<1>4. p \in Partitions /\ f.attributes \in Int
  BY <1>3
<1>5. p \in Int /\ sequences[p] \in Int
  <2>1. p \in Nat /\ sequences[p] \in Nat
    BY <1>2, <1>4, PartitionsAre DEF PathTyped
  <2> QED
    BY <2>1
<1>6. record \in Encodable /\ record.offsetDelta = 0
  <2> DEFINE x == <<0, 0, 0, 1>>
             y == <<0, 0, 0, 0, 0, 0>>
             z == <<>>
             H == Seq(Seq(Byte) \X Seq(Byte))
  <2>1. x \in Seq(Byte) /\ y \in Seq(Byte)
    <3>1. 0 \in Byte /\ 1 \in Byte
      BY DEF Byte
    <3> QED
      BY <3>1
  <2>2. x \in Text /\ y \in Text
    BY <2>1 DEF Text
  <2>3. z \in H
    OBVIOUS
  <2>4. record = [timestampDelta |-> 0, offsetDelta |-> 0, key |-> x, value |-> y, headers |-> z]
    OBVIOUS
  <2>5. Encodable = [timestampDelta : Int, offsetDelta : Int, key : Text, value : Text, headers : H]
    BY DEF Encodable
  <2> HIDE DEF x, y, z, H, record
  <2>6. 0 \in Int
    OBVIOUS
  <2> QED
    BY <2>2, <2>3, <2>4, <2>5, <2>6
<1> HIDE DEF record
<1>7. TypedBatch(batch) /\ batch.lastOffsetDelta = 0 /\ batch.records = <<record>>
  BY <1>4, <1>5, <1>6, OthersType
<1> HIDE DEF f
<1>8. /\ InLog(l, w, c) /\ first \in Nat /\ Sequence(w) /\ Len(w) \in Nat /\ c \subseteq 0 .. first - 1
      /\ first = Len(w)
  <2>1. InLog(l, w, c) /\ first \in Nat /\ Sequence(w) /\ Len(w) \in Nat
    BY <1>4, InPart
  <2>2. c \subseteq 0 .. first - 1
    BY <2>1 DEF InLog
  <2>3. first = Len(w)
    BY <1>1, <1>2, <1>4 DEF RequestOK
  <2> QED
    BY <2>1, <2>2, <2>3
<1>9. End(p) = first /\ Fits(first, 8)
  BY <1>1 DEF End, EndOf, Room
<1>10. log = [q \in Partitions |-> log[q]] /\ written = [q \in Partitions |-> written[q]]
  BY <1>2 DEF PathTyped
<1>11. /\ log' = [q \in Partitions |-> log'[q]] /\ written' = [q \in Partitions |-> written'[q]]
       /\ log'[p] = k /\ written'[p] = v
       /\ \A q \in Partitions : q # p => log'[q] = log[q] /\ written'[q] = written[q]
  <2>1. log' = [log EXCEPT ![p] = k] /\ written' = [written EXCEPT ![p] = v]
    BY <1>1, <1>9
  <2> HIDE DEF k, v, p
  <2>2. /\ log' = [q \in Partitions |-> IF q = p THEN k ELSE log[q]]
        /\ written' = [q \in Partitions |-> IF q = p THEN v ELSE written[q]]
    BY <1>10, <2>1
  <2>3. \A q \in Partitions : /\ log'[q] = IF q = p THEN k ELSE log[q]
                              /\ written'[q] = IF q = p THEN v ELSE written[q]
    BY <2>2
  <2>4. log' = [q \in Partitions |-> log'[q]] /\ written' = [q \in Partitions |-> written'[q]]
    BY <2>2, <2>3
  <2> QED
    BY <1>4, <2>3, <2>4
<1> HIDE DEF l, w, c, first, batch, p
<1>12. /\ Sequence(v) /\ Len(v) = first + 1 /\ Extends(w, v) /\ v[first + 1] = Null
  <2>1. /\ Sequence(v) /\ Len(v) = Len(w) + 1
        /\ \A i \in 1 .. Len(w) : v[i] = w[i]
        /\ v[Len(w) + 1] = Null
    BY <1>8, OneMore
  <2> HIDE DEF v
  <2>2. Len(v) \in Nat /\ Len(w) <= Len(v)
    BY <1>8, <2>1
  <2> QED
    BY <1>8, <2>1, <2>2 DEF Extends
<1> HIDE DEF v
<1>13. Batched(v, c, bytes, ContentAt(first, bytes), first, first + 1)
  <2>1. record.offsetDelta = 0 /\ batch.records = <<record>>
    BY <1>6, <1>7
  <2> QED
    BY <1>1, <1>7, <1>8, <1>12, <2>1, OthersHold
<1>14. InLog(l, v, c)
  <2> DEFINE x == Len(w)
  <2>1. EndOf(l) <= x
    BY <1>8 DEF first
  <2>2. c \subseteq c /\ c \subseteq 0 .. EndOf(l) - 1
    BY <1>8 DEF first
  <2> QED
    BY <1>8, <1>12, <2>1, <2>2, LogLater
<1>15. InLog(k, v, c) /\ EndOf(k) = first + 1
  <2> DEFINE next == first + 1
  <2> HIDE DEF bytes, next
  <2>1. Batched(v, c, bytes, ContentAt(first, bytes), first, next)
    BY <1>13 DEF next
  <2>2. InLog(k, v, c) /\ EndOf(k) = next
    BY <1>9, <1>14, <2>1, EntryAppended DEF first
  <2> QED
    BY <2>2 DEF next
<1> HIDE DEF k
<1>16. ASSUME NEW q \in Partitions
       PROVE  /\ Grown(log[q], written[q], cleaned[q], log'[q], written'[q], cleaned'[q])
              /\ Len(written'[q]) = EndOf(log'[q])
  <2>1. CASE q = p
    <3>1. Grown(l, w, c, k, v, c)
      <4>1. first <= first + 1
        BY <1>8
      <4> QED
        BY <1>12, <1>15, <4>1 DEF Grown, first
    <3> QED
      BY <1>1, <1>11, <1>12, <1>15, <2>1, <3>1 DEF l, w, c
  <2>2. CASE q # p
    <3>1. /\ InLog(log[q], written[q], cleaned[q]) /\ EndOf(log[q]) \in Nat /\ Sequence(written[q])
          /\ Extends(written[q], written[q])
      BY InPart
    <3>2. Len(written[q]) = EndOf(log[q])
      BY <1>1, <1>2 DEF RequestOK
    <3>3. Grown(log[q], written[q], cleaned[q], log[q], written[q], cleaned[q])
      BY <3>1 DEF Grown
    <3> QED
      BY <1>1, <1>11, <2>2, <3>2, <3>3
  <2> QED
    BY <2>1, <2>2
<1>17. /\ ResponseOK'
       /\ \A q \in Partitions :
             /\ InLog(log[q], written[q], cleaned[q])'
             /\ Consumed(delivered[q], written[q], cleaned[q], position[q], EndOf(log[q]))'
  BY <1>1, <1>16, AllGrown
<1>18. RequestOK'
  BY <1>1, <1>16 DEF RequestOK
<1>19. PathTyped'
  BY <1>1, <1>2, <1>3, <1>11 DEF PathTyped
<1> QED
  BY <1>17, <1>18, <1>19 DEF PathInv

-----------------------------------------------------------------------------
(* What send() makes of its messages.                                      *)

\* A sequence of members of X.
LEMMA SequenceOf ==
    ASSUME NEW X, NEW r, Sequence(r), \A j \in 1 .. Len(r) : r[j] \in X
    PROVE  r \in Seq(X)
<1> DEFINE Y == ToSet(r)
           n == Len(r)
<1>1. r \in Seq(Y)
  BY DEF Sequence
<1> HIDE DEF Y
<1>2. n \in Nat /\ r = [j \in 1 .. n |-> r[j]]
  BY <1>1
<1> HIDE DEF n
<1>3. r \in [1 .. n -> X]
  BY <1>2 DEF n
<1> QED
  BY <1>2, <1>3, FunctionIsSeq

\* The messages to a partition are a sequence of messages.
LEMMA MessagesToType ==
    ASSUME NEW n \in Nat, NEW placed, DOMAIN placed = 1 .. n,
           \A i \in 1 .. n : placed[i].message \in Message, NEW p
    PROVE  /\ MessagesTo(p, placed) \in Seq(Message) /\ Len(MessagesTo(p, placed)) \in Nat
           /\ DOMAIN MessagesTo(p, placed) = 1 .. Len(MessagesTo(p, placed))
           /\ MessagesTo(p, placed) # <<>> => Len(MessagesTo(p, placed)) > 0
<1> DEFINE S == {i \in 1 .. n : placed[i].index = p}
           v == [i \in 1 .. n |-> placed[i].message]
           r == MessagesTo(p, placed)
<1>1. \A i \in 1 .. n : v[i] = placed[i].message
  OBVIOUS
<1>2. r = FlattenSeq([i \in 1 .. n |-> When(placed[i].index = p, placed[i].message)])
  BY DEF MessagesTo
<1>3. \A i \in 1 .. n : (placed[i].index = p) <=> i \in S
  OBVIOUS
<1> HIDE DEF v, S, r
<1>4. \A i \in 1 .. n : When(placed[i].index = p, placed[i].message) = When(i \in S, v[i])
  BY <1>1, <1>3 DEF When
<1>5. [i \in 1 .. n |-> When(placed[i].index = p, placed[i].message)]
        = [i \in 1 .. n |-> When(i \in S, v[i])]
  BY <1>4
<1>6. r = FlattenSeq([i \in 1 .. n |-> When(i \in S, v[i])])
  BY <1>2, <1>5
<1>7. PICK K : Filtered(FlattenSeq([i \in 1 .. n |-> When(i \in S, v[i])]), n, S, v, K)
  BY Filter
<1>8. Filtered(r, n, S, v, K)
  BY <1>6, <1>7
<1>9. Sequence(r) /\ \A j \in 1 .. Len(r) : r[j] \in Message
  <2>1. Sequence(r) /\ \A j \in 1 .. Len(r) : K[j] \in 1 .. n /\ r[j] = v[K[j]]
    BY <1>8 DEF Filtered
  <2>2. \A i \in 1 .. n : v[i] \in Message
    BY <1>1
  <2> QED
    BY <2>1, <2>2
<1>10. r \in Seq(Message)
  BY <1>9, SequenceOf
<1>11. Len(r) \in Nat /\ DOMAIN r = 1 .. Len(r) /\ (r # <<>> => Len(r) > 0)
  BY <1>10
<1> QED
  BY <1>10, <1>11 DEF r

\* A request has a batch for each partition that gets messages, in order.
LEMMA BatchesOfDef ==
    ASSUME NEW placed
    PROVE  \E K : Filtered(BatchesOf(placed), NumPartitions,
                           {i \in 1 .. NumPartitions : MessagesTo(i - 1, placed) # <<>>},
                           [i \in 1 .. NumPartitions |-> Batch(i - 1, MessagesTo(i - 1, placed))], K)
<1> DEFINE n == NumPartitions
           S == {i \in 1 .. n : MessagesTo(i - 1, placed) # <<>>}
           b(i) == Batch(i - 1, MessagesTo(i - 1, placed))
           v == [i \in 1 .. n |-> b(i)]
           r == BatchesOf(placed)
<1>1. \A i \in 1 .. n : v[i] = b(i)
  OBVIOUS
<1>2. r = FlattenSeq([i \in 1 .. n |-> When(MessagesTo(i - 1, placed) # <<>>, b(i))])
  BY DEF BatchesOf
<1>3. \A i \in 1 .. n : (MessagesTo(i - 1, placed) # <<>>) <=> i \in S
  OBVIOUS
<1>4. n \in Nat
  BY PartitionsAre
<1> HIDE DEF v, S, r, b, n
<1>5. \A i \in 1 .. n : When(MessagesTo(i - 1, placed) # <<>>, b(i)) = When(i \in S, v[i])
  BY <1>1, <1>3 DEF When
<1>6. [i \in 1 .. n |-> When(MessagesTo(i - 1, placed) # <<>>, b(i))]
        = [i \in 1 .. n |-> When(i \in S, v[i])]
  BY <1>5
<1>7. r = FlattenSeq([i \in 1 .. n |-> When(i \in S, v[i])])
  BY <1>2, <1>6
<1>8. PICK K : Filtered(FlattenSeq([i \in 1 .. n |-> When(i \in S, v[i])]), n, S, v, K)
  BY <1>4, Filter
<1>9. Filtered(r, n, S, v, K)
  BY <1>7, <1>8
<1>10. \E h : Filtered(r, n, S, v, h)
  BY <1>9
<1> QED
  BY <1>10 DEF r, n, S, v, b

\* The messages that get a partition, and the counter after them.
LEMMA PlacedMessages ==
    ASSUME NEW messages \in Seq(Message), messages # <<>>, counter \in Nat
    PROVE  /\ Len(messages) \in Nat /\ DOMAIN Partitioned(messages) = 1 .. Len(messages)
           /\ \A i \in 1 .. Len(messages) : Partitioned(messages)[i].message \in Message
           /\ Last(Partitioned(messages)).counter \in Nat
<1> DEFINE n == Len(messages)
           placed == Partitioned(messages)
           X == {placed[i] : i \in 1 .. n}
<1>1. n \in Nat /\ n > 0 /\ n \in 1 .. n /\ \A i \in 1 .. n : messages[i] \in Message
  OBVIOUS
<1>2. PICK C \in [0 .. n -> Nat] :
          /\ DOMAIN placed = 1 .. n
          /\ placed \in Seq(X)
          /\ \A i \in 1 .. n : placed[i].counter = C[i] /\ placed[i].message = messages[i]
  <2>1. \E C \in [0 .. n -> Nat] :
              /\ C[0] = counter
              /\ \A i \in 1 .. n : C[i] = IF TakesTurn(messages[i]) THEN C[i - 1] + 1 ELSE C[i - 1]
              /\ DOMAIN placed = 1 .. n
              /\ placed \in Seq(X)
              /\ \A i \in 1 .. n :
                    LET e == placed[i]
                    IN  /\ e.counter = C[i] /\ e.message = messages[i]
                        /\ TakesTurn(messages[i]) => e.index = Wrapped(C[i - 1]) % NumPartitions
    BY PartitionedDef
  <2> HIDE DEF X, placed, n
  <2> QED
    BY <2>1
<1> HIDE DEF X, placed, n
<1>3. Len(placed) = n
  BY <1>1, <1>2
<1>4. Last(placed) = placed[n]
  BY <1>3 DEF Last
<1>5. Last(placed).counter \in Nat
  BY <1>1, <1>2, <1>4
<1> QED
  BY <1>1, <1>2, <1>5 DEF placed, n

\* What the messages add to what is written.
LEMMA WrittenMore ==
    ASSUME NEW w, Sequence(w), NEW messages \in Seq(Message)
    PROVE  LET v == w \o [i \in DOMAIN messages |-> AsSent(messages[i])]
           IN  /\ Sequence(v) /\ Len(v) = Len(w) + Len(messages) /\ Extends(w, v)
               /\ \A i \in 1 .. Len(messages) : v[Len(w) + i] = AsSent(messages[i])
<1> DEFINE n == Len(messages)
           t == [i \in DOMAIN messages |-> AsSent(messages[i])]
           v == w \o t
<1>1. n \in Nat /\ DOMAIN messages = 1 .. n
  OBVIOUS
<1>2. t = [i \in 1 .. n |-> AsSent(messages[i])]
  BY <1>1
<1>3. t = [i \in 1 .. n |-> t[i]] /\ \A i \in 1 .. n : t[i] = AsSent(messages[i])
  BY <1>2
<1> HIDE DEF t, n
<1>4. Sequence(t) /\ Len(t) = n
  BY <1>1, <1>3, Listed
<1>5. Len(w) \in Nat
  BY SequenceDomain
<1>6. /\ Sequence(v) /\ Len(v) = Len(w) + n
      /\ \A i \in 1 .. Len(w) : v[i] = w[i]
      /\ \A i \in 1 .. n : v[Len(w) + i] = t[i]
  BY <1>4, InTurn
<1> HIDE DEF v
<1>7. Extends(w, v)
  BY <1>1, <1>5, <1>6 DEF Extends
<1>8. \A i \in 1 .. n : v[Len(w) + i] = AsSent(messages[i])
  BY <1>3, <1>6
<1> QED
  BY <1>6, <1>7, <1>8 DEF v, t, n

\* The name of the topic is bytes.
LEMMA TopicType == Topic \in Seq(Byte)
<1>1. 116 \in Byte
  BY DEF Byte
<1> QED
  BY <1>1 DEF Topic

\* The request for the messages holds a batch for each partition that gets any.
LEMMA RequestedParts ==
    ASSUME NEW n \in Nat, NEW placed, DOMAIN placed = 1 .. n,
           \A i \in 1 .. n : placed[i].message \in Message,
           \A p \in Partitions : sequences[p] \in Int,
           LET batches == BatchesOf(placed)
           IN  \A i \in DOMAIN batches : Writable(batches[i]) /\ Room(batches[i].index)
    PROVE  LET b == ProduceRequest(-1, Topic, BatchesOf(placed))
           IN  /\ b \in Seq(Byte)
               /\ \A part \in ToSet(Produces(b)) :
                      LET batch == Batch(part.index, MessagesTo(part.index, placed))
                      IN  /\ part.index \in Partitions /\ part.bytes = EncodedBatch(batch)
                          /\ Writable(batch) /\ Room(part.index)
                          /\ MessagesTo(part.index, placed) # <<>>
               /\ \A p \in Partitions : MessagesTo(p, placed) # <<>> =>
                      \E part \in ToSet(Produces(b)) : part.index = p
<1> DEFINE batches == BatchesOf(placed)
           b == ProduceRequest(-1, Topic, batches)
           parts == Produces(b)
           size == NumPartitions
           S == {i \in 1 .. size : MessagesTo(i - 1, placed) # <<>>}
           e(p) == Batch(p, MessagesTo(p, placed))
           v == [i \in 1 .. size |-> e(i - 1)]
           l == Len(batches)
<1>1. PICK K : Filtered(batches, size, S, v, K)
  BY BatchesOfDef
<1>2. l \in Nat /\ DOMAIN batches = 1 .. l
  BY <1>1, SequenceDomain DEF Filtered
<1>3. \A i \in 1 .. size : v[i] = e(i - 1) /\ i - 1 \in Partitions /\ i - 1 \in Int /\ Fits(i - 1, 4)
  <2>1. \A i \in 1 .. size : i - 1 \in Partitions /\ i - 1 \in Int
    BY PartitionsAre
  <2>2. \A i \in 1 .. size : Fits(i - 1, 4)
    BY <2>1, PartitionsAre
  <2>3. \A i \in 1 .. size : v[i] = e(i - 1)
    OBVIOUS
  <2> QED
    BY <2>1, <2>2, <2>3
<1>4. \A i \in 1 .. l : Writable(batches[i]) /\ Room(batches[i].index)
  BY <1>2
<1>5. \A i \in 1 .. size : (i \in S) <=> (MessagesTo(i - 1, placed) # <<>>)
  OBVIOUS
<1> HIDE DEF batches, S, v, l
<1>6. ASSUME NEW j \in 1 .. l
      PROVE  /\ K[j] \in 1 .. size /\ K[j] \in S /\ batches[j] = e(K[j] - 1)
             /\ TypedBatch(batches[j]) /\ batches[j].index = K[j] - 1
  <2>1. K[j] \in 1 .. size /\ K[j] \in S /\ batches[j] = v[K[j]]
    BY <1>1 DEF Filtered, l
  <2> DEFINE p == K[j] - 1
             messages == MessagesTo(p, placed)
  <2>2. batches[j] = Batch(p, messages) /\ p \in Partitions /\ p \in Int
    BY <1>3, <2>1
  <2>3. messages \in Seq(Message)
    BY MessagesToType
  <2>4. sequences[p] \in Int
    BY <2>2
  <2> HIDE DEF p, messages
  <2>5. TypedBatch(Batch(p, messages)) /\ Batch(p, messages).index = p
    BY <2>2, <2>3, <2>4, BatchType
  <2> QED
    BY <2>1, <2>2, <2>5 DEF p, messages
<1> HIDE DEF e
<1>7. ASSUME NEW j \in 1 .. l
      PROVE  /\ batches[j].index \in Int /\ Fits(batches[j].index, 4)
             /\ TypedBatch(batches[j]) /\ Writable(batches[j])
  BY <1>3, <1>4, <1>6
<1>8. /\ b \in Seq(Byte)
      /\ parts = [i \in 1 .. l |-> parts[i]]
      /\ \A i \in 1 .. l : parts[i].index = batches[i].index /\ parts[i].bytes = EncodedBatch(batches[i])
  <2> DEFINE acks == -1
  <2>1. acks \in Int
    OBVIOUS
  <2>2. b = ProduceRequest(acks, Topic, batches)
    OBVIOUS
  <2> HIDE DEF acks
  <2>3. LET x == Produces(ProduceRequest(acks, Topic, batches))
        IN  /\ ProduceRequest(acks, Topic, batches) \in Seq(Byte)
            /\ x = [i \in 1 .. l |-> x[i]]
            /\ \A i \in 1 .. l : x[i].index = batches[i].index /\ x[i].bytes = EncodedBatch(batches[i])
    <3>1. \A i \in 1 .. l : /\ batches[i].index \in Int /\ Fits(batches[i].index, 4)
                            /\ TypedBatch(batches[i]) /\ Writable(batches[i])
      BY <1>7
    <3>2. l \in Nat /\ DOMAIN batches = 1 .. l /\ Topic \in Seq(Byte)
      BY <1>2, TopicType
    <3> HIDE DEF b, size
    <3> QED
      BY <2>1, <3>1, <3>2, RequestIsReadAsWritten
  <2> HIDE DEF b
  <2> QED
    BY <2>2, <2>3
<1> HIDE DEF parts
<1>9. DOMAIN parts = 1 .. l
  BY <1>8
<1> HIDE DEF b
<1>10. ASSUME NEW part \in ToSet(parts)
       PROVE  /\ part.index \in Partitions /\ part.bytes = EncodedBatch(e(part.index))
              /\ Writable(e(part.index)) /\ Room(part.index)
              /\ MessagesTo(part.index, placed) # <<>>
  <2>1. PICK j \in 1 .. l : part = parts[j]
    BY <1>9 DEF ToSet
  <2>2. part.index = K[j] - 1 /\ part.bytes = EncodedBatch(batches[j]) /\ batches[j] = e(K[j] - 1)
    BY <1>6, <1>8, <2>1
  <2>3. K[j] \in 1 .. size /\ K[j] \in S /\ Writable(batches[j]) /\ Room(batches[j].index)
    BY <1>4, <1>6
  <2> QED
    BY <1>3, <1>5, <1>6, <2>2, <2>3
<1>11. ASSUME NEW p \in Partitions, MessagesTo(p, placed) # <<>>
       PROVE  \E part \in ToSet(parts) : part.index = p
  <2>1. p + 1 \in 1 .. size /\ (p + 1) - 1 = p
    BY PartitionsAre
  <2>2. p + 1 \in S
    BY <1>5, <1>11, <2>1
  <2>3. PICK j \in 1 .. l : K[j] = p + 1
    BY <1>1, <2>1, <2>2 DEF Filtered, l
  <2>4. parts[j] \in ToSet(parts) /\ parts[j].index = p
    BY <1>6, <1>8, <1>9, <2>1, <2>3 DEF ToSet
  <2> QED
    BY <2>4
<1> QED
  BY <1>8, <1>10, <1>11 DEF b, parts, e, batches

\* What is under way of a partition that gets messages.
LEMMA SentOutstanding ==
    ASSUME NEW p \in Int, NEW messages \in Seq(Message), messages # <<>>, sequences[p] \in Int,
           Writable(Batch(p, messages)), NEW l, NEW w, NEW c, EndOf(l) \in Nat, Fits(EndOf(l), 8),
           NEW v, Len(v) = EndOf(l) + Len(messages),
           \A i \in 1 .. Len(messages) : v[EndOf(l) + i] = AsSent(messages[i])
    PROVE  Outstanding(EncodedBatch(Batch(p, messages)), l, v, c)
<1> DEFINE batch == Batch(p, messages)
           n == Len(messages)
           first == EndOf(l)
           bytes == EncodedBatch(batch)
<1>1. n \in Nat /\ n > 0
  OBVIOUS
<1>2. TypedBatch(batch) /\ Recorded(messages, batch)
  BY BatchType
<1>3. Writable(batch)
  OBVIOUS
<1>4. first \in Nat /\ \A j \in 1 .. n : v[first + j] = AsSent(messages[j])
  OBVIOUS
<1> HIDE DEF batch, first
<1>5. Batched(v, c, bytes, ContentAt(first, bytes), first, first + n)
  BY <1>1, <1>2, <1>3, <1>4, SentHolds
<1>6. Len(v) = first + n
  BY DEF first
<1> HIDE DEF bytes, n
<1> QED
  BY <1>5, <1>6 DEF Outstanding, first, bytes, batch

\* send() keeps the invariant: its request has what is written and not yet in a log.
LEMMA SendKeeps ==
    ASSUME PathInv, Send
    PROVE  PathInv'
<1> DEFINE messages == scenario.sends[sent + 1]
           placed == Partitioned(messages)
           n == Len(messages)
           to(p) == MessagesTo(p, placed)
           b == ProduceRequest(-1, Topic, BatchesOf(placed))
           parts == Produces(b)
<1>1. /\ request = Null /\ sent < Len(scenario.sends) /\ sent' = sent + 1
      /\ Requested(placed)
      /\ UNCHANGED <<scenario, sequences, fetcher, response, position, delivered>>
      /\ UNCHANGED <<log, cleaned, foreign, cleanings>>
  BY DEF Send, fetchVars, consumerVars, externalVars
<1>2. PathTyped /\ RequestOK
  BY DEF PathInv
<1>3. messages \in Seq(Message) /\ messages # <<>> /\ sent' \in 0 .. Len(scenario.sends)
  <2> DEFINE X == Seq(Message) \ {<<>>}
             sends == scenario.sends
  <2>1. sends \in Seq(X)
    BY <1>2, Limits
  <2>2. sent \in 0 .. Len(sends)
    BY <1>2 DEF PathTyped
  <2>3. messages = sends[sent + 1] /\ sent < Len(sends)
    BY <1>1
  <2> HIDE DEF X, sends, messages
  <2>4. Len(sends) \in Nat
    BY <2>1
  <2>5. sent + 1 \in 1 .. Len(sends)
    BY <2>2, <2>3, <2>4
  <2>6. sends[sent + 1] \in X
    BY <2>1, <2>5
  <2> QED
    BY <1>1, <2>3, <2>4, <2>5, <2>6 DEF X, sends
<1>4. /\ n \in Nat /\ DOMAIN placed = 1 .. n
      /\ \A i \in 1 .. n : placed[i].message \in Message
      /\ Last(placed).counter \in Nat
  <2>1. counter \in Nat
    BY <1>2 DEF PathTyped
  <2> HIDE DEF messages
  <2> QED
    BY <1>3, <2>1, PlacedMessages
<1> HIDE DEF messages, placed, n
<1>5. /\ \A i \in DOMAIN BatchesOf(placed) :
             Writable(BatchesOf(placed)[i]) /\ Room(BatchesOf(placed)[i].index)
      /\ counter' = Last(placed).counter /\ request' = b
      /\ written' = [p \in Partitions |-> written[p] \o [i \in DOMAIN to(p) |-> AsSent(to(p)[i])]]
  BY <1>1 DEF Requested
<1>6. ASSUME NEW p \in Partitions PROVE sequences[p] \in Int /\ p \in Int
  <2>1. sequences[p] \in Nat /\ p \in Nat
    BY <1>2, PartitionsAre DEF PathTyped
  <2> QED
    BY <2>1
<1>7. /\ b \in Seq(Byte)
      /\ \A part \in ToSet(parts) :
             LET batch == Batch(part.index, MessagesTo(part.index, placed))
             IN  /\ part.index \in Partitions /\ part.bytes = EncodedBatch(batch)
                 /\ Writable(batch) /\ Room(part.index)
                 /\ MessagesTo(part.index, placed) # <<>>
      /\ \A p \in Partitions : MessagesTo(p, placed) # <<>> =>
             \E part \in ToSet(parts) : part.index = p
  BY <1>4, <1>5, <1>6, RequestedParts
<1> HIDE DEF b
<1>8. ASSUME NEW p \in Partitions
      PROVE  /\ to(p) \in Seq(Message) /\ Len(to(p)) \in Nat
             /\ Sequence(written'[p]) /\ Extends(written[p], written'[p])
             /\ Len(written'[p]) = Len(written[p]) + Len(to(p))
             /\ \A i \in 1 .. Len(to(p)) : written'[p][Len(written[p]) + i] = AsSent(to(p)[i])
  <2>1. to(p) \in Seq(Message) /\ Len(to(p)) \in Nat
    BY <1>4, MessagesToType
  <2>2. Sequence(written[p])
    BY InPart
  <2> DEFINE w == written[p]
             x == to(p)
             v == w \o [i \in DOMAIN x |-> AsSent(x[i])]
  <2>3. written'[p] = v
    BY <1>5
  <2> HIDE DEF w, x
  <2>4. /\ Sequence(v) /\ Len(v) = Len(w) + Len(x) /\ Extends(w, v)
        /\ \A i \in 1 .. Len(x) : v[Len(w) + i] = AsSent(x[i])
    BY <2>1, <2>2, WrittenMore DEF w, x
  <2> HIDE DEF v
  <2> QED
    BY <2>1, <2>3, <2>4 DEF w, x
<1>9. ASSUME NEW p \in Partitions
      PROVE  /\ InLog(log[p], written[p], cleaned[p]) /\ EndOf(log[p]) \in Nat
             /\ Len(written[p]) = EndOf(log[p])
  BY <1>1, <1>2, InPart DEF RequestOK
<1>10. ASSUME NEW p \in Partitions
       PROVE  Grown(log[p], written[p], cleaned[p], log'[p], written'[p], cleaned'[p])
  <2> DEFINE x == Len(written[p])
             l == log[p]
             c == cleaned[p]
             w == written[p]
             v == written'[p]
  <2>1. InLog(l, w, c) /\ EndOf(l) <= x /\ Extends(w, v) /\ Sequence(v) /\ EndOf(l) \in Nat
    BY <1>8, <1>9
  <2> HIDE DEF l, c, v, w
  <2>2. c \subseteq c /\ c \subseteq 0 .. EndOf(l) - 1
    BY <2>1 DEF InLog
  <2>3. InLog(l, v, c)
    BY <2>1, <2>2, LogLater DEF w
  <2>4. Grown(l, w, c, l, v, c)
    BY <2>1, <2>3 DEF Grown
  <2> QED
    BY <1>1, <2>4 DEF l, c, v, w
<1>11. /\ ResponseOK'
       /\ \A p \in Partitions :
              /\ InLog(log[p], written[p], cleaned[p])'
              /\ Consumed(delivered[p], written[p], cleaned[p], position[p], EndOf(log[p]))'
  BY <1>1, <1>10, AllGrown
<1>12. ASSUME NEW part \in ToSet(parts)
       PROVE  /\ part.index \in Partitions
              /\ Outstanding(part.bytes, log[part.index], written'[part.index], cleaned[part.index])
  <2> DEFINE p == part.index
             x == to(p)
             l == log[p]
             v == written'[p]
             c == cleaned[p]
  <2>1. p \in Partitions /\ part.bytes = EncodedBatch(Batch(p, x)) /\ Writable(Batch(p, x))
        /\ Room(p) /\ x # <<>>
    BY <1>7
  <2>2. x \in Seq(Message) /\ sequences[p] \in Int /\ p \in Int
    BY <1>6, <1>8, <2>1
  <2>3. EndOf(l) \in Nat /\ Fits(EndOf(l), 8)
    BY <1>9, <2>1 DEF Room, End, EndOf
  <2>4. Len(v) = EndOf(l) + Len(x) /\ \A i \in 1 .. Len(x) : v[EndOf(l) + i] = AsSent(x[i])
    BY <1>8, <1>9, <2>1
  <2> HIDE DEF p, x, l, v, c, to
  <2>5. Outstanding(EncodedBatch(Batch(p, x)), l, v, c)
    BY <2>1, <2>2, <2>3, <2>4, SentOutstanding
  <2> QED
    BY <2>1, <2>5 DEF p, l, v, c
<1>13. ASSUME NEW p \in Partitions, \A part \in ToSet(parts) : part.index # p
       PROVE  Len(written'[p]) = EndOf(log[p])
  <2>1. to(p) = <<>>
    BY <1>7, <1>13
  <2>2. Len(to(p)) = 0
    BY <2>1
  <2> DEFINE x == Len(to(p))
             y == Len(written[p])
  <2> HIDE DEF x, y
  <2>3. Len(written'[p]) = y + x /\ x = 0 /\ y \in Nat /\ y = EndOf(log[p])
    BY <1>8, <1>9, <2>2 DEF x, y
  <2> QED
    BY <2>3
<1>14. request' # Null /\ request' \in Seq(Byte)
  BY <1>5, <1>7, NullIsNoText
<1>15. RequestOK'
  <2>1. Produces(request') = parts
    BY <1>5
  <2> HIDE DEF parts
  <2> QED
    BY <1>1, <1>12, <1>13, <1>14, <2>1 DEF RequestOK
<1>16. written' = [p \in Partitions |-> written'[p]]
  <2> DEFINE x(p) == written[p] \o [i \in DOMAIN to(p) |-> AsSent(to(p)[i])]
  <2>1. written' = [p \in Partitions |-> x(p)]
    BY <1>5
  <2> HIDE DEF x
  <2> QED
    BY <2>1
<1>17. PathTyped'
  BY <1>1, <1>2, <1>3, <1>4, <1>5, <1>16 DEF PathTyped
<1> QED
  BY <1>11, <1>15, <1>17 DEF PathInv

\* Every step keeps the invariant.
LEMMA PathNext == PathInv /\ [Next]_vars => PathInv'
<1> SUFFICES ASSUME PathInv, [Next]_vars PROVE PathInv'
  OBVIOUS
<1>1. CASE Send
  BY <1>1, SendKeeps
<1>2. CASE Produced
  BY <1>2, ProducedKeeps
<1>3. CASE ForeignBatch
  BY <1>3, ForeignBatchKeeps
<1>4. ASSUME NEW p \in Partitions, NEW i \in DOMAIN log[p], TakeRecords(p, i)
      PROVE  PathInv'
  BY <1>4, TakeRecordsKeeps
<1>5. ASSUME NEW p \in Partitions, NEW i \in DOMAIN log[p], TakeBatch(p, i)
      PROVE  PathInv'
  BY <1>5, TakeBatchKeeps
<1>6. CASE Fetch
  BY <1>6, FetchKeeps
<1>7. CASE Process
  BY <1>7, ProcessKeeps
<1>8. CASE UNCHANGED vars
  <2>1. /\ UNCHANGED <<scenario, sent, counter, sequences, request, fetcher, response>>
        /\ UNCHANGED <<written, position, delivered, foreign, log, cleaned, cleanings>>
    BY <1>8 DEF vars, producerVars, fetchVars, historyVars, consumerVars, externalVars
  <2>2. PathTyped /\ RequestOK /\ ResponseOK
    BY DEF PathInv
  <2>3. PathTyped'
    BY <2>1, <2>2 DEF PathTyped
  <2>4. RequestOK' /\ ResponseOK'
    BY <2>1, <2>2 DEF RequestOK, ResponseOK, Answer
  <2>5. \A p \in Partitions :
            /\ InLog(log[p], written[p], cleaned[p])'
            /\ Consumed(delivered[p], written[p], cleaned[p], position[p], EndOf(log[p]))'
    BY <2>1, InPart
  <2> QED
    BY <2>3, <2>4, <2>5 DEF PathInv
<1> QED
  BY <1>1, <1>2, <1>3, <1>4, <1>5, <1>6, <1>7, <1>8 DEF Next

\* The bytes of one batch are read as that batch.
LEMMA OneBatchRead ==
    ASSUME NEW bytes, Framed(bytes)
    PROVE  Len(DecodedRecordBatch(bytes)) = 1 /\ DecodedRecordBatch(bytes)[1] = Content(bytes)
<1> DEFINE one == 1
           bs == <<bytes>>
           l == Len(bytes)
           A == [i \in 0 .. one |-> IF i = 0 THEN 0 ELSE l]
<1>1. one \in Nat /\ 0 .. one = {0, 1} /\ 1 .. one = {1} /\ one = 1 /\ 1 - 1 = 0 /\ 0 # 1
  OBVIOUS
<1>2. bytes \in Seq(Byte) /\ l \in Nat /\ l >= 57
  BY DEF Framed
<1>3. bs[1] = bytes
  OBVIOUS
<1>4. A[0] = 0 /\ A[1] = l /\ A \in [0 .. one -> Nat]
  BY <1>1, <1>2
<1> HIDE DEF one, bs, A, l
<1>5. Chain(A, one, bs)
  <2>1. \A i \in 1 .. one : Framed(bs[i]) /\ A[i] = A[i - 1] + Len(bs[i])
    BY <1>1, <1>2, <1>3, <1>4 DEF l
  <2> QED
    BY <1>4, <2>1 DEF Chain
<1>6. InBuffer(bytes, A, one, bs)
  <2>1. Begins(bytes, bytes, 0)
    BY <1>2 DEF Begins
  <2>2. Len(bytes) <= A[one]
    BY <1>1, <1>2, <1>4 DEF l
  <2>3. \A i \in 1 .. one : A[i - 1] <= Len(bytes) => Begins(bs[i], bytes, A[i - 1])
    BY <1>1, <1>3, <1>4, <2>1
  <2> QED
    BY <2>2, <2>3 DEF InBuffer
<1>7. Whole(one, Len(bytes), A, one)
  <2>1. one \in 0 .. one /\ A[one] <= Len(bytes) /\ ~(one < one)
    BY <1>1, <1>2, <1>4 DEF l
  <2> QED
    BY <2>1 DEF Whole
<1>8. DecodedRecordBatch(bytes) = Contents(bs, one)
  BY <1>1, <1>2, <1>5, <1>6, <1>7, LoopReads
<1> DEFINE d == Contents(bs, one)
<1>9. d = [i \in 1 .. one |-> Content(bs[i])]
  BY DEF Contents
<1>10. d = [i \in 1 .. one |-> d[i]] /\ d[1] = Content(bytes)
  BY <1>1, <1>3, <1>9
<1> HIDE DEF d
<1>11. Len(d) = one
  BY <1>1, <1>10, Listed
<1> QED
  BY <1>1, <1>8, <1>10, <1>11 DEF d

\* An entry of a log is read as the one batch that it is.
LEMMA EachEntry ==
    ASSUME NEW l, NEW w, NEW c, InLog(l, w, c), NEW i \in DOMAIN l
    PROVE  LET decoded == DecodedRecordBatch(l[i].bytes)
           IN  /\ l[i].first < l[i].next
               /\ Len(decoded) = 1
               /\ decoded[1].supported =>
                      /\ decoded[1].baseOffset = l[i].first
                      /\ decoded[1].lastOffsetDelta = l[i].next - l[i].first - 1
<1> DEFINE decoded == DecodedRecordBatch(l[i].bytes)
           first == l[i].first
           next == l[i].next
           content == Content(l[i].bytes)
<1>1. /\ first < next /\ Framed(l[i].bytes) /\ Holds(w, c, content, first, next)
  BY DEF InLog, Batched
<1>2. Len(decoded) = 1 /\ decoded[1] = content
  BY <1>1, OneBatchRead
<1>3. content.supported => content.baseOffset = first /\ content.lastOffsetDelta = next - first - 1
  BY <1>1 DEF Holds
<1> HIDE DEF decoded, content, first, next
<1>4. Len(decoded) = 1
  BY <1>2
<1>5. decoded[1].supported =>
          decoded[1].baseOffset = first /\ decoded[1].lastOffsetDelta = next - first - 1
  BY <1>2, <1>3, Zenon
<1> QED
  BY <1>1, <1>4, <1>5, Zenon DEF decoded, first, next

\* The invariant has the types.
LEMMA PathInvType == PathInv => TypeOK
<1> SUFFICES ASSUME PathInv PROVE TypeOK
  OBVIOUS
<1>1. PathTyped /\ RequestOK /\ ResponseOK
  BY DEF PathInv
<1>2. ASSUME NEW b \in {request, response}, b # Null, NEW i \in DOMAIN b PROVE b[i] \in Byte
  <2>1. b \in Seq(Byte)
    BY <1>1, <1>2 DEF RequestOK, ResponseOK
  <2> QED
    BY <2>1
<1>3. ASSUME NEW p \in Partitions
      PROVE  /\ \A i \in DOMAIN log[p] :
                    LET decoded == DecodedRecordBatch(log[p][i].bytes)
                    IN  /\ log[p][i].first < log[p][i].next
                        /\ Len(decoded) = 1
                        /\ decoded[1].supported =>
                               /\ decoded[1].baseOffset = log[p][i].first
                               /\ decoded[1].lastOffsetDelta
                                      = log[p][i].next - log[p][i].first - 1
             /\ position[p] \in 0..End(p)
             /\ cleaned[p] \subseteq 0..End(p) - 1
  <2>1. /\ InLog(log[p], written[p], cleaned[p])
        /\ Consumed(delivered[p], written[p], cleaned[p], position[p], EndOf(log[p]))
    BY InPart
  <2>2. End(p) = EndOf(log[p])
    BY DEF End, EndOf
  <2>3. position[p] \in 0 .. End(p) /\ cleaned[p] \subseteq 0 .. End(p) - 1
    BY <2>1, <2>2 DEF InLog, Consumed
  <2> QED
    BY <2>1, <2>3, EachEntry
<1>4. /\ scenario \in Scenarios /\ sent \in 0 .. Len(scenario.sends) /\ counter \in Nat
      /\ sequences \in [Partitions -> Nat]
      /\ fetcher = IF response = Null THEN "fetching" ELSE "processing"
      /\ foreign \in 0 .. Len(scenario.foreign) /\ cleanings \in 0 .. scenario.cleanings
  BY <1>1 DEF PathTyped
<1> QED
  BY <1>2, <1>3, <1>4, Zenon DEF TypeOK

\* The invariant says what is delivered.
LEMMA PathInvDelivered == PathInv => DeliveredAsSent
<1> SUFFICES ASSUME PathInv, NEW p \in Partitions, NEW i \in DOMAIN delivered[p]
             PROVE  LET d == delivered[p][i]
                    IN  /\ d.offset \in 0..Len(written[p]) - 1
                        /\ written[p][d.offset + 1] \in {Null, d.message}
                        /\ i > 1 => delivered[p][i - 1].offset < d.offset
  BY DEF DeliveredAsSent
<1> DEFINE d == delivered[p]
           w == written[p]
<1>1. /\ Consumed(d, w, cleaned[p], position[p], EndOf(log[p]))
      /\ EndOf(log[p]) \in Nat /\ position[p] \in Nat /\ position[p] <= EndOf(log[p])
      /\ EndOf(log[p]) <= Len(w) /\ Len(w) \in Nat
  BY InPart
<1> HIDE DEF d, w
<1>2. i \in DOMAIN d /\ DOMAIN d = 1 .. Len(d) /\ Len(d) \in Nat
  BY <1>1, SequenceDomain DEF Consumed, d
<1>3. d[i].offset \in 0 .. position[p] - 1 /\ w[d[i].offset + 1] \in {Null, d[i].message}
  BY <1>1, <1>2 DEF Consumed
<1>4. d[i].offset \in 0 .. Len(w) - 1
  BY <1>1, <1>3
<1>5. ASSUME i > 1 PROVE d[i - 1].offset < d[i].offset
  <2>1. i - 1 \in DOMAIN d /\ i - 1 < i
    BY <1>2, <1>5
  <2> QED
    BY <1>1, <1>2, <2>1 DEF Consumed, Rising
<1> QED
  BY <1>3, <1>4, <1>5 DEF d, w

\* The invariant says that nothing is skipped.
LEMMA PathInvSkipped == PathInv => NothingSkipped
<1> SUFFICES ASSUME PathInv, NEW p \in Partitions, NEW o \in 0 .. position[p] - 1
             PROVE  o \in cleaned[p] \/ \E i \in DOMAIN delivered[p] : delivered[p][i].offset = o
  BY DEF NothingSkipped
<1>1. Done(delivered[p], cleaned[p], position[p])
  BY InPart DEF Consumed
<1> QED
  BY <1>1 DEF Done

(***************************************************************************)
(* PathInv is an inductive invariant: whatever is in the logs, under way   *)
(* or in a response is what the offsets of the partitions hold, byte by    *)
(* byte through the encoders and the decoders.                             *)
(***************************************************************************)
THEOREM PathIsInvariant == Spec => []PathInv
<1>1. Init => PathInv
  BY PathInit
<1>2. PathInv /\ [Next]_vars => PathInv'
  BY PathNext
<1> QED
  BY <1>1, <1>2, PTL DEF Spec

(***************************************************************************)
(* The variables have their types, and every batch of a log, decoded, has  *)
(* the offsets the broker gave it.                                         *)
(***************************************************************************)
THEOREM PathTypes == Spec => []TypeOK
<1>1. Spec => []PathInv
  BY PathIsInvariant
<1>2. PathInv => TypeOK
  BY PathInvType
<1> QED
  BY <1>1, <1>2, PTL

(***************************************************************************)
(* What onBatch is called with at an offset is what a send() put there, in *)
(* the order of the offsets and once for each, unless nothing that this    *)
(* client sent is there.                                                   *)
(***************************************************************************)
THEOREM RecordsAreDeliveredAsSent == Spec => []DeliveredAsSent
<1>1. Spec => []PathInv
  BY PathIsInvariant
<1>2. PathInv => DeliveredAsSent
  BY PathInvDelivered
<1> QED
  BY <1>1, <1>2, PTL

(***************************************************************************)
(* The position of the consumer passes no record: what is behind it was    *)
(* delivered, or the cleaner had taken it.                                 *)
(***************************************************************************)
THEOREM NoRecordIsSkipped == Spec => []NothingSkipped
<1>1. Spec => []PathInv
  BY PathIsInvariant
<1>2. PathInv => NothingSkipped
  BY PathInvSkipped
<1> QED
  BY <1>1, <1>2, PTL
=============================================================================
