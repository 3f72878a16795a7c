---------------------------- MODULE Partitioning ----------------------------
(***************************************************************************)
(* The default partitioner (src/distributors/partitioner.ts) and its hash  *)
(* (src/utils/murmur2.ts), bit by bit.                                     *)
(*                                                                         *)
(* A natural number is the set of the positions of its 1 bits, and a word, *)
(* what JavaScript's ^, >> and & return, a set of positions below 32 in    *)
(* two's complement.  The products of the source are floating point        *)
(* numbers: their magnitude is rounded to 53 significant bits before the   *)
(* next operator takes the low 32.                                         *)
(***************************************************************************)
EXTENDS MessageTypes, SequencesExt

-----------------------------------------------------------------------------
(* Numbers as sets of bits.                                                *)

\* A number below 2^31.
Bits(n) == {i \in 0..30 : (n \div 2^i) % 2 = 1}
ShiftedLeft(n, k) == {i + k : i \in n}
Xor(a, b) == (a \ b) \cup (b \ a)

\* The number of bytes, the lowest first.
Number(bytes) == UNION {ShiftedLeft(Bits(bytes[i]), 8 * (i - 1)) : i \in DOMAIN bytes}

\* a + b, for numbers below 2^64: the positions with two 1s carry.
Plus(a, b) ==
    LET sum[x \in SUBSET (0..63), y \in SUBSET (0..63)] ==
            IF x \cap y = {} THEN x \cup y
                             ELSE sum[Xor(x, y), ShiftedLeft(x \cap y, 1)]
    IN  sum[a, b]

Low(n) == n \cap 0..31
Negative(w) == 31 \in w
Negated(w) == Low(Plus((0..31) \ w, {0}))

\* The value of a word without its sign.
Value(w) == MapThenSumSet(LAMBDA i : 2^i, w \ {31})

-----------------------------------------------------------------------------
(* The arithmetic of the source.                                           *)

m == Number(<<149, 233, 209, 91>>)          \* 0x5bd1e995
seed == Number(<<140, 178, 71, 151>>)       \* 0x9747b28c

\* The exact magnitude of w * m.
Product(w) ==
    LET magnitude == IF Negative(w) THEN Negated(w) ELSE w
    IN  FoldSet(LAMBDA i, sum : Plus(sum, ShiftedLeft(magnitude, i)), {}, m)

\* A magnitude as a floating point number: to the nearest, ties to even.
Rounded(n) ==
    LET low == {i \in n : \E j \in n : j - i >= 53}
        last == Max(n) - 52
        up == /\ last - 1 \in low
              /\ last \in n \/ low # {last - 1}
    IN  IF low = {} THEN n ELSE IF up THEN Plus(n \ low, {last}) ELSE n \ low

\* The word that w * m is when the next operator converts it.
Signed(w, magnitude) == IF Negative(w) THEN Negated(magnitude) ELSE magnitude
Times(w) == Signed(w, Low(Rounded(Product(w))))

\* w >> k, which copies the sign.
ShiftedRight(w, k) ==
    {i - k : i \in w \ 0..k - 1} \cup IF Negative(w) THEN 32 - k..31 ELSE {}

\* w ^= w >> k
XorShifted(w, k) == Xor(w, ShiftedRight(w, k))

-----------------------------------------------------------------------------
(* murmur2.                                                                *)

\* A block of four bytes goes through k, then joins h.
Mixed(h, block) == Xor(Times(h), Times(XorShifted(Times(Number(block)), 24)))

\* The up to three bytes that are left: the fall-through of the switch.
Remaining(h, bytes) == IF bytes = <<>> THEN h ELSE Times(Xor(h, Number(bytes)))

Finished(h) == XorShifted(Times(XorShifted(h, 13)), 15)

murmur2(data) ==
    LET blocks == Len(data) \div 4
        mixed == FoldLeft(LAMBDA h, i : Mixed(h, SubSeq(data, 4 * i - 3, 4 * i)),
                          Xor(seed, Bits(Len(data))),
                          [i \in 1..blocks |-> i])
    IN  Finished(Remaining(mixed, SubSeq(data, 4 * blocks + 1, Len(data))))

\* & 0x7fffffff
toPositive(w) == Value(w)

-----------------------------------------------------------------------------
(* The partitioner.                                                        *)

CONSTANT PositiveRange      \* the numbers that & 0x7fffffff leaves: 2^31 in the source

ASSUME RangeAssumption == PositiveRange \in Nat \ {0}

\* & 0x7fffffff, of the counter
Wrapped(counter) == counter % PositiveRange

\* An empty key is as falsy as a missing one.
HasKey(message) == message.key \notin {Null, <<>>}
TakesTurn(message) == message.partition = Null /\ ~HasKey(message)

\* Mutant: the counter of the topic moves with every message.
PartitionCountingAll(message, counter, numPartitions) ==
    [index |-> IF message.partition # Null THEN message.partition
               ELSE IF HasKey(message)
                    THEN toPositive(murmur2(message.key)) % numPartitions
                    ELSE Wrapped(counter) % numPartitions,
     counter |-> counter + 1]

\* The partition of a message, and the counter of the topic after it.
Partition(message, counter, numPartitions) ==
    [index |-> IF message.partition # Null THEN message.partition
               ELSE IF HasKey(message)
                    THEN toPositive(murmur2(message.key)) % numPartitions
                    ELSE Wrapped(counter) % numPartitions,
     counter |-> IF TakesTurn(message) THEN counter + 1 ELSE counter]

-----------------------------------------------------------------------------
(* The hash the source names as its origin: Utils.murmur2 of the Java      *)
(* client.  Its products wrap around at 32 bits and its shifts (>>>) fill  *)
(* with zeros.                                                             *)

JavaTimes(w) == Low(FoldSet(LAMBDA i, sum : Plus(sum, ShiftedLeft(w, i)), {}, m))
JavaShiftedRight(w, k) == {i - k : i \in w \ 0..k - 1}

JavaXorShifted(w, k) == Xor(w, JavaShiftedRight(w, k))

JavaMurmur2(data) ==
    LET block(i) == JavaTimes(JavaXorShifted(JavaTimes(Number(SubSeq(data, i - 3, i))), 24))
        whole == Len(data) - (Len(data) % 4)
        h[i \in Nat] == IF i = 0 THEN Xor(seed, Bits(Len(data)))
                        ELSE Xor(JavaTimes(h[i - 4]), block(i))
        rest == Number(SubSeq(data, whole + 1, Len(data)))
        all == IF whole = Len(data) THEN h[whole] ELSE JavaTimes(Xor(h[whole], rest))
    IN  JavaXorShifted(JavaTimes(JavaXorShifted(all, 13)), 15)

JavaPartition(key, numPartitions) == toPositive(JavaMurmur2(key)) % numPartitions
=============================================================================
