-------------------------------- MODULE Wire --------------------------------
(***************************************************************************)
(* The primitive types of the Kafka protocol as src/utils/encoder.ts       *)
(* writes them and src/utils/decoder.ts reads them.  A buffer is a         *)
(* sequence of bytes and a string the sequence of its UTF-8 bytes.         *)
(*                                                                         *)
(* A writer returns bytes.  A reader takes a buffer b and the decoder's    *)
(* offset o (which counts from 0) and returns [value, at]: what was read   *)
(* and the offset after it.  A callback is a function of the offset at     *)
(* which it reads, or of the bytes it gets a decoder for.                  *)
(*                                                                         *)
(* Every integer here is far from the width of its type, so the shifts and *)
(* masks of the source are written as the arithmetic they do below 2^30: a *)
(* floored division drops low bits of a two's complement number, and % 256 *)
(* keeps them.                                                             *)
(***************************************************************************)
EXTENDS MessageTypes, SequencesExt

-----------------------------------------------------------------------------
(* Encoder.                                                                *)

\* v without its lowest i bytes.
Above(v, n) ==
    LET above[i \in 0..n - 1] == IF i = 0 THEN v ELSE above[i - 1] \div 256 IN above

\* The n bytes of v, most significant first.
BigEndian(v, n) == LET above == Above(v, n) IN [i \in 1..n |-> above[n - i] % 256]

\* The numbers that n bytes can hold: for any other the encoder throws.
Fits(v, n) == Above(v, n)[n - 1] \in -128..127

Int8(v)  == BigEndian(v, 1)
Int16(v) == BigEndian(v, 2)
Int32(v) == BigEndian(v, 4)
Int64(v) == BigEndian(v, 8)

\* Seven bits at a time, the lowest first; all but the last are marked.
UVarInt(v) ==
    LET groups[u \in 0..v] == IF u < 128 THEN <<u>>
                             ELSE <<128 + (u % 128)>> \o groups[u \div 128]
    IN  groups[v]

\* (value << 1) ^ (value >> 31): small numbers of either sign stay small.
ZigZag(v) == IF v < 0 THEN -2 * v - 1 ELSE 2 * v
VarInt(v) == UVarInt(ZigZag(v))
VarLong(v) == UVarInt(ZigZag(v))

CompactString(s) == IF s = Null THEN UVarInt(0) ELSE UVarInt(Len(s) + 1) \o s

\* Mutant: a missing string is written like an empty one.
VarIntStringOrEmpty(s) == IF s = Null THEN VarInt(0) ELSE VarInt(Len(s)) \o s

VarIntString(s) == IF s = Null THEN VarInt(-1) ELSE VarInt(Len(s)) \o s

\* The arrays, of the encodings of their items.
Array(items) == Int32(Len(items)) \o FlattenSeq(items)
CompactArray(items) == UVarInt(Len(items) + 1) \o FlattenSeq(items)
VarIntArray(items) == VarInt(Len(items)) \o FlattenSeq(items)

\* Bytes after their length.
Bytes(b) == Int32(Len(b)) \o b
CompactBytes(b) == UVarInt(Len(b) + 1) \o b
VarIntBytes(b) == VarInt(Len(b)) \o b

-----------------------------------------------------------------------------
(* Decoder.                                                                *)

\* buffer.subarray(from, to): cut off at the end of the buffer.
Subarray(b, from, to) == SubSeq(b, from + 1, IF to < Len(b) THEN to ELSE Len(b))

\* Mutant: the last byte cannot be read.
CanReadBytesBefore(b, o, n) == Len(b) - o > n

CanReadBytes(b, o, n) == Len(b) - o >= n

\* read(length): the offset moves by what there was.
ReadBytes(n, b, o) ==
    LET value == Subarray(b, o, o + n) IN [value |-> value, at |-> o + Len(value)]

\* An n-byte two's complement number.
ReadInt(n, b, o) ==
    LET number[i \in 0..n] ==
            IF i = 0 THEN IF b[o + 1] >= 128 THEN -1 ELSE 0
                     ELSE 256 * number[i - 1] + b[o + i]
    IN  [value |-> number[n], at |-> o + n]

\* Past the end a byte is undefined, whose bits are all 0.
ReadUVarInt(b, o) ==
    LET byte(i) == IF i < Len(b) THEN b[i + 1] ELSE 0
        rest[i \in Nat] ==
            IF byte(i) < 128 THEN [value |-> byte(i), at |-> i + 1]
            ELSE LET more == rest[i + 1]
                 IN  [value |-> (byte(i) % 128) + 128 * more.value, at |-> more.at]
    IN  rest[o]

ReadVarInt(b, o) ==
    LET u == ReadUVarInt(b, o)
    IN  [u EXCEPT !.value = IF @ % 2 = 0 THEN @ \div 2 ELSE -((@ + 1) \div 2)]

\* The text after a length that has been read: null if that is negative.
ReadText(length, b) ==
    IF length.value < 0 THEN [value |-> Null, at |-> length.at]
                        ELSE ReadBytes(length.value, b, length.at)

Decremented(u) == [u EXCEPT !.value = @ - 1]
ReadCompactString(b, o) == ReadText(Decremented(ReadUVarInt(b, o)), b)
ReadVarIntString(b, o) == ReadText(ReadVarInt(b, o), b)

\* One more item, or one more named part, after what has been read.
WithItem(done, item) == [value |-> Append(done.value, item.value), at |-> item.at]
With(done, name, part) ==
    [value |-> [field \in DOMAIN done.value \cup {name} |->
                   IF field = name THEN part.value ELSE done.value[field]],
     at |-> part.at]
Empty(o) == [value |-> <<>>, at |-> o]

\* The items after a count that has been read, one after the other.
ReadItems(count, item) ==
    LET next(done) == WithItem(done, item[done.at])
        items[i \in 0..count.value] == IF i = 0 THEN Empty(count.at) ELSE next(items[i - 1])
    IN  IF count.value <= 0 THEN Empty(count.at) ELSE items[count.value]

ReadArray(b, o, item) == ReadItems(ReadInt(4, b, o), item)
ReadCompactArray(b, o, item) == ReadItems(Decremented(ReadUVarInt(b, o)), item)
ReadVarIntArray(b, o, item) == ReadItems(ReadVarInt(b, o), item)

\* A record in the bytes that its size says: none if that is 0.
Sized(size, b, record) ==
    IF size.value = 0 THEN Empty(size.at)
    ELSE [value |-> <<record[ReadBytes(size.value, b, size.at).value]>>,
          at |-> size.at + size.value]

\* readRecords: each record has a decoder of its own, and none is filtered out.
ReadRecords(b, o, record) ==
    FlattenSeq(
        ReadArray(b, o, [at \in Nat |-> Sized(ReadVarInt(b, at), b, record)]).value)

\* A primitive type by its name.
Read(type, b, o) ==
    CASE type = "int8"  -> ReadInt(1, b, o)
      [] type = "int16" -> ReadInt(2, b, o)
      [] type = "int32" -> ReadInt(4, b, o)
      [] type = "int64" -> ReadInt(8, b, o)
      [] type = "uuid"  -> ReadBytes(16, b, o)
      [] type = "tags"  -> ReadUVarInt(b, o)
      [] type \in {"varint", "varlong"} -> ReadVarInt(b, o)
      [] type = "varintString"  -> ReadVarIntString(b, o)
      [] type = "compactString" -> ReadCompactString(b, o)

\* The fields of a structure, each a name and a type, after what has been read,
\* and a part that a callback reads.
ReadFields(fields, b, before) ==
    LET next(done, field) == With(done, field[1], Read(field[2], b, done.at))
        read[i \in 0..Len(fields)] ==
            IF i = 0 THEN before ELSE next(read[i - 1], fields[i])
    IN  read[Len(fields)]

ReadPart(name, part, before) == With(before, name, part[before.at])
=============================================================================
