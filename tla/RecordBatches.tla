--------------------------- MODULE RecordBatches ---------------------------
(***************************************************************************)
(* How records travel: the produce request (src/api/produce.ts) and the    *)
(* fetch response (src/api/fetch.ts) as bytes.  The writer and the reader  *)
(* of a record batch are two pieces of code that have to agree on every    *)
(* field, here as there.                                                   *)
(***************************************************************************)
EXTENDS Wire

-----------------------------------------------------------------------------
(* PRODUCE.request.                                                        *)

\* The checksum of a batch: some function of the bytes it covers.  Its values
\* are small enough for a signed field to hold the unsigned number.
Crc32C(bytes) ==
    LET sum[i \in 0..Len(bytes)] == IF i = 0 THEN 0 ELSE (sum[i - 1] + bytes[i]) % 65536
    IN  sum[Len(bytes)]

\* headers is a sequence of pairs, a key and a value.
EncodedHeader(pair) == VarIntString(pair[1]) \o VarIntString(pair[2])

RecordBody(record) ==
    Int8(0)
    \o VarLong(record.timestampDelta)
    \o VarInt(record.offsetDelta)
    \o VarIntString(record.key)
    \o VarIntString(record.value)
    \o VarIntArray([i \in DOMAIN record.headers |-> EncodedHeader(record.headers[i])])

EncodedRecord(record) == VarIntBytes(RecordBody(record))

BatchBody(batch) ==
    Int16(batch.attributes)
    \o Int32(batch.lastOffsetDelta)
    \o Int64(batch.baseTimestamp)
    \o Int64(batch.maxTimestamp)
    \o Int64(batch.producerId)
    \o Int16(batch.producerEpoch)
    \o Int32(batch.baseSequence)
    \o Array([i \in DOMAIN batch.records |-> EncodedRecord(batch.records[i])])

\* What the length of the batch counts: epoch, magic byte, checksum and body.
Checked(epoch, body) == Int32(epoch) \o Int8(2) \o Int32(Crc32C(body)) \o body

EncodedBatch(batch) ==
    Int64(batch.baseOffset)
    \o Bytes(Checked(batch.partitionLeaderEpoch, BatchBody(batch)))

\* The encoder does not throw for the numbers of the batch.
Writable(batch) ==
    /\ Fits(batch.baseOffset, 8) /\ Fits(batch.attributes, 2) /\ Fits(batch.lastOffsetDelta, 4)
    /\ Fits(batch.baseTimestamp, 8) /\ Fits(batch.maxTimestamp, 8)
    /\ Fits(batch.producerId, 8) /\ Fits(batch.baseSequence, 4)
    /\ Fits(Len(batch.records), 4)
    /\ Fits(Len(Checked(batch.partitionLeaderEpoch, BatchBody(batch))), 4)

EncodedPartition(batch) ==
    Int32(batch.index) \o CompactBytes(EncodedBatch(batch)) \o UVarInt(0)

\* The request for the batches of one topic.
ProduceRequest(acks, topic, batches) ==
    UVarInt(0) \o CompactString(Null) \o Int16(acks) \o Int32(30000)
    \o CompactArray(<<CompactString(topic)
                      \o CompactArray([i \in DOMAIN batches |-> EncodedPartition(batches[i])])
                      \o UVarInt(0)>>)
    \o UVarInt(0)

-----------------------------------------------------------------------------
(* FETCH.response.                                                         *)

HeaderFields == <<<<"key", "varintString">>, <<"value", "varintString">>>>

RecordFields ==
    <<<<"attributes", "int8">>, <<"timestampDelta", "varlong">>,
      <<"offsetDelta", "varint">>, <<"key", "varintString">>,
      <<"value", "varintString">>>>

BatchFields ==
    <<<<"partitionLeaderEpoch", "int32">>, <<"magic", "int8">>, <<"crc", "int32">>,
      <<"attributes", "int16">>, <<"lastOffsetDelta", "int32">>,
      <<"baseTimestamp", "int64">>, <<"maxTimestamp", "int64">>,
      <<"producerId", "int64">>, <<"producerEpoch", "int16">>,
      <<"baseSequence", "int32">>>>

DecodedHeader(b, o) == ReadFields(HeaderFields, b, Empty(o))
DecodedHeaders(b, o) == ReadVarIntArray(b, o, [at \in Nat |-> DecodedHeader(b, at)])
DecodedRecord(b) ==
    ReadPart("headers", [at \in Nat |-> DecodedHeaders(b, at)],
             ReadFields(RecordFields, b, Empty(0))).value

\* An unsupported magic byte or compression, for which the code throws.
Supported(fields) == fields.magic = 2 /\ fields.attributes % 8 = 0

\* The batch with these fields, those that the consumer uses; of one the code
\* throws for, only that it is.
BatchOf(fields, baseOffset, b) ==
    IF ~Supported(fields.value) THEN [supported |-> FALSE]
    ELSE [supported |-> TRUE, baseOffset |-> baseOffset,
          lastOffsetDelta |-> fields.value.lastOffsetDelta,
          baseTimestamp |-> fields.value.baseTimestamp,
          records |-> ReadRecords(b, fields.at, [bytes \in Seq(Byte) |-> DecodedRecord(bytes)])]

DecodedBatch(baseOffset, b) == BatchOf(ReadFields(BatchFields, b, Empty(0)), baseOffset, b)

\* One turn of the loop of decodeRecordBatch, after what has been read: a batch
\* that the limit on bytes has cut off is read to the end of the buffer.
NextBatch(b, done) ==
    LET base == ReadInt(8, b, done.at)
        length == ReadInt(4, b, base.at)
        next == length.at + length.value
    IN  IF ~CanReadBytes(b, done.at, 12) THEN done
        ELSE IF length.value = 0 THEN [done EXCEPT !.at = length.at]
        ELSE IF ~CanReadBytes(b, length.at, length.value) THEN [done EXCEPT !.at = Len(b)]
        ELSE WithItem(done, [value |-> DecodedBatch(base.value, Subarray(b, length.at, next)),
                             at |-> next])

\* decodeRecordBatch: the batches of a partition.  Each takes 12 bytes or more,
\* which bounds the turns.
DecodedRecordBatch(b) ==
    LET turns[i \in 0..Len(b) \div 12] ==
            IF i = 0 THEN Empty(0) ELSE NextBatch(b, turns[i - 1])
    IN  turns[Len(b) \div 12].value

ReadRecordBatches(b, o) ==
    LET size == Decremented(ReadUVarInt(b, o))
        bytes == ReadBytes(size.value, b, size.at)
    IN  IF size.value <= 0 THEN Empty(size.at)
        ELSE [value |-> DecodedRecordBatch(bytes.value), at |-> bytes.at]

AbortedFields == <<<<"producerId", "int64">>, <<"firstOffset", "int64">>, <<"tag", "tags">>>>
Aborted(b, o) == ReadFields(AbortedFields, b, Empty(o))
AbortedTransactions(b, o) == ReadCompactArray(b, o, [at \in Nat |-> Aborted(b, at)])

PartitionFields ==
    <<<<"partitionIndex", "int32">>, <<"errorCode", "int16">>,
      <<"highWatermark", "int64">>, <<"lastStableOffset", "int64">>,
      <<"logStartOffset", "int64">>>>

FetchedPartition(b, o) ==
    LET fields == ReadFields(PartitionFields, b, Empty(o))
        aborted == ReadPart("abortedTransactions",
                            [at \in Nat |-> AbortedTransactions(b, at)], fields)
        replica == ReadFields(<<<<"preferredReadReplica", "int32">>>>, b, aborted)
        records == ReadPart("records", [at \in Nat |-> ReadRecordBatches(b, at)], replica)
    IN  ReadFields(<<<<"tag", "tags">>>>, b, records)

FetchedPartitions(b, o) ==
    ReadCompactArray(b, o, [at \in Nat |-> FetchedPartition(b, at)])

FetchedTopic(b, o) ==
    LET id == ReadFields(<<<<"topicId", "uuid">>>>, b, Empty(o))
        partitions == ReadPart("partitions", [at \in Nat |-> FetchedPartitions(b, at)], id)
    IN  ReadFields(<<<<"tag", "tags">>>>, b, partitions)

\* The topics of the response in the buffer b.
FetchResponse(b) ==
    ReadCompactArray(b,
        ReadFields(<<<<"tag", "tags">>, <<"throttleTimeMs", "int32">>,
                     <<"errorCode", "int16">>, <<"sessionId", "int32">>>>, b, Empty(0)).at,
        [at \in Nat |-> FetchedTopic(b, at)]).value
=============================================================================
