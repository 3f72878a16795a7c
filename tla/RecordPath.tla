----------------------------- MODULE RecordPath -----------------------------
(***************************************************************************)
(* A record's way from producer.send() to onBatch, as bytes: the           *)
(* partition it gets (Partitioning), the batch it is put in                *)
(* (src/producer/producer.ts) and its encoding (RecordBatches), the log of *)
(* the broker, the fetch response cut at its byte limit, the decoder, and  *)
(* what Consumer.process (src/consumer/consumer.ts) makes of it.           *)
(*                                                                         *)
(* One topic whose partitions one broker leads, one send and one fetch at  *)
(* a time and no failures: those are in Producer and ConsumerOffsets.  The *)
(* broker, the cleaner of its log and the other producers are external.    *)
(***************************************************************************)
EXTENDS RecordBatches, Partitioning

CONSTANTS
    NumPartitions,
    Now,            \* the clock, for messages without a timestamp
    Scenarios       \* what happens to the topic, see ScenarioAssumption

(***************************************************************************)
(* A scenario has the sends of the program (each a sequence of messages),  *)
(* the option partitionMaxBytes, the batches of other producers (each a    *)
(* partition and the attributes of the batch) and the number of batches    *)
(* the cleaner may go through.                                             *)
(***************************************************************************)
ASSUME ScenarioAssumption ==
    /\ NumPartitions \in Nat \ {0} /\ Now \in Int
    /\ \A s \in Scenarios : /\ s.sends \in Seq(Seq(Message) \ {<<>>})
                            /\ s.partitionMaxBytes \in Nat /\ s.cleanings \in Nat
                            /\ s.foreign \in Seq([partition : 0..NumPartitions - 1,
                                                  attributes : Int])
    /\ \A p \in 0..NumPartitions - 1 : Fits(p, 4)

\* A partition that a message names is one of the topic's: for another, the
\* code finds no leader and send() rejects.
ASSUME PartitionsAssumption ==
    \A s \in Scenarios : \A i \in DOMAIN s.sends : \A j \in DOMAIN s.sends[i] :
        s.sends[i][j].partition \in {Null} \cup 0..NumPartitions - 1

VARIABLES
    scenario,
    sent,       \* how many of its sends have been made
    counter,    \* topicCounterMap[topic] of the partitioner
    sequences,  \* the producer's sequences[topic]
    request,    \* the produce request under way, or Null
    log,        \* external: the batches of each partition
    position,   \* currentOffsets[topic] of the consumer
    fetcher,    \* what Fetcher.loop awaits: fetch() or process()
    response,   \* the response in process(), or Null
    written,    \* history: what each offset holds, Null if not from send()
    turns,      \* history: how many messages the counter dealt to each partition
    emptyKeyed, \* history: how many of them have a key, an empty one
    delivered,  \* history: what onBatch was called with
    cleaned,    \* external: the offsets whose records the cleaner took
    foreign,    \* external: how many batches other producers have appended
    cleanings   \* what is left of the bound

producerVars == <<sent, counter, sequences>>
fetchVars == <<fetcher, response>>
dealtVars == <<turns, emptyKeyed>>
historyVars == <<written, dealtVars>>
consumerVars == <<position, delivered>>
externalVars == <<log, cleaned, foreign, cleanings>>
vars == <<scenario, producerVars, request, fetchVars, historyVars, consumerVars,
          externalVars>>

Partitions == 0..NumPartitions - 1
Topic == <<116>>
TopicId == [i \in 1..16 |-> i]

\* The offset after the last batch of p.
End(p) == IF log[p] = <<>> THEN 0 ELSE Last(log[p]).next

\* Every batch of a log, encoded, has the offsets the broker gave it.
TypeOK ==
    /\ scenario \in Scenarios
    /\ sent \in 0..Len(scenario.sends)
    /\ counter \in Nat
    /\ sequences \in [Partitions -> Nat]
    /\ fetcher = IF response = Null THEN "fetching" ELSE "processing"
    /\ \A b \in {request, response} : b # Null => \A i \in DOMAIN b : b[i] \in Byte
    /\ \A p \in Partitions :
           /\ \A i \in DOMAIN log[p] :
                  LET decoded == DecodedRecordBatch(log[p][i].bytes)
                  IN  /\ log[p][i].first < log[p][i].next
                      /\ Len(decoded) = 1
                      /\ decoded[1].supported =>
                             /\ decoded[1].baseOffset = log[p][i].first
                             /\ decoded[1].lastOffsetDelta
                                    = log[p][i].next - log[p][i].first - 1
           /\ position[p] \in 0..End(p)
           /\ cleaned[p] \subseteq 0..End(p) - 1
    /\ foreign \in 0..Len(scenario.foreign)
    /\ cleanings \in 0..scenario.cleanings

Init ==
    /\ scenario \in Scenarios
    /\ sent = 0 /\ counter = 0
    /\ sequences = [p \in Partitions |-> 0]
    /\ request = Null
    /\ fetcher = "fetching" /\ response = Null
    /\ log = [p \in Partitions |-> <<>>]
    /\ position = [p \in Partitions |-> 0]
    /\ written = [p \in Partitions |-> <<>>]
    /\ turns = [p \in Partitions |-> 0]
    /\ emptyKeyed = [p \in Partitions |-> 0]
    /\ delivered = [p \in Partitions |-> <<>>]
    /\ cleaned = [p \in Partitions |-> {}]
    /\ foreign = 0 /\ cleanings = scenario.cleanings

-----------------------------------------------------------------------------
(* Producer.                                                               *)

Timestamp(message) == IF message.timestamp = Null THEN Now ELSE message.timestamp

\* The message as the consumer of its partition should see it.
AsSent(message) ==
    [key |-> message.key, value |-> message.value, timestamp |-> Timestamp(message),
     headers |-> ToSet(message.headers)]

(***************************************************************************)
(* The messages of a send in their order, each with its partition and the  *)
(* counter after it.                                                       *)
(***************************************************************************)
Partitioned(messages) ==
    LET partition(i, before) == Partition(messages[i], before, NumPartitions)
        counters[i \in 0..Len(messages)] ==
            IF i = 0 THEN counter ELSE partition(i, counters[i - 1]).counter
    IN  [i \in 1..Len(messages) |->
            [index |-> partition(i, counters[i - 1]).index, counter |-> counters[i],
             message |-> messages[i]]]

\* The item or nothing: what a filter makes of one item.
When(test, item) == IF test THEN <<item>> ELSE <<>>

MessagesTo(p, placed) ==
    FlattenSeq([i \in DOMAIN placed |-> When(placed[i].index = p, placed[i].message)])

\* The lowest and the highest timestamp, except that a 0 is always replaced by
\* the one after it, as is the undefined one at the start.
BaseTimestamp(times) ==
    LET base[i \in 0..Len(times)] ==
            IF i = 0 THEN 0
            ELSE IF base[i - 1] = 0 \/ times[i] < base[i - 1] THEN times[i] ELSE base[i - 1]
    IN  base[Len(times)]
MaxTimestamp(times) == -BaseTimestamp([i \in DOMAIN times |-> -times[i]])

Record(message, base, index) ==
    [timestampDelta |-> Timestamp(message) - base, offsetDelta |-> index,
     key |-> message.key, value |-> message.value, headers |-> message.headers]

\* Mutant: the count of the messages after the first is one short.
LastOffsetDeltaShort(messages) == Len(messages) - 2

LastOffsetDelta(messages) == Len(messages) - 1

Batch(p, messages) ==
    LET times == [i \in DOMAIN messages |-> Timestamp(messages[i])]
        base == BaseTimestamp(times)
    IN  [index |-> p, baseOffset |-> 0, partitionLeaderEpoch |-> -1, attributes |-> 0,
         lastOffsetDelta |-> LastOffsetDelta(messages),
         baseTimestamp |-> base, maxTimestamp |-> MaxTimestamp(times),
         producerId |-> 1, producerEpoch |-> 0, baseSequence |-> sequences[p],
         records |-> [i \in DOMAIN messages |-> Record(messages[i], base, i - 1)]]

\* External: a batch more has an offset that its 8 bytes hold.
Room(p) == Fits(End(p), 8)

\* The batches for messages that have their partitions, in the order of these.
BatchesOf(placed) ==
    FlattenSeq([i \in 1..NumPartitions |->
        When(MessagesTo(i - 1, placed) # <<>>, Batch(i - 1, MessagesTo(i - 1, placed)))])

\* The messages that the counter deals to p.
DealtTo(p, placed) ==
    {i \in DOMAIN placed : placed[i].index = p /\ TakesTurn(placed[i].message)}

\* The request for them, which the encoder can write.
Requested(placed) ==
    LET batches == BatchesOf(placed)
    IN  /\ \A i \in DOMAIN batches : Writable(batches[i]) /\ Room(batches[i].index)
        /\ counter' = Last(placed).counter
        /\ turns' = [p \in Partitions |-> turns[p] + Cardinality(DealtTo(p, placed))]
        /\ emptyKeyed' = [p \in Partitions |->
               emptyKeyed[p] + Cardinality({i \in DealtTo(p, placed) :
                                                placed[i].message.key = <<>>})]
        /\ request' = ProduceRequest(-1, Topic, batches)
        /\ written' = [p \in Partitions |->
               written[p] \o [i \in DOMAIN MessagesTo(p, placed) |->
                                 AsSent(MessagesTo(p, placed)[i])]]

\* producer.send() up to its request.
Send ==
    /\ request = Null
    /\ sent < Len(scenario.sends)
    /\ sent' = sent + 1
    /\ Requested(Partitioned(scenario.sends[sent + 1]))
    /\ UNCHANGED <<scenario, sequences, fetchVars, consumerVars, externalVars>>

-----------------------------------------------------------------------------
(* External: the broker.                                                   *)

\* A produce request, as the protocol defines it: its only topic's partitions.
ProducedRecords(b, o) == ReadBytes(ReadUVarInt(b, o).value - 1, b, ReadUVarInt(b, o).at)
ProducedPartition(b, o) ==
    ReadFields(<<<<"tag", "tags">>>>, b,
        ReadPart("bytes", [at \in Nat |-> ProducedRecords(b, at)],
            ReadFields(<<<<"index", "int32">>>>, b, Empty(o))))
ProducedTopic(b, o) ==
    ReadCompactArray(b, ReadCompactString(b, o).at, [at \in Nat |-> ProducedPartition(b, at)])
Produces(b) ==
    ReadCompactArray(b,
        ReadFields(<<<<"tag", "tags">>, <<"transactionalId", "compactString">>,
                     <<"acks", "int16">>, <<"timeoutMs", "int32">>>>, b, Empty(0)).at,
        [at \in Nat |-> ProducedTopic(b, at)]).value[1]

\* The fields of a batch, after some others.
WithHeader(fields, bytes) ==
    ReadFields(BatchFields, SubSeq(bytes, 13, Len(bytes)), [value |-> fields, at |-> 0]).value
BatchHeader(bytes) == WithHeader(<<>>, bytes)

\* A batch in the log: the broker writes the offset over the first 8 bytes.
Entry(first, bytes) ==
    [first |-> first, next |-> first + BatchHeader(bytes).lastOffsetDelta + 1,
     bytes |-> Int64(first) \o SubSeq(bytes, 9, Len(bytes))]

Answered == request # Null /\ request' = Null

\* The batches are appended, the response advances the sequences.
Appended(parts) ==
    LET bytes(p) == (CHOOSE part \in ToSet(parts) : part.index = p).bytes
        to == {parts[i].index : i \in DOMAIN parts}
    IN  /\ log' = [p \in Partitions |->
               IF p \in to THEN Append(log[p], Entry(End(p), bytes(p))) ELSE log[p]]
        /\ sequences' = [p \in Partitions |->
               IF p \in to THEN sequences[p] + BatchHeader(bytes(p)).lastOffsetDelta + 1
                           ELSE sequences[p]]

Produced ==
    /\ Answered
    /\ Appended(Produces(request))
    /\ UNCHANGED <<scenario, sent, counter, fetchVars, historyVars, consumerVars,
                   cleaned, foreign, cleanings>>

\* Another producer appends a batch of one record: a marker of a transaction,
\* a record of an aborted one, or a compressed record, by its attributes.
ForeignBatch ==
    /\ request = Null
    /\ foreign < Len(scenario.foreign)
    /\ LET f == scenario.foreign[foreign + 1]
           record == [timestampDelta |-> 0, offsetDelta |-> 0, key |-> <<0, 0, 0, 1>>,
                      value |-> <<0, 0, 0, 0, 0, 0>>, headers |-> <<>>]
           batch == [Batch(f.partition, <<>>) EXCEPT
                         !.attributes = f.attributes, !.lastOffsetDelta = 0,
                         !.baseTimestamp = Now, !.maxTimestamp = Now,
                         !.producerId = 2, !.records = <<record>>]
       IN  /\ Writable(batch) /\ Room(f.partition)
           /\ log' = [log EXCEPT ![f.partition] =
                          Append(@, Entry(End(f.partition), EncodedBatch(batch)))]
           /\ written' = [written EXCEPT ![f.partition] = Append(@, Null)]
    /\ foreign' = foreign + 1
    /\ UNCHANGED <<scenario, producerVars, request, fetchVars, dealtVars, consumerVars,
                   cleaned, cleanings>>

CleanedEntry(p, i) ==
    /\ cleanings > 0
    /\ cleanings' = cleanings - 1
    /\ cleaned' = [cleaned EXCEPT ![p] = @ \cup (log[p][i].first .. log[p][i].next - 1)]
    /\ UNCHANGED <<scenario, producerVars, request, fetchVars, historyVars,
                   consumerVars, foreign>>

\* The cleaner takes the records of a batch: of the last batch of a producer
\* it keeps the header, which holds the producer's sequence ...
TakeRecords(p, i) ==
    /\ CleanedEntry(p, i)
    /\ LET emptied == WithHeader([baseOffset |-> log[p][i].first, records |-> <<>>],
                                 log[p][i].bytes)
       IN  /\ Writable(emptied)
           /\ log' = [log EXCEPT ![p][i].bytes = EncodedBatch(emptied)]

\* ... and any other it removes, which leaves a gap in the offsets.
TakeBatch(p, i) ==
    /\ i < Len(log[p])
    /\ CleanedEntry(p, i)
    /\ log' = [log EXCEPT ![p] = RemoveAt(@, i)]

\* The batches a fetch from the position is about.
Behind(p) ==
    FlattenSeq([i \in DOMAIN log[p] |-> When(log[p][i].next > position[p], log[p][i])])

(***************************************************************************)
(* The bytes of p in a response: as many as partitionMaxBytes allows, the  *)
(* last batch cut off, but the first batch of the response whole.          *)
(***************************************************************************)
FetchedBytes(p) ==
    LET bytes == FlattenSeq([i \in DOMAIN Behind(p) |-> Behind(p)[i].bytes])
        leads == Behind(p) # <<>> /\ \A q \in 0..p - 1 : Behind(q) = <<>>
        whole == IF leads THEN Len(Behind(p)[1].bytes) ELSE 0
        limit == scenario.partitionMaxBytes
    IN  Subarray(bytes, 0, IF whole > limit THEN whole ELSE limit)

ResponseBytes ==
    LET partition(p) == Int32(p) \o Int16(0) \o Int64(End(p)) \o Int64(End(p)) \o Int64(0)
                        \o UVarInt(0) \o Int32(-1)
                        \o UVarInt(Len(FetchedBytes(p)) + 1) \o FetchedBytes(p) \o UVarInt(0)
    IN  UVarInt(0) \o Int32(0) \o Int16(0) \o Int32(0)
        \o CompactArray(<<TopicId
               \o CompactArray([i \in 1..NumPartitions |-> partition(i - 1)])
               \o UVarInt(0)>>)
        \o UVarInt(0)

-----------------------------------------------------------------------------
(* Consumer.                                                               *)

\* The two halves of Fetcher.loop.
FetchResolves == fetcher = "fetching" /\ fetcher' = "processing"
ProcessSettles == fetcher = "processing" /\ fetcher' = "fetching" /\ response' = Null

\* The fetcher asks for all its partitions, from the current offsets.
Fetch ==
    /\ FetchResolves
    /\ response' = ResponseBytes
    /\ UNCHANGED <<scenario, producerVars, request, historyVars, consumerVars,
                   externalVars>>

\* What process() makes of a record.
Received(batch, record) ==
    [offset |-> batch.baseOffset + record.offsetDelta,
     message |-> [key |-> record.key, value |-> record.value,
                  timestamp |-> batch.baseTimestamp + record.timestampDelta,
                  headers |-> {<<h.key, h.value>> : h \in ToSet(record.headers)}]]

\* The messages process() makes of the batches of a partition.
Messages(batches) ==
    FlattenSeq([i \in DOMAIN batches |->
        [j \in DOMAIN batches[i].records |-> Received(batches[i], batches[i].records[j])]])

\* Those that are not resolved, for the position of the partition.
Unresolved(messages, from) ==
    FlattenSeq([i \in DOMAIN messages |-> When(messages[i].offset >= from, messages[i])])

\* The batches of a partition of the response.
Batches(p, partitions) ==
    (CHOOSE part \in ToSet(partitions) : part.partitionIndex = p).records

Unsupported(partitions) ==
    \E part \in ToSet(partitions) : \E batch \in ToSet(part.records) : ~batch.supported

\* The decoder throws: the consumer restarts, from the offsets it committed.
Rejected(partitions) ==
    /\ Unsupported(partitions)
    /\ UNCHANGED consumerVars

\* Mutant: the position is the offset after the next one.
ResolvedAndNext(batches) == Last(batches).baseOffset + Last(batches).lastOffsetDelta + 2

\* The offset after the last batch of a partition: what process() resolves
\* last, whatever the records of the batch.
Resolved(batches) == Last(batches).baseOffset + Last(batches).lastOffsetDelta + 1

\* A response without any message is left alone, position and all.
NoMessages(partitions) ==
    /\ ~Unsupported(partitions)
    /\ \A p \in Partitions : Messages(Batches(p, partitions)) = <<>>
    /\ UNCHANGED consumerVars

\* onBatch gets the messages from the position on, which then moves.
Handled(partitions) ==
    /\ ~Unsupported(partitions)
    /\ \E p \in Partitions : Messages(Batches(p, partitions)) # <<>>
    /\ delivered' = [p \in Partitions |->
           delivered[p] \o Unresolved(Messages(Batches(p, partitions)), position[p])]
    /\ position' = [p \in Partitions |->
           IF Batches(p, partitions) = <<>> THEN position[p]
                                            ELSE Resolved(Batches(p, partitions))]

Settled(partitions) ==
    Rejected(partitions) \/ NoMessages(partitions) \/ Handled(partitions)

\* process() of the response, which holds one topic.
Process ==
    /\ ProcessSettles
    /\ Settled(FetchResponse(response)[1].partitions)
    /\ UNCHANGED <<scenario, producerVars, request, historyVars, externalVars>>

-----------------------------------------------------------------------------
Next ==
    \/ Send \/ Produced \/ ForeignBatch
    \/ \E p \in Partitions : \E i \in DOMAIN log[p] : TakeRecords(p, i) \/ TakeBatch(p, i)
    \/ Fetch \/ Process

(***************************************************************************)
(* The fetcher loops without a condition but close(), and a request is     *)
(* answered: no failures happen here.  Nobody has to send or to clean.     *)
(***************************************************************************)
Fairness ==
    /\ WF_request(Answered)
    /\ WF_fetcher(FetchResolves)
    /\ WF_fetcher(ProcessSettles)

Spec == Init /\ [][Next]_vars /\ Fairness

-----------------------------------------------------------------------------
(***************************************************************************)
(* What onBatch is called with at an offset is what a send() put there:    *)
(* key, value, headers and timestamp, null and empty told apart, the       *)
(* timestamp through a base that producer.ts may pick wrong (78).  It is   *)
(* called in the order of the offsets and once for each.  The exceptions   *)
(* are records no send() of this client wrote: markers of transactions and *)
(* aborted records, which fetch.ts decodes (148) and nobody filters.       *)
(***************************************************************************)
DeliveredAsSent ==
    \A p \in Partitions : \A i \in DOMAIN delivered[p] :
        LET d == delivered[p][i]
        IN  /\ d.offset \in 0..Len(written[p]) - 1
            /\ written[p][d.offset + 1] \in {Null, d.message}
            /\ i > 1 => delivered[p][i - 1].offset < d.offset

(***************************************************************************)
(* The position passes no record: one behind it was delivered, or the log  *)
(* cleaner had taken it, although batches are cut, emptied and missing     *)
(* (consumer.ts:262 moves by whole batches, fetch.ts:129 drops a cut one). *)
(***************************************************************************)
NothingSkipped ==
    \A p \in Partitions : \A o \in 0..position[p] - 1 :
        o \in cleaned[p] \/ \E i \in DOMAIN delivered[p] : delivered[p][i].offset = o

(***************************************************************************)
(* README.md:105: messages are partitioned "round-robin if the key is null *)
(* or undefined".  Messages without a key are spread evenly, whatever      *)
(* messages with keys or partitions and however many sends lie between     *)
(* them (partitioner.ts:12), but for two things.  A message with an empty  *)
(* key, which README.md:105 has partitioned by it, takes a turn too (22):  *)
(* a partition is behind by those it got.  And each time the counter has   *)
(* used up the numbers that toPositive() leaves, it may start again at the *)
(* first partition out of turn.                                            *)
(***************************************************************************)
KeylessSpread ==
    LET keyless(p) == turns[p] - emptyKeyed[p]
    IN  \A p, q \in Partitions :
            keyless(p) - keyless(q) <= 1 + emptyKeyed[q] + counter \div PositiveRange

CaughtUp ==
    \A p \in Partitions : \A o \in 0..End(p) - 1 :
        o \in cleaned[p] \/ \E i \in DOMAIN delivered[p] : delivered[p][i].offset = o

\* A batch without records is next in some partition (consumer.ts:238), or one
\* that the decoder throws for is to come.
Blocked ==
    \E p \in Partitions :
        /\ Behind(p) # <<>>
        /\ \/ (Behind(p)[1].first .. Behind(p)[1].next - 1) \subseteq cleaned[p]
           \/ \E i \in DOMAIN Behind(p) : BatchHeader(Behind(p)[i].bytes).attributes % 8 # 0

(***************************************************************************)
(* The consumer comes to deliver every record, however small the limit on  *)
(* bytes, unless it is blocked for good: a response whose batches hold no  *)
(* records does not move the position, so that the same fetch is made      *)
(* again for ever, and an unsupported batch fails every fetch of all the   *)
(* partitions that it is asked for with.                                   *)
(***************************************************************************)
Progress == <>[](CaughtUp \/ Blocked)

(***************************************************************************)
(* README.md:178: "By default, it uses a default java-compatible           *)
(* partitioner", and 105: "messages are partitioned by message key or      *)
(* round-robin if the key is null or undefined".  A message with a key, be *)
(* it empty, and no partition is in the partition that the partitioner of  *)
(* the Java client chooses for the key.                                    *)
(***************************************************************************)
KeyedPartitionIsJavas ==
    \A i \in 1..sent : \A j \in DOMAIN scenario.sends[i] :
        LET message == scenario.sends[i][j]
            java == JavaPartition(message.key, NumPartitions)
        IN  (message.partition = Null /\ message.key # Null) =>
                AsSent(message) \in ToSet(written[java])
=============================================================================
