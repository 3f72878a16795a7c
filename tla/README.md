# KafkaTS in TLA+

Specifications of the client in `src/src/`: a Kafka client for Node.js with an
idempotent producer and a group consumer. Everything in it runs on one
JavaScript thread, so what stands between two `await`s is atomic; all its
difficulty lies in what happens at the `await`s: other calls, timers, socket
events, failures and the brokers' own steps.

Every module models code from `src/src/`; the brokers, the group coordinator and
TCP are not part of the repository and are modelled from how the code uses them
(marked *external* in the modules). `PROJECT.json` maps each definition to its
lines, and lists the runs, the mutants, the hazards and the theorems.

## Inventory

| Component | State it keeps | Operations | What is hard about it |
|---|---|---|---|
| `utils/lock.ts` | `locks`, listeners per key | `acquire(keys, callback)`, release, 60 s timer | several keys taken one by one, a release wakes all waiters, a timer releases what another call holds |
| `utils/shared.ts` | one promise | the shared call | everybody shares one outcome, or one promise that never settles |
| `producer/producer.ts` | `producerId`, `sequences`, a metadata cache, locks per topic and node | `send`, `initProducerId`, `close` | concurrent sends share id, sequences and connections; lost responses; moving leaders; one send reconnects under the others |
| `connection.ts` | socket, `queue` by correlation id, `chunks`, listeners, a timer per request | `connect`, `disconnect`, `sendRequest`, `handleData`, socket events | responses that are late, split or missing; a socket replaced while requests wait |
| `broker.ts`, `cluster.ts` | `seedBroker`, `brokerById`, `brokerMetadata` | `connect`, `ensureConnected`, `disconnect`, `setSeedBroker`, `sendRequestToNode` | overlapping calls read the table before an `await` and write it after |
| `consumer/consumer.ts`, `fetch-manager.ts`, `fetcher.ts` | `stopHook`, the current `FetchManager`, `isRunning` per fetcher | `start`, `close`, the loop, `process` | errors of several fetchers, restart, rebalance and `close()` in any order |
| `consumer/offset-manager.ts` | `currentOffsets`, `pendingOffsets` | `resolve`, `isResolved`, `flush`, `fetchOffsets` | failed batches, failed commits, rejoins and crashes between resolving, committing and flushing |
| `consumer/consumer-group.ts` | `memberId`, `generationId`, heartbeat timer and error | `init`, `join`, `offsetCommit`, `heartbeat`, `leaveGroup` | heartbeats of an old generation, the leader's assignment, lost answers |
| `metadata.ts`, `consumer-metadata.ts` | topics, leaders, the assignment | `fetchMetadata`, `fetchMetadataIfNecessary`, `setAssignment` | staleness |
| `distributors/`, `utils/murmur2.ts`, `utils/retrier.ts` | a counter per topic | partition choice, grouping by leader, retries | 32-bit operators on floating point products, falsy keys, attempt counts |
| `utils/encoder.ts`, `utils/decoder.ts`, `api/` | a buffer and a cursor | field lists per API | varints, zig-zag, truncated, empty and unsupported batches |
| `auth/`, `codecs/`, `consumer/processor.ts`, `client.ts`, logging, tracing | nothing that outlives a call | | not modelled, see below |

How they interact: `Client` gives every producer and every consumer a `Cluster`
of its own. A producer calls `cluster.ensureConnected`, its `Lock`, its
`Metadata` and `cluster.sendRequestToNode`. A consumer calls `cluster.connect`,
fetches metadata and start offsets, lets its `ConsumerGroup` find the coordinator
and make it the seed broker, and runs one `Fetcher` per leader node. Each
fetcher calls back into `Consumer.fetch` and `Consumer.process`, which use
`OffsetManager` and `ConsumerGroup.offsetCommit`. Heartbeats come from a timer,
and reach the loop as an error that the next `fetch` or `process` throws.

What makes each of them correct:

- Lock: exclusion per key, no lost wakeup, nothing stays locked for ever.
- Producer: an acknowledged batch is in the log; sequence numbers have no gaps;
  every `send` settles.
- Connection: a response reaches its own request; framing survives chunking and
  reconnects; every request settles, once.
- Cluster: connections are not lost sight of; requests go to brokers that have
  done their handshake; every call settles.
- Consumer lifecycle: it recovers from every error, never restarts under a
  running batch, stays closed once closed; `close()` resolves after the last batch.
- Offsets: at-least-once delivery; what is committed is not delivered again;
  every message is processed.
- Group: two members of a generation never own one partition; the group settles,
  and reads the topics of its leader.
- Records: what `onBatch` gets is what some `send` was given, in order, once, and
  nothing is left out; messages without a key are spread evenly; a key gets the
  partition the Java client gives it.

## Modules

| Module | Models | Checked by | Proved in |
|---|---|---|---|
| `Lock` | `utils/lock.ts` | `MCLock` | `LockProofs` |
| `Producer` | `producer/producer.ts`, `utils/shared.ts`, the part of `cluster.ts` and `metadata.ts` it uses, brokers' idempotence checks (external) | `MCProducer` | `ProducerProofs` |
| `Rpc` | abstract: what `sendRequest` promises | `MCConnection` (`ImplementsRpc`) | `ConnectionProofs` (safety) |
| `Connection` | `connection.ts` | `MCConnection` | `ConnectionProofs` |
| `Cluster` | `cluster.ts`, `broker.ts` | `MCCluster` | `ClusterProofs` |
| `ConsumerLifecycle` | `consumer.ts` (`start`, `close`, the loop), `fetch-manager.ts`, `fetcher.ts` | `MCConsumerLifecycle` | `ConsumerLifecycleProofs` |
| `Delivery` | abstract: what a consumer group promises about messages and commits | `MCConsumerOffsets` (`ImplementsDelivery`) | `ConsumerOffsetsProofs` |
| `ConsumerOffsets` | `offset-manager.ts`, `Consumer.process`, `offsetFetch`, `offsetCommit` | `MCConsumerOffsets` | `ConsumerOffsetsProofs` |
| `GroupMembership` | `consumer-group.ts`, the coordinator (external) | `MCGroupMembership` | `GroupMembershipProofs` |
| `MessageTypes` | what a message is made of (`types.ts`) | `MCRecordPath` | |
| `Wire` | `utils/encoder.ts`, `utils/decoder.ts` | `MCRecordPath` | `RecordPathProofs` (the fields of records, batches, requests and responses) |
| `RecordBatches` | requests of `api/produce.ts`, responses of `api/fetch.ts` | `MCRecordPath` | `RecordPathProofs` (what is encoded is decoded) |
| `Partitioning` | `distributors/partitioner.ts`, `utils/murmur2.ts`, the Java hash (external) | `MCRecordPath` | `RecordPathProofs` (messages without a key) |
| `RecordPath` | composes the three: `Producer.send` (partitions, timestamps, batches), the log (external), `Consumer.fetch` and `process` | `MCRecordPath` | `RecordPathProofs` |

`MessageTypes`, `Wire`, `RecordBatches` and `Partitioning` have no variables: they are the pure
part of the code, as operators and recursive functions, and `RecordPath` is the
system that uses them.

How their states and actions correspond to the code:

**Lock.** A member of `Calls` is one call of `acquire`. `Acquire` runs
`acquireKey` for each key up to its first `await`; `waiters[k]` are the listeners
of `release:k` in order, each with its timer, and `woken[k]` the calls whose
listener ran but whose continuation did not. `Resume` is one continuation, `Enter`
the callback's start, `Release` the `finally` block, `Timeout` the 60 s timer.

**Producer.** `pc[s]` is where call `s` of `send` awaits, `sub[s][n]` its request
to node `n`. `stamp` holds the producer id and base sequence a batch was sent
with, which the code only keeps in the request. `conn` is the shared
`ensureConnected`. `RequestRejects` is the inner `Promise.all` rejecting: only
the first failing request decides what the catch block does, the others go on.
`Recover` is the whole catch block. `ConnectFails`, `MetadataFails`,
`RequestFails` and `RecoverFails` are the failures of the calls it awaits.
Messages carry no content, only their number: `Records(s, p)` is how many `s` has for
`p`, and how far its success moves the sequence. A batch has the numbers from its base
on, one for each record. The broker (external) recognises a batch it has by all of them
(`SameNumbers`), appends one that begins where the accepted ones of its id end
(`Continues`), and refuses any other as out of order. Kafka does so for the last five
batches of an id, and the properties speak only of requests whose answer `send` still
awaits. `SequenceOverflows` is the encoder throwing for a base sequence beyond
`LastSequence`, which stands for the largest int32.
A `scenario`, chosen once in `Init`, fixes how many records each call sends where and
what may go wrong.

**Connection.** Sockets are numbered so that listeners of an old one stay
distinguishable from those of the new one. `SocketOpens`, `SocketFails`,
`DataArrives`, `SocketCloses` are the listeners; a response is two units so that
a chunk can end inside it; `Complete` says where `handleData` finds a whole frame.
`forgotten` remembers which requests `connect` dropped with the queue. `MaxId` is the
largest id that fits the wire; `IdOverflows` is a request after it. The refinement
mapping to `Rpc` is the identity on `pc` and `result`: sockets, queue, chunks and
timers are what `Rpc` hides.

**Cluster.** Brokers are numbered as they are made; `sock[b]` folds the socket and
the handshake of one broker. A call is in `seeking`, `metadata`, `ensuring` or
`acquiring`, one stage per `await`. `held[c]` is the table that
`this.brokerById[nodeId] = await ...` had evaluated before its `await`: JavaScript
assigns to that object even when `connect` has replaced the table since.

**ConsumerLifecycle.** `main` is the `await` the loop (or the `start` or `close`
around it) is at; `Catch(e)` is the catch block by class of error, `LoopHead` the
`while` condition with the call of the stop hook behind it. Fetchers of every
manager are kept, since one may outlive its manager; `awaited` are the fetchers
whose `stopped` event `FetchManager.start` waits for.

**ConsumerOffsets.** The messages of a partition are its offsets. `lo` and `hi`
bound the response in `process` (one that `partitionMaxBytes` cuts short is one sent
before the rest was produced); `Messages(p)` is what `onBatch` gets after the
`isResolved` filter. `Flush` keeps the code's test for truth, which lets offset 0
stay pending. `Join` and `Start` include the offset fetch and offset list with
their flush. `Crash` loses the process and its offsets. `Delivery` keeps only the
logs, what was processed and what is committed; its one hole, that a group which
does not start from the beginning vouches for nothing before its first commit
above 0, is the code's.

**GroupMembership.** One queue of requests per member stands for its connection to
the coordinator, on which requests are answered in order. `generationId`,
`memberId` and `assignment` are what the member believes, `generation`, `ids` and
`target` what the coordinator knows. `RoundRobin` is the reduce of `syncGroup`,
`Heartbeat` and `ReceiveHeartbeat` the interval, `HandleLastHeartbeat` the point
where its error surfaces. Each member subscribes to topics of its own; a leader
deals out its own topics' partitions to all members, and `Joins` is the lookup of
leaders that throws for a topic the member has no metadata of.

**RecordPath.** Requests, responses and the batches in the log are sequences of
bytes. `Send` builds a produce request out of messages; `Produced` is the broker
appending its batches and the response advancing the sequences. `FetchedBytes` is
what the broker returns for a partition: whole batches from the one the position
is in, cut at `partitionMaxBytes` wherever that falls, except that the first batch
of the response is never cut. `TakeRecords` and `TakeBatch` are the log cleaner,
`ForeignBatch` other producers: markers, aborted records, compressed batches.
`Fetch` and `Process` are the two halves of `Fetcher.step`; `Rejected`,
`NoMessages` and `Handled` are the ways out of decoding and `process`. In `Wire` a
reader takes a buffer and an offset and returns the value and the next offset,
which is the decoder's cursor. The encoder throws for a number that does not fit its
bytes: `Writable` is the guard that it does not, `Room` that the broker has an offset
left, and what `send` does when it throws is a failure like those in `Producer`. The
loop of `decodeRecordBatch` is `NextBatch`, taken as often as the buffer can hold the
12 bytes that start a batch. `When` is a filter of one item, and `MessagesTo`,
`BatchesOf`, `Behind` and `Unresolved` are the filters of the code over it. The checksum is any function of the bytes it
covers, since the code computes it and never compares it.
In `Partitioning` a number is the set of its 1 bits, so that the products of
`murmur2`, up to 2^62, and their rounding to 53 bits are exact. `Wrapped` is
`toPositive` of the counter, which drops what is above `PositiveRange` (2^31 in the
code).

## Runs

All runs switch deadlock checking off: the number of calls, failures and messages is
bounded, so every model stops once it is used up.

| Run | Bounds | Question |
|---|---|---|
| `lock` | 3 calls, 2 keys | exclusion until a timer fires, no lost wakeup, nothing locked without a holder; every `acquire` gets in although callbacks may never return |
| `producer` | 3 sends, 2 nodes; to 1 partition with 1 fault and 1 move, to 2 partitions with 1 fault and 1 move or 1 move and 1 overrun, or undisturbed; batches of 1 or 2 records, sequences up to 2 | when acknowledged batches can be lost, sequences have gaps and sends reject, whether sends settle; the first producer id may be 0 |
| `producer_loss` | 2 sends of 2 records, 1 fault | an acknowledged batch that is in no log (violation) |
| `connection` | 2 requests, 3 sockets, ids up to 2 | framing; every request settles once with its own response (`Rpc`) over reconnects |
| `cluster` | 3 calls, 1 node, 4 brokers, 1 fault | overlapping calls: leaks, lookups that find nothing, early requests, settlement |
| `lifecycle` | 2 nodes, 2 calls of `close`, 3 failures | recovery, restart, closing |
| `close` | 1 failure, 1 `close` | a `close` that leaves under a batch; with `MaxErrors = 0`, one that never resolves (violation) |
| `offsets` | 1 partition, 3 messages, 2 failures, 2 rebalances, both start options, alone or not | delivery and commits (`Delivery`) |
| `failed_batch_skipped` | 2 messages, 1 failure, latest offset | a failed batch that is never delivered again (violation) |
| `group` | 2 members, 3 partitions, 1 fault, 1 leave; or 2 topics of which one member has one, 1 leave, members start up to generation 4 | ownership, topics that are read, and convergence |
| `record_path` | 2 partitions, 5 scenarios of up to 3 sends and 8 messages, a counter that wraps at 5, limits of 70 to 200 bytes, up to 2 cleanings and 2 foreign batches | records from `send` to `onBatch` |
| `java_partitions` | 2 keyed messages, 2 with an empty key | a key in another partition than Java's (violation) |

Why the bounds are enough to be telling. Three calls are the least in which one
lets two others overtake it (lock) or in which a call meets the table of a second
that a third replaces (cluster). Two nodes are the least in which one request or
fetcher fails while another goes on. One lost response, one leader change and one
timer suffice for each loss the producer has, and the second and third send are
the ones that suffer; batches of one and of two records are enough to tell a
duplicate, which has all numbers of another, from a batch that only shares its
base, and both from a gap. Three sockets allow a request on each side of two
reconnects. Two failures put one inside the recovery from the other. Three
partitions over two members make the round robin uneven. With different topics
the group never comes to rest (the member with the smaller set restarts for ever
while the other leads), so that scenario is bounded by generations; four let each
of the members lead after the other. The messages of `record_path` are
chosen for the encoders: lengths of one and two bytes, missing and empty keys and
values, timestamps below, at and above 0; a batch of one short record takes about
70 bytes, so the limits cut inside headers, inside records and between batches.
Numbers stay far below the widths of their types, except in `murmur2`, where
width is the point, and in the counter of messages without a key: `PositiveRange = 5`
stands for 2^31, is no multiple of the number of partitions, as 2^31 is none of
3, and lets the counter wrap around within one scenario, after which the spread does exceed 1.

Most of these properties say when something bad can happen, rather than that it
cannot: the code does lose acknowledged batches, leak connections and call
`sendRequest` on `undefined`. `LossExplained`, `GapExplained`, `RejectionExplained`,
`LeakExplained`, `UndefinedExplained`, `Progress`, `RequestsFollowHandshake` and `SendSettlesUnlessStranded`
name the only ways, so that any other way is a violation.

### Fairness

- Continuations, timers and socket events are weakly fair: the event loop runs
  what is ready. Failures have no fairness, and neither do calls of the
  application.
- `lock`: `Release` has no fairness; a callback need not return, and
  `AcquireCompletes` rests on the timers alone.
- `connection`: the broker has no fairness; that every request settles
  (`ImplementsRpc`) rests on the request timer.
- `producer`, `lifecycle`, `offsets`: requests are answered or fail, because each
  has a timer (`connection.ts:96`), and `onBatch` returns.
- `cluster`: a socket that opens does so or fails, unless its listeners are gone.
- `group`: besides the above, the coordinator answers and expires members that
  no longer speak to it.
- `record_path`: a request is answered and the fetcher loops (`fetcher.ts:26`);
  nobody has to send, and the cleaner and other producers need do nothing.

## What the code does not keep

Four runs end in a violation; each is a finding of `PROJECT.json`, the last one two.

1. `producer_loss`: the sequence of a partition advances only after a response.
   After a lost response the next batch reuses the base sequence of a batch that is in
   the log. If it has as many records, the broker acknowledges it as a duplicate
   without appending it.
2. `close`: after `close()` has stopped the fetchers, an error of one makes
   `Fetcher.stop` of the others return at once, and the group is left while they
   still process. And the loop does not look at the stop hook after `join()`, so a
   `close()` made meanwhile stops the old manager only and never resolves.
3. `failed_batch_skipped`: a restart lists the latest offsets again; without a
   committed offset the batch that failed is skipped.
4. `java_partitions`: `murmur2` rounds its products to 53 bits and shifts with the
   sign, so that its hash is not that of the Java client. And a message with an empty
   key is not partitioned by its key at all: the test `if (key)` of `partitioner.ts:22`
   takes it for one without a key, and deals it round-robin, which the repository's
   README (105, 194) says of a missing key only. `KeylessSpread` counts these messages
   apart: they take turns from those without a key.

Five more habits of the code are visible in what the passing properties leave
room for: markers of transactions and aborted records reach `onBatch`
(`DeliveredAsSent` exempts records no `send` wrote), a tail batch without
records is fetched again and again, an unsupported batch fails all partitions
of a fetch (both `Blocked`), topics that the leader of the group lacks are
read by nobody (`SettledReadsLeadersTopics`), and after a lost response a batch of
another number of records than the lost one is refused as out of order, upon which the
producer takes a new id (`GapExplained`).

## Proofs

Eight modules prove, for every value of the constants, what the passing runs check
on small instances: the type invariant and every safety invariant of `Lock`,
`Producer`, `Connection`, `Cluster`, `ConsumerLifecycle`, `ConsumerOffsets` and
`GroupMembership` and `RecordPath`, their action properties, the two refinements as far
as they are safety, and that the decoders return what the encoders were given. No safety
property of a passing run is left to TLC alone. Each has the same shape: an inductive invariant whose conjuncts are
named, lemmas about the operators, the proof that the initial states have the
invariant and that every action keeps it (a lemma per action or conjunct, with a step for
each part that the action can disturb), the invariant as a theorem, and the theorems
that follow from it. Steps of the specification that leave all variables alone keep everything.

| Module | Theorem | States |
|---|---|---|
| `LockProofs` | `TypeCorrect`, `Exclusion`, `WaitersAreWoken`, `LocksAreHeld` | `TypeOK`, `MutexUnlessExpired`, `NoLostWakeup`, `NoOrphanLock` |
| `ProducerProofs` | `TypeCorrect`, `LossesExplained`, `GapsExplained`, `RejectionsExplained` | `TypeOK`, `LossExplained`, `GapExplained`, `RejectionExplained` |
| `ConnectionProofs` | `TypeCorrect`, `StreamStaysInSync`, `ClosedSocketsReject`, `SafeRpc` | `TypeOK`, `StreamInSync`, `ClosedSocketRejects`, the safety of `Rpc` |
| `ClusterProofs` | `TypeCorrect`, `LeaksExplained`, `UndefinedHasCause`, `HandshakeComesFirst` | `TypeOK`, `LeakExplained`, `UndefinedExplained`, `RequestsFollowHandshake` |
| `ConsumerLifecycleProofs` | `TypeCorrect`, `RestartsWaitForBatches`, `ClosedStaysClosed` | `TypeOK`, `RestartWaitsForBatches`, `ClosedForGood` |
| `ConsumerOffsetsProofs` | `TypeCorrect`, `AtLeastOnce`, `NoRedelivery`, `Implements` | `TypeOK`, `CommittedIsProcessed`, `CommittedIsNotRedelivered`, `ImplementsDelivery` |
| `RecordPathProofs` | `PathTypes`, `RecordsAreDeliveredAsSent`, `NoRecordIsSkipped`, `KeylessSpreadsEvenly` | `TypeOK`, `DeliveredAsSent`, `NothingSkipped`, `KeylessSpread` |
| | `PathIsInvariant` | the inductive invariant `PathInv` that the first three follow from |
| | `RecordsAreReadAsWritten`, `BatchesAreReadAsWritten`, `BatchIsReadAsWritten`, `RequestIsReadAsWritten`, `ResponseIsReadAsWritten`, `CutBatchesAreRead`, `OffsetIsGiven` | for every record, array of records, batch, request and response the decoder inverts the encoder; a buffer that is cut is read to its last whole batch; the broker's offset changes nothing else of a batch |
| `GroupMembershipProofs` | `TypeCorrect`, `OwnersStayDisjoint`, `ErrorsAreCurrent`, `SettledGroupReadsLeadersTopics` | `TypeOK`, `OwnersDisjoint`, `HeartbeatErrorsAreCurrent`, `SettledReadsLeadersTopics` |

**Lock** (no assumption). None of the three safety properties is inductive.
`LockInv` adds that only calls that asked for a key queue for it
(`QueuesWanted`), that a call holds no more than it asked for and all of it in its
callback (`GrantsWanted`), and that a held key is locked unless its timer has
fired (`HeldIsLocked`). The last one makes exclusion inductive: a call takes a
key only if it is unlocked, so that nobody holds it. `NoLostWakeup` needs the first two, since
a release concerns exactly the queues of the released keys. The queue lemmas
(`RangeOfAppend`, `RangeOfConcat`, ...) say what the sequence operators do to the
members of a queue.

**Producer** (`ConstantsAssumption`: scenarios are of their type, `LastSequence` is a
natural number and `NoNode` no node). `LossExplained` rests on three facts about
numbers: an acknowledgement means that the log has the batch's numbers, first to last
(`AckedNumberLogged`), under a node's lock one request is in flight (`NodeLocked`), and two
batches that a node took under its lock have different bases unless one of them
failed (`OkDistinct`, by way of `SequencesCount`: what succeeded is behind
`sequences`). So whoever has the numbers of a missing batch failed, or went past
the lock. `GapExplained` is about a broker that sees the batches of a producer id
in one place: while no leader moves (`RoutesRight`) and no lock timer fires,
every base used is in the log, or is the number that follows the accepted ones
(`NoGaps`, by `Gapless`, with the base that the next batch of an id has), whatever is
lost, and what is in flight has the base its success will count from
(`InFlightIsNext`). A batch in the log whose base is still the next one has succeeded
no request, so a batch that is refused met one of another size with its own base
(`Clash`, `VerdictGapless`), whose request failed (`ClashFailed`).
`RejectionExplained` follows with `NoErrors` and `NothingFails`.

**Connection** (`BoundsAssumption`: the bounds are natural numbers).
`StreamInSync` is not inductive, since a chunk is cut anywhere: `Framed` says it of
`Stream`, what is buffered and what is still on the wire as one sequence, in which
a head stands at every odd place and carries the id of the request that it
answers; while a socket lives the sequence has even length, whatever of it was read. With
`IdsDistinct` and `WaitingQueued` a response finds its own request or none, which
is what `SafeRpc` needs: `Spec => R!Safety`, every step is a step of `Rpc` or
changes nothing of it. `OpeningKeepsWrites` is there for
`ClosedSocketRejects`: what was written to a socket that has not opened is kept.
The lemmas about sequences (`Suffix`, `Joined`, `StreamRead`, ...) say what reading
takes off the stream.

**Cluster** (`BoundsAssumption`; `NodesAssumption`: there is a node). The
properties explain a bad state by calls that have met, so the invariant follows
every broker from its making: it is over, referred to, about to be, or lost with
an explanation (`Accounted`). A call that is about to replace something has
disconnected it or met whoever put it there (`ReplacersDisconnect`,
`FillersMeet`); a `sendRequestToNode` whose table is gone has met the `connect`
(`GenerationsExplained`); what the cluster refers to has been up, or
`ensureConnected` has reopened it (`KnownSettled`, for the handshake). The proof
refuted an earlier `LeakExplained`, which the run of three calls could not: with
more calls, a `disconnect` can find a broker that `ensureConnected` is opening,
whose socket then opens without listeners (`deaf`); the property names that case now.

**ConsumerLifecycle** (`MaxErrorsAssumption`; `ClosersAssumption`: `"none"` and
`"restart"`, the other values of `stopHook`, are no `close` calls).
`RunningIsCurrent`, `UnstoppedRuns` and `ThrowingAwaitsActive` follow a fetcher: it
goes on only in the current manager while the loop awaits that manager; nobody
stops it but a stop hook or an error; and a manager that throws awaits whoever is
still active. `HookExplained` and `CalledBackIsOver` say who can be in the stop
hook, and that a `close` that was called back finds the loop ended, so that
`ClosedForGood` holds of every step. `ManagersFollowErrors` bounds the managers.

**ConsumerOffsets** (`OffsetsAssumption`: the options are Booleans, the bounds natural numbers, at
least one message). What
is committed comes from what is pending, which comes from a response that was
asked for at the current offset and filtered by both; `Inv` says what all of them
agree on at each `await`: what a response covers (`BatchBounds`), what lies behind
the committed, current and pending offsets (`BehindProcessed`), and how a member
of the current generation stands to the committed offset (`MemberAhead`). In
`Implements`, every step of the consumer is a step of `Delivery` or
changes nothing of it; its lemmas `CommitsAdvance`, `CommitsAreProcessed` and
`ProcessedGrows` say of each action what `Deliver` asks for.

**GroupMembership** (`GroupAssumption`: the number of partitions is a natural number,
members subscribe to sets of partitions, the bounds are natural numbers). Requests are answered in order, so
`GroupMembershipProofs` sees the responses a member has yet to receive and the requests
the coordinator has yet to read as one line (`At`, `Pending`, `Done`), on which
there is one request besides a heartbeat (`OneRequest`). Two members are disjoint
because the partitions of a generation are dealt out once: every assignment a
member has, or that is on its way to it, is its share of `target` while its
generation lasts (`SharesAreDealt`), and `Apart` keeps ids and shares of two
members distinct in generations gone by. That a leader deals out its own topics to all members there are
(`LeaderPlans`, `TargetDealt`) rests on what it was told while the group waits for
its plan (`LearnsTheTruth`). `HeartbeatErrorsAreCurrent` needs the order on the
line: a heartbeat behind the SyncGroup is of the new membership
(`HeartbeatsFollow`), and the ones before it are answered first. A step of a
member touches only its own end of the line (`ClientEffect`, `ClientStep`), a step
of the coordinator answers the first request of a member or none (`Served`,
`ServedStep`, `RegroupStep`, `DealtStep`); `RoundRobinDeals` says that
every partition of the leader's topics goes to one member of its roster.

**RecordPath** (`ScenarioAssumption`: scenarios are of their type, there is a
partition and partition numbers fit their 4 bytes; `PartitionsAssumption`: messages name
existing partitions; `RangeAssumption`: `PositiveRange` is above 0; `NullAssumption`: `Null` is
no text and no number).
`KeylessSpread` is not inductive: a spread of at most one says nothing about whose
turn it is. `Balanced` says how many messages the counter has dealt to each partition,
those with an empty key included, from
the quotients and remainders of the counter by the range and the number of partitions
(`Division`, `NextDivision`); one message keeps it (`BalancedNext`), and so do all
messages of a send, one after the other (`BalancedSend`). The theorem
subtracts the empty keys and allows one message of unevenness per wrap-around, which
the code has.

`RecordsAreReadAsWritten` goes from the primitives to the record: what the encoder
writes stands in a buffer (`Stands`), and a reader at its start returns the value and
ends where the writer did (`Int8Read`, `UVarIntRead`, `VarIntRead`,
`VarIntStringRead`, `CompactStringRead`), then the fields of a record one by one
(`FieldsRead`), its headers (`HeadersRead`) and, in `BatchesAreReadAsWritten`, the
records of a batch (`ItemsStand`, `ItemsRead`). They hold of every key, value, header,
timestamp and count; the varints of the model have no width, those of the code 32
bits (64 for timestamps), which no buffer exceeds. The same way leads on to the batch
(`BatchIsReadAsWritten`: its header, its length and what `decodeRecordBatch` makes of
its bytes), to the produce request and to the fetch response, whatever the lengths of
what stands before a field (`Reads`, `StillReads`).
`CutBatchesAreRead` is the loop over batches: a buffer of whole batches, cut anywhere,
is read to the last batch that is whole (`Chain`, `Whole`).

`DeliveredAsSent` relates two ends, what `send` was given and what `onBatch` gets, and
what is in between is bytes; `NothingSkipped` says of a position that all below it was
delivered, and the position comes from a response. Neither is inductive. `PathInv` says
it of every stage, in terms of what the decoder reads in the bytes of that stage:

- a batch has the length, the offsets and the records of a stretch of `written`, or no
  records if the cleaner took them all (`Batched`, `Holds`);
- the batches of a log follow each other, with gaps only where the cleaner was
  (`InLog`: `Ordered`, `Covered`);
- a part of a request holds what its log is behind of `written`, and will hold it at
  the offset that the broker gives it (`Outstanding`);
- a response has of each partition batches from the position on, without a gap that
  the cleaner did not make, if the decoder supports all of them (`Fetched`,
  `Following`);
- what is delivered is below the position, in order, as `written`, and complete
  (`Consumed`).

Each stage follows from the one before by a theorem about bytes: a request has what
`send` made (`MessagesTo` and `BatchesOf`, `PlacedMessages`, `WrittenMore`), the broker
appends it (`EntryAppended` by `OffsetIsGiven`), a cleaned batch has its header and no
records (`EmptiedHolds`, `LogEmptied`, `LogRemoved`), the response is a cut of the log
(`CutLogRead`), `process` reads all of it (`MessagesTell`) and moves
the position past the last batch (`ConsumedMore`). What is written, appended
and cleaned later disturbs none of it (`HoldsLater`, `LogLater`, `ConsumedLater`). There is a
lemma per action (`SendKeeps`, `ProducedKeeps`, `ForeignBatchKeeps`,
`TakeRecordsKeeps`, `TakeBatchKeeps`, `FetchKeeps`, `ProcessKeeps`). TLC found `PathInv`
to hold in all states of the instance of `MCRecordPath` before it was proved.

The induction theorems of the library take an operator as a parameter, which the prover
cannot instantiate. `Induct` therefore goes over the set of the numbers of which
something is true, from the fact that `<` is well-founded on them, and `Recursion` says
from it that a function defined by its predecessor exists; the lemmas ending in `Def`
apply it to the recursive functions of `Wire`, `RecordBatches` and `RecordPath`, and
`Blocks` and `Filter` to `FlattenSeq` and the filters written with it.

Model-checked only:

- every liveness property (the prover has neither fairness nor `ENABLED`), and
  with it what `ImplementsRpc` says beyond `SafeRpc`: that every request settles;
- that `murmur2` differs from the Java hash (`java_partitions`).

## Not modelled

- `auth/`, `utils/crypto.ts`: a fixed sequence of requests around cryptographic
  primitives; one step of the handshake in `Cluster`.
- `codecs/`, `consumer/processor.ts`, `distributors/assignments-to-replicas.ts`:
  nothing else in the repository uses them.
- `client.ts`, `utils/logger.ts`, `utils/tracer.ts`, examples: no state.
- The APIs other than PRODUCE and FETCH, and the primitives only they use: field
  lists in a row, without a decision in them. Decoding of PRODUCE responses and
  encoding of FETCH requests are folded into the steps that use them.
- Inside modelled parts: `COORDINATOR_LOAD_IN_PROGRESS` retries, `acks = 1`,
  automatic topic creation, sends to several topics, static group membership,
  `NOT_COORDINATOR`, several fetchers processing at once, attempt counts and delays
  of the retrier. `RecordPath` leaves out the retrier, `resolveOffset` and commits
  (they are in `ConsumerOffsets`), header keys that occur twice (`process` keeps
  the last), timestamps a broker replaces (`LogAppendTime` is decoded and
  ignored), error codes in a fetch response (failures are in `ConsumerOffsets`) and
  messages that name a partition which does not exist (`PartitionsAssumption`).
- Steps that are coarser than the code: the catch block of `send` disconnects and
  connects in one step of `Producer` (`Cluster` takes the two apart), and a rejected
  `ensureConnected` is one rejection, although `.finally()` in `shared.ts` makes a
  second promise that nobody handles. A socket that breaks after `disconnect` took its
  listeners off does so unnoticed in `Connection`; in Node.js its `error` event would
  be an uncaught exception. `RecordPath` takes no step where the encoder throws.
- Inputs that are narrower: `ConsumerOffsets` lists the offset 0 or the end of a log
  (no other `fromTimestamp`, no log that was truncated), and its other members commit
  only once the modelled member has. Strings are the bytes of their UTF-8 form, which the
  decoder is taken to return as they are. Timestamp deltas stay below 2^63.

## Plan

Written so far, in this order, the most important behaviour first: `Lock`,
`Producer`, `ConsumerLifecycle`, `ConsumerOffsets`, `Connection`, `Cluster`,
`GroupMembership`, then the abstract specifications `Delivery` and `Rpc`, and the
record path: `Wire`, `RecordBatches`, `Partitioning`, `RecordPath`.

What is left, in order:

1. An abstract keyed mutex that `Lock` implements until a timer fires, and the
   step-by-step proof that it does.
2. Several fetchers over one `OffsetManager` and one commit call, composed of
   `ConsumerLifecycle`'s fetchers and `ConsumerOffsets`' bookkeeping.
3. Static membership and `NOT_COORDINATOR` in `GroupMembership`; topic creation
   in `Producer`; attempts and delays of the retrier.
