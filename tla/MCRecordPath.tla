---------------------------- MODULE MCRecordPath ----------------------------
EXTENDS RecordPath

NewMessage(partition, key, value, timestamp) ==
    [partition |-> partition, key |-> key, value |-> value, timestamp |-> timestamp,
     headers |-> <<>>]
Plain(text) == NewMessage(Null, Null, text, Null)
Keyed(key) == NewMessage(Null, key, <<1>>, Null)
Long == [i \in 1..70 |-> 7]     \* its lengths take two bytes

\* Attributes of a batch: a marker, a transactional record, gzip.
Control == 48
Transactional == 16
Gzip == 1

\* Values and keys that are missing and empty, headers, timestamps around 0.
Fields ==
    [sends |-> << <<NewMessage(0, <<>>, Null, 0), NewMessage(0, Null, <<>>, 5),
                    NewMessage(0, <<50, 49>>, Long, -3)>>,
                  <<[Plain(<<9>>) EXCEPT !.headers = << <<<<1>>, <<>>>>, <<<<>>, Long>> >>],
                    NewMessage(Null, <<>>, <<2>>, -70000), Plain(<<3>>)>>,
                  <<Keyed(<<50, 49>>), Plain(<<4>>)>> >>,
     partitionMaxBytes |-> 200, foreign |-> <<>>, cleanings |-> 1]

\* Batches of every size against a limit that cuts most of them.
Limits ==
    {[sends |-> << <<Plain(<<1>>), Plain(<<2>>)>>, <<Plain(Long), Keyed(<<97>>)>>,
                   <<Plain(<<3>>)>> >>,
      partitionMaxBytes |-> limit, foreign |-> <<>>, cleanings |-> 2] :
     limit \in {70, 160}}

\* Transactions and compression of other producers; the counter of the topic wraps
\* around before the sixth message without a partition.
Others ==
    {[sends |-> << <<Plain(<<1>>), NewMessage(1, Null, <<8>>, Null), Plain(<<2>>)>>,
                   <<Plain(<<3>>), Plain(<<4>>), Plain(<<5>>), Plain(<<6>>)>> >>,
      partitionMaxBytes |-> 100,
      foreign |-> <<[partition |-> 0, attributes |-> first],
                    [partition |-> 1, attributes |-> Control]>>,
      cleanings |-> 1] :
     first \in {Transactional, Gzip}}

All == {Fields} \cup Limits \cup Others

\* Keys whose partition is looked at, an empty one twice.
Keys == {[sends |-> << <<Keyed(<<50, 49>>), Keyed(<<97>>),
                         NewMessage(Null, <<>>, <<2>>, Null),
                         NewMessage(Null, <<>>, <<3>>, Null)>> >>,
          partitionMaxBytes |-> 100, foreign |-> <<>>, cleanings |-> 0]}
=============================================================================
