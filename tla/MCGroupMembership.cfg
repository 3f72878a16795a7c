\* Two members: one connection breaks or one session expires, one leaves; or
\* their topics differ.
SPECIFICATION FairSpec
CONSTANTS
    m1 = m1
    m2 = m2
    Members = {m1, m2}
    NumPartitions = 3
    Scenarios <- Both
INVARIANTS
    TypeOK
    OwnersDisjoint
    HeartbeatErrorsAreCurrent
    SettledReadsLeadersTopics
PROPERTIES
    GroupSettles
CHECK_DEADLOCK FALSE
