---------------------------- MODULE LockProofs ----------------------------
(***************************************************************************)
(* What TLC checks of Lock on a small instance, proved for every set of    *)
(* calls and every set of keys.                                            *)
(***************************************************************************)
EXTENDS Lock, TLAPS

-----------------------------------------------------------------------------
(* The queues of calls: what Append, \o and Tail do to their members.      *)

\* What a queue holds after Append(s, e) is what it held, and e.
LEMMA RangeOfAppend ==
    ASSUME NEW S, NEW s \in Seq(S), NEW e \in S
    PROVE  RangeOf(Append(s, e)) = RangeOf(s) \cup {e}
<1>1. Len(Append(s, e)) = Len(s) + 1 /\ Len(s) \in Nat
  OBVIOUS
<1>2. \A i \in 1..Len(s) : Append(s, e)[i] = s[i]
  OBVIOUS
<1>3. Append(s, e)[Len(s) + 1] = e
  OBVIOUS
<1>4. 1..(Len(s) + 1) = 1..Len(s) \cup {Len(s) + 1}
  BY <1>1
<1> QED
  BY <1>1, <1>2, <1>3, <1>4 DEF RangeOf

\* Joining two queues keeps the members of both.
LEMMA RangeOfConcat ==
    ASSUME NEW S, NEW s \in Seq(S), NEW t \in Seq(S)
    PROVE  RangeOf(s \o t) = RangeOf(s) \cup RangeOf(t)
<1>1. Len(s \o t) = Len(s) + Len(t) /\ Len(s) \in Nat /\ Len(t) \in Nat
  OBVIOUS
<1>2. \A i \in 1..Len(s) : (s \o t)[i] = s[i] /\ i \in 1..Len(s \o t)
  BY <1>1
<1>3. \A i \in 1..Len(t) : /\ (s \o t)[Len(s) + i] = t[i]
                           /\ Len(s) + i \in 1..Len(s \o t)
  BY <1>1
<1>4. \A i \in 1..Len(s \o t) : \/ i \in 1..Len(s)
                                \/ /\ i - Len(s) \in 1..Len(t)
                                   /\ (s \o t)[i] = t[i - Len(s)]
  BY <1>1
<1>5. RangeOf(s) \cup RangeOf(t) \subseteq RangeOf(s \o t)
  BY <1>2, <1>3 DEF RangeOf
<1>6. RangeOf(s \o t) \subseteq RangeOf(s) \cup RangeOf(t)
  BY <1>2, <1>4 DEF RangeOf
<1> QED
  BY <1>5, <1>6

\* Taking the head off a queue loses no other member and adds none.
LEMMA RangeOfTail ==
    ASSUME NEW S, NEW s \in Seq(S), s # <<>>
    PROVE  /\ Head(s) \in RangeOf(s)
           /\ RangeOf(Tail(s)) \subseteq RangeOf(s)
           /\ RangeOf(s) \subseteq RangeOf(Tail(s)) \cup {Head(s)}
<1>1. Len(Tail(s)) = Len(s) - 1 /\ Len(s) \in Nat \ {0}
  OBVIOUS
<1>2. \A i \in 1..Len(Tail(s)) : Tail(s)[i] = s[i + 1] /\ i + 1 \in 1..Len(s)
  BY <1>1
<1>3. Head(s) = s[1] /\ 1 \in 1..Len(s)
  BY <1>1
<1>4. \A i \in 1..Len(s) :
        i = 1 \/ (i - 1 \in 1..Len(Tail(s)) /\ Tail(s)[i - 1] = s[i])
  BY <1>1, <1>2
<1>5. RangeOf(Tail(s)) \subseteq RangeOf(s)
  BY <1>2 DEF RangeOf
<1>6. RangeOf(s) \subseteq RangeOf(Tail(s)) \cup {Head(s)}
  BY <1>3, <1>4 DEF RangeOf
<1> QED
  BY <1>3, <1>5, <1>6 DEF RangeOf

-----------------------------------------------------------------------------
(* Type correctness.                                                       *)

\* A step keeps every variable in its type.
LEMMA TypeStep == TypeOK /\ [Next]_vars => TypeOK'
<1> SUFFICES ASSUME TypeOK, [Next]_vars
             PROVE  TypeOK'
  OBVIOUS
<1> USE DEF TypeOK
<1>1. ASSUME NEW c \in Calls, NEW keys \in SUBSET Keys, Acquire(c, keys)
      PROVE  TypeOK'
  BY <1>1 DEF Acquire
<1>2. ASSUME NEW c \in Calls, Enter(c)
      PROVE  TypeOK'
  BY <1>2 DEF Enter
<1>3. ASSUME NEW c \in Calls, Release(c)
      PROVE  TypeOK'
  BY <1>3 DEF Release, ReleaseKeys
<1>4. ASSUME NEW k \in Keys, Resume(k)
      PROVE  TypeOK'
  <2> DEFINE c == Head(woken[k])
  <2>1. c \in Calls /\ Tail(woken[k]) \in Seq(Calls)
    BY <1>4 DEF Resume
  <2>2. /\ woken' = [woken EXCEPT ![k] = Tail(@)]
        /\ UNCHANGED <<pc, wants, expired>>
    BY <1>4 DEF Resume
  <2>3. TakeOrWaitAgain(c, k)
    BY <1>4 DEF Resume
  <2> HIDE DEF c
  <2>4. CASE locks[k]
    <3>1. /\ waiters' = [waiters EXCEPT ![k] = Append(@, c)]
          /\ UNCHANGED <<locks, granted>>
      BY <2>3, <2>4 DEF TakeOrWaitAgain
    <3>2. Append(waiters[k], c) \in Seq(Calls)
      BY <2>1
    <3> QED
      BY <2>1, <2>2, <3>1, <3>2
  <2>5. CASE ~locks[k]
    <3>1. /\ locks' = [locks EXCEPT ![k] = TRUE]
          /\ granted' = [granted EXCEPT ![c] = @ \cup {k}]
          /\ UNCHANGED waiters
      BY <2>3, <2>5 DEF TakeOrWaitAgain
    <3> QED
      BY <2>1, <2>2, <3>1
  <2> QED
    BY <2>4, <2>5
<1>5. ASSUME NEW k \in Keys, Timeout(k)
      PROVE  TypeOK'
  BY <1>5 DEF Timeout, ReleaseKeys
<1>6. CASE UNCHANGED vars
  BY <1>6 DEF vars
<1> QED
  BY <1>1, <1>2, <1>3, <1>4, <1>5, <1>6 DEF Next

\* Every variable keeps its type, for any calls and keys.
THEOREM TypeCorrect == Spec => []TypeOK
<1>1. Init => TypeOK
  BY DEF Init, TypeOK
<1> QED
  BY <1>1, TypeStep, PTL DEF Spec

-----------------------------------------------------------------------------
(* Exclusion.                                                              *)

\* Only calls that asked for k queue for k.
QueuesWanted ==
    \A k \in Keys : \A c \in Calls :
        c \in RangeOf(waiters[k]) \cup RangeOf(woken[k])
            => k \in wants[c] /\ pc[c] # "new"

\* A call holds only what it asked for, and all of it inside its callback.
GrantsWanted ==
    \A c \in Calls : /\ granted[c] \subseteq wants[c]
                     /\ pc[c] = "new" => granted[c] = {}
                     /\ pc[c] = "inside" => granted[c] = wants[c]

\* As long as no timer has interfered, a key that is held is locked.
HeldIsLocked ==
    \A k \in Keys : Holders(k) = {} \/ locks[k] \/ expired[k]

LockInv ==
    /\ TypeOK
    /\ QueuesWanted
    /\ GrantsWanted
    /\ HeldIsLocked
    /\ NoOrphanLock
    /\ MutexUnlessExpired
    /\ NoLostWakeup
-----------------------------------------------------------------------------
(* Each action keeps LockInv.                                              *)

\* releaseKey moves the waiters of a released key to its woken calls.
LEMMA ReleaseQueues ==
    ASSUME TypeOK, NEW ks \in SUBSET Keys, ReleaseKeys(ks), NEW k \in Keys
    PROVE  /\ locks'[k] = (locks[k] /\ k \notin ks)
           /\ k \in ks => /\ RangeOf(waiters'[k]) = {}
                         /\ RangeOf(woken'[k])
                              = RangeOf(woken[k]) \cup RangeOf(waiters[k])
           /\ k \notin ks => /\ waiters'[k] = waiters[k]
                            /\ woken'[k] = woken[k]
<1>1. CASE k \in ks
  <2>1. waiters'[k] = <<>> /\ woken'[k] = woken[k] \o waiters[k]
    BY <1>1 DEF ReleaseKeys
  <2>2. woken[k] \in Seq(Calls) /\ waiters[k] \in Seq(Calls)
    BY DEF TypeOK
  <2>3. RangeOf(woken'[k]) = RangeOf(woken[k]) \cup RangeOf(waiters[k])
    BY <2>1, <2>2, RangeOfConcat
  <2>4. RangeOf(waiters'[k]) = {}
    BY <2>1 DEF RangeOf
  <2> QED
    BY <1>1, <2>3, <2>4 DEF ReleaseKeys
<1>2. CASE k \notin ks
  BY <1>2 DEF ReleaseKeys
<1> QED
  BY <1>1, <1>2

\* A new call takes the free keys and queues for the others.
LEMMA AcquireStep ==
    ASSUME LockInv, NEW c \in Calls, NEW keys \in SUBSET Keys, Acquire(c, keys)
    PROVE  /\ QueuesWanted' /\ GrantsWanted' /\ HeldIsLocked'
           /\ NoOrphanLock' /\ MutexUnlessExpired' /\ NoLostWakeup'
<1> DEFINE free == {k \in keys : ~locks[k]}
<1> USE DEF LockInv
<1>1. /\ pc[c] = "new"
      /\ pc' = [pc EXCEPT ![c] = "acquiring"]
      /\ wants' = [wants EXCEPT ![c] = keys]
      /\ granted' = [granted EXCEPT ![c] = free]
      /\ locks' = [k \in Keys |-> locks[k] \/ k \in free]
      /\ UNCHANGED <<woken, expired>>
  BY DEF Acquire
<1>2. \A k \in Keys : RangeOf(waiters'[k]) =
          IF k \in keys \ free THEN RangeOf(waiters[k]) \cup {c}
                              ELSE RangeOf(waiters[k])
  <2> TAKE k \in Keys
  <2>1. waiters'[k] = IF k \in keys \ free THEN Append(waiters[k], c)
                                          ELSE waiters[k]
    BY DEF Acquire
  <2>2. waiters[k] \in Seq(Calls)
    BY DEF TypeOK
  <2>3. RangeOf(Append(waiters[k], c)) = RangeOf(waiters[k]) \cup {c}
    BY <2>2, RangeOfAppend
  <2> QED
    BY <2>1, <2>3
<1>3. QueuesWanted'
  BY <1>1, <1>2 DEF QueuesWanted, TypeOK
<1>4. GrantsWanted'
  BY <1>1 DEF GrantsWanted, TypeOK
<1>5. \A k \in Keys : Holders(k)' = IF k \in free THEN Holders(k) \cup {c}
                                               ELSE Holders(k)
  BY <1>1 DEF Holders, GrantsWanted, TypeOK
<1>6. HeldIsLocked'
  BY <1>1, <1>5 DEF HeldIsLocked, TypeOK
<1>7. NoOrphanLock'
  BY <1>1, <1>5 DEF NoOrphanLock, TypeOK
<1>8. MutexUnlessExpired'
  <2> SUFFICES ASSUME NEW k \in Keys, NEW d \in Holders(k)', NEW e \in Holders(k)',
                      d # e
               PROVE  expired'[k]
    BY DEF MutexUnlessExpired
  <2>1. CASE k \in free
    <3>1. Holders(k) # {} /\ ~locks[k]
      BY <1>5, <2>1
    <3> QED
      BY <1>1, <3>1 DEF HeldIsLocked
  <2>2. CASE k \notin free
    BY <1>1, <1>5, <2>2 DEF MutexUnlessExpired
  <2> QED
    BY <2>1, <2>2
<1>9. NoLostWakeup'
  BY <1>1, <1>2 DEF NoLostWakeup, TypeOK
<1> QED
  BY <1>3, <1>4, <1>6, <1>7, <1>8, <1>9

\* The first woken call of k takes the key or queues for it again.
LEMMA ResumeStep ==
    ASSUME LockInv, NEW k \in Keys, Resume(k)
    PROVE  /\ QueuesWanted' /\ GrantsWanted' /\ HeldIsLocked'
           /\ NoOrphanLock' /\ MutexUnlessExpired' /\ NoLostWakeup'
<1> DEFINE c == Head(woken[k])
<1> USE DEF LockInv
<1>1. /\ c \in Calls
      /\ woken' = [woken EXCEPT ![k] = Tail(@)]
      /\ UNCHANGED <<pc, wants, expired>>
      /\ TakeOrWaitAgain(c, k)
  BY DEF Resume, TypeOK
<1>2. /\ c \in RangeOf(woken[k])
      /\ RangeOf(Tail(woken[k])) \subseteq RangeOf(woken[k])
      /\ RangeOf(woken[k]) \subseteq RangeOf(Tail(woken[k])) \cup {c}
  <2>1. woken[k] \in Seq(Calls) /\ woken[k] # <<>>
    BY DEF Resume, TypeOK
  <2> QED
    BY <2>1, RangeOfTail
<1>3. \A j \in Keys : woken'[j] = IF j = k THEN Tail(woken[k]) ELSE woken[j]
  BY <1>1 DEF TypeOK
<1> HIDE DEF c
<1>4. k \in wants[c] /\ pc[c] # "new"
  BY <1>1, <1>2 DEF QueuesWanted
<1>5. CASE locks[k]
  <2>1. /\ waiters' = [waiters EXCEPT ![k] = Append(@, c)]
        /\ UNCHANGED <<locks, granted>>
    BY <1>1, <1>5 DEF TakeOrWaitAgain
  <2>2. RangeOf(waiters'[k]) = RangeOf(waiters[k]) \cup {c}
    <3>1. waiters[k] \in Seq(Calls) /\ waiters'[k] = Append(waiters[k], c)
      BY <2>1 DEF TypeOK
    <3> QED
      BY <1>1, <3>1, RangeOfAppend
  <2>3. \A j \in Keys \ {k} : waiters'[j] = waiters[j]
    BY <2>1 DEF TypeOK
  <2>4. QueuesWanted'
    BY <1>1, <1>2, <1>3, <1>4, <2>2, <2>3 DEF QueuesWanted
  <2>5. GrantsWanted' /\ HeldIsLocked' /\ NoOrphanLock' /\ MutexUnlessExpired'
    BY <1>1, <2>1
       DEF GrantsWanted, HeldIsLocked, NoOrphanLock, MutexUnlessExpired, Holders
  <2>6. NoLostWakeup'
    BY <1>1, <1>2, <1>3, <1>5, <2>1, <2>2, <2>3 DEF NoLostWakeup, TypeOK
  <2> QED
    BY <2>4, <2>5, <2>6
<1>6. CASE ~locks[k]
  <2>1. /\ locks' = [locks EXCEPT ![k] = TRUE]
        /\ granted' = [granted EXCEPT ![c] = @ \cup {k}]
        /\ UNCHANGED waiters
    BY <1>1, <1>6 DEF TakeOrWaitAgain
  <2>2. \A j \in Keys : Holders(j)' = IF j = k THEN Holders(j) \cup {c}
                                             ELSE Holders(j)
    BY <1>1, <2>1 DEF Holders, TypeOK
  <2>3. QueuesWanted'
    BY <1>1, <1>2, <1>3, <2>1 DEF QueuesWanted
  <2>4. GrantsWanted'
    BY <1>1, <1>4, <2>1 DEF GrantsWanted, TypeOK
  <2>5. HeldIsLocked' /\ NoOrphanLock'
    BY <1>1, <2>1, <2>2 DEF HeldIsLocked, NoOrphanLock, TypeOK
  <2>6. MutexUnlessExpired'
    <3>1. Holders(k) = {} \/ expired[k]
      BY <1>6 DEF HeldIsLocked
    <3> QED
      BY <1>1, <2>2, <3>1 DEF MutexUnlessExpired
  <2>7. NoLostWakeup'
    BY <1>1, <1>2, <1>3, <1>6, <2>1 DEF NoLostWakeup, TypeOK
  <2> QED
    BY <2>3, <2>4, <2>5, <2>6, <2>7
<1> QED
  BY <1>5, <1>6

\* The end of a callback frees all the keys of its call, whoever holds them.
LEMMA ReleaseStep ==
    ASSUME LockInv, NEW c \in Calls, Release(c)
    PROVE  /\ QueuesWanted' /\ GrantsWanted' /\ HeldIsLocked'
           /\ NoOrphanLock' /\ MutexUnlessExpired' /\ NoLostWakeup'
<1> USE DEF LockInv
<1>1. /\ pc[c] = "inside"
      /\ pc' = [pc EXCEPT ![c] = "done"]
      /\ granted' = [granted EXCEPT ![c] = {}]
      /\ wants[c] \in SUBSET Keys
      /\ ReleaseKeys(wants[c])
      /\ expired' = [k \in Keys |-> expired[k] /\ Holders(k) # {c}]
      /\ UNCHANGED wants
      /\ granted[c] = wants[c]
  BY DEF Release, GrantsWanted, TypeOK
<1>2. \A k \in Keys :
        /\ locks'[k] = (locks[k] /\ k \notin wants[c])
        /\ k \in wants[c] => /\ RangeOf(waiters'[k]) = {}
                             /\ RangeOf(woken'[k])
                                  = RangeOf(woken[k]) \cup RangeOf(waiters[k])
        /\ k \notin wants[c] => waiters'[k] = waiters[k] /\ woken'[k] = woken[k]
  BY <1>1, ReleaseQueues
<1>3. \A k \in Keys : Holders(k)' = Holders(k) \ {c}
  BY <1>1 DEF Holders, TypeOK
<1>4. QueuesWanted'
  BY <1>1, <1>2 DEF QueuesWanted, TypeOK
<1>5. GrantsWanted'
  BY <1>1 DEF GrantsWanted, TypeOK
<1>6. ASSUME NEW k \in Keys
      PROVE  Holders(k)' = {} \/ locks'[k] \/ expired'[k]
  <2>1. CASE expired[k]
    BY <1>1, <1>3, <2>1
  <2>2. CASE ~expired[k] /\ k \in wants[c]
    <3>1. Holders(k) = {c}
      BY <1>1, <2>2 DEF MutexUnlessExpired, Holders
    <3> QED
      BY <1>3, <3>1
  <2>3. CASE ~expired[k] /\ k \notin wants[c]
    <3>1. Holders(k) = {} \/ locks[k]
      BY <2>3 DEF HeldIsLocked
    <3> QED
      BY <1>2, <1>3, <2>3, <3>1
  <2> QED
    BY <2>1, <2>2, <2>3
<1>7. ASSUME NEW k \in Keys, locks'[k]
      PROVE  Holders(k)' # {}
  <2>1. locks[k] /\ k \notin wants[c]
    BY <1>2, <1>7
  <2>2. Holders(k) # {} /\ c \notin Holders(k)
    BY <1>1, <2>1 DEF NoOrphanLock, Holders
  <2> QED
    BY <1>3, <2>2
<1>8. MutexUnlessExpired'
  <2> SUFFICES ASSUME NEW k \in Keys, NEW d \in Holders(k)', NEW e \in Holders(k)',
                      d # e
               PROVE  expired'[k]
    BY DEF MutexUnlessExpired
  <2>1. expired[k] /\ Holders(k) # {c}
    BY <1>3 DEF MutexUnlessExpired
  <2> QED
    BY <1>1, <2>1
<1>9. NoLostWakeup'
  BY <1>1, <1>2 DEF NoLostWakeup, TypeOK
<1> QED
  BY <1>4, <1>5, <1>6, <1>7, <1>8, <1>9 DEF HeldIsLocked, NoOrphanLock

\* A timer frees a key under its holder, and says so in expired.
LEMMA TimeoutStep ==
    ASSUME LockInv, NEW k \in Keys, Timeout(k)
    PROVE  /\ QueuesWanted' /\ GrantsWanted' /\ HeldIsLocked'
           /\ NoOrphanLock' /\ MutexUnlessExpired' /\ NoLostWakeup'
<1> USE DEF LockInv
<1>1. /\ ReleaseKeys({k})
      /\ expired' = [expired EXCEPT ![k] = TRUE]
      /\ UNCHANGED <<pc, wants, granted>>
  BY DEF Timeout
<1>2. /\ ~locks'[k]
      /\ RangeOf(waiters'[k]) = {}
      /\ RangeOf(woken'[k]) = RangeOf(woken[k]) \cup RangeOf(waiters[k])
  <2>1. {k} \in SUBSET Keys
    OBVIOUS
  <2> QED
    BY <1>1, <2>1, ReleaseQueues
<1>3. \A j \in Keys \ {k} : /\ locks'[j] = locks[j]
                           /\ waiters'[j] = waiters[j]
                           /\ woken'[j] = woken[j]
                           /\ expired'[j] = expired[j]
  BY <1>1 DEF ReleaseKeys, TypeOK
<1>4. /\ \A j \in Keys : Holders(j)' = Holders(j)
      /\ expired'[k]
  BY <1>1 DEF Holders, TypeOK
<1>5. QueuesWanted'
  BY <1>1, <1>2, <1>3 DEF QueuesWanted
<1>6. GrantsWanted'
  BY <1>1 DEF GrantsWanted
<1>7. HeldIsLocked' /\ MutexUnlessExpired'
  BY <1>3, <1>4 DEF HeldIsLocked, MutexUnlessExpired
<1>8. NoOrphanLock'
  BY <1>2, <1>3, <1>4 DEF NoOrphanLock
<1>9. NoLostWakeup'
  BY <1>1, <1>2, <1>3 DEF NoLostWakeup, TypeOK
<1> QED
  BY <1>5, <1>6, <1>7, <1>8, <1>9

-----------------------------------------------------------------------------
(* The theorems.                                                           *)

\* LockInv holds in every state, whatever the calls and the keys.
THEOREM LockInvariant == Spec => []LockInv
<1>1. Init => LockInv
  BY DEF Init, LockInv, TypeOK, QueuesWanted, GrantsWanted, HeldIsLocked,
         NoOrphanLock, MutexUnlessExpired, NoLostWakeup, Holders, RangeOf
<1>2. LockInv /\ [Next]_vars => LockInv'
  <2> SUFFICES ASSUME LockInv, [Next]_vars
               PROVE  LockInv'
    OBVIOUS
  <2>1. TypeOK'
    BY TypeStep DEF LockInv
  <2>2. ASSUME NEW c \in Calls, NEW keys \in SUBSET Keys, Acquire(c, keys)
        PROVE  LockInv'
    BY <2>1, <2>2, AcquireStep DEF LockInv
  <2>3. ASSUME NEW c \in Calls, Enter(c)
        PROVE  LockInv'
    <3>1. /\ granted[c] = wants[c]
          /\ pc' = [pc EXCEPT ![c] = "inside"]
          /\ pc[c] = "acquiring"
          /\ UNCHANGED <<wants, granted, locks, waiters, woken, expired>>
      BY <2>3 DEF Enter, CanEnter
    <3> USE DEF LockInv
    <3>2. QueuesWanted' /\ GrantsWanted' /\ NoLostWakeup'
      BY <3>1 DEF QueuesWanted, GrantsWanted, NoLostWakeup, TypeOK
    <3>3. HeldIsLocked' /\ NoOrphanLock' /\ MutexUnlessExpired'
      BY <3>1 DEF HeldIsLocked, NoOrphanLock, MutexUnlessExpired, Holders
    <3> QED
      BY <2>1, <3>2, <3>3
  <2>4. ASSUME NEW c \in Calls, Release(c)
        PROVE  LockInv'
    BY <2>1, <2>4, ReleaseStep DEF LockInv
  <2>5. ASSUME NEW k \in Keys, Resume(k)
        PROVE  LockInv'
    BY <2>1, <2>5, ResumeStep DEF LockInv
  <2>6. ASSUME NEW k \in Keys, Timeout(k)
        PROVE  LockInv'
    BY <2>1, <2>6, TimeoutStep DEF LockInv
  <2>7. CASE UNCHANGED vars
    BY <2>7 DEF vars, LockInv, TypeOK, QueuesWanted, GrantsWanted, HeldIsLocked,
                NoOrphanLock, MutexUnlessExpired, NoLostWakeup, Holders
  <2> QED
    BY <2>2, <2>3, <2>4, <2>5, <2>6, <2>7 DEF Next
<1> QED
  BY <1>1, <1>2, PTL DEF Spec

\* No two calls hold a key at once unless a timer took it from one of them.
THEOREM Exclusion == Spec => []MutexUnlessExpired
  BY LockInvariant, PTL DEF LockInv

\* A call that waits for a key is queued for it, and the key is locked.
THEOREM WaitersAreWoken == Spec => []NoLostWakeup
  BY LockInvariant, PTL DEF LockInv

\* A locked key always has a holder that will give it up.
THEOREM LocksAreHeld == Spec => []NoOrphanLock
  BY LockInvariant, PTL DEF LockInv
=============================================================================
