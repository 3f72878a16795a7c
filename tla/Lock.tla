------------------------------- MODULE Lock -------------------------------
(***************************************************************************)
(* The keyed asynchronous lock of src/utils/lock.ts, which the producer    *)
(* takes per topic (metadata) and per node (produce requests).             *)
(*                                                                         *)
(* A member of Calls is one call of Lock.acquire(keys, callback).  The     *)
(* code runs on one JavaScript thread: what stands between two awaits is   *)
(* atomic.  A released key wakes every waiter, and a woken waiter only     *)
(* looks at the key again when its continuation runs, so other calls can   *)
(* get in between.  A timer is a macrotask: it fires only when no          *)
(* continuation is pending.                                                *)
(***************************************************************************)
EXTENDS Naturals, Sequences, FiniteSets

CONSTANTS
    Calls,    \* calls of acquire()
    Keys      \* the names that can be locked

VARIABLES
    pc,        \* pc[c]: "new", "acquiring", "inside" (its callback runs), "done"
    wants,     \* wants[c]: the keys argument of call c
    granted,   \* granted[c]: the keys whose acquireKey has returned to c
    locks,     \* locks[k]: this.locks[key]
    waiters,   \* waiters[k]: the calls with a `release:key` listener and a timer
    woken,     \* woken[k]: the calls whose listener ran and that have not resumed
    expired    \* history: a timer of k has fired since k was last held by nobody

vars == <<pc, wants, granted, locks, waiters, woken, expired>>

RangeOf(s) == {s[i] : i \in 1..Len(s)}

Holders(k) == {c \in Calls : k \in granted[c]}

TypeOK ==
    /\ pc \in [Calls -> {"new", "acquiring", "inside", "done"}]
    /\ wants \in [Calls -> SUBSET Keys]
    /\ granted \in [Calls -> SUBSET Keys]
    /\ locks \in [Keys -> BOOLEAN]
    /\ waiters \in [Keys -> Seq(Calls)]
    /\ woken \in [Keys -> Seq(Calls)]
    /\ expired \in [Keys -> BOOLEAN]

Init ==
    /\ pc = [c \in Calls |-> "new"]
    /\ wants = [c \in Calls |-> {}]
    /\ granted = [c \in Calls |-> {}]
    /\ locks = [k \in Keys |-> FALSE]
    /\ waiters = [k \in Keys |-> <<>>]
    /\ woken = [k \in Keys |-> <<>>]
    /\ expired = [k \in Keys |-> FALSE]

(***************************************************************************)
(* acquire(keys, callback) up to its await: acquireKey runs synchronously  *)
(* for every key, takes those that are free and waits on the others.       *)
(***************************************************************************)
Acquire(c, keys) ==
    LET free == {k \in keys : ~locks[k]}
    IN  /\ pc[c] = "new"
        /\ pc' = [pc EXCEPT ![c] = "acquiring"]
        /\ wants' = [wants EXCEPT ![c] = keys]
        /\ granted' = [granted EXCEPT ![c] = free]
        /\ locks' = [k \in Keys |-> locks[k] \/ k \in free]
        /\ waiters' = [k \in Keys |-> IF k \in keys \ free
                                      THEN Append(waiters[k], c)
                                      ELSE waiters[k]]
        /\ UNCHANGED <<woken, expired>>

\* Mutant: an `if` where acquireKey has a `while`.
TakeUnchecked(c, k) ==
    /\ locks' = [locks EXCEPT ![k] = TRUE]
    /\ granted' = [granted EXCEPT ![c] = @ \cup {k}]
    /\ UNCHANGED waiters

(***************************************************************************)
(* The first woken waiter of k continues in the while loop of acquireKey:  *)
(* it takes the key if it is still free, otherwise it waits again.         *)
(***************************************************************************)
TakeOrWaitAgain(c, k) ==
    IF locks[k]
    THEN /\ waiters' = [waiters EXCEPT ![k] = Append(@, c)]
         /\ UNCHANGED <<locks, granted>>
    ELSE /\ locks' = [locks EXCEPT ![k] = TRUE]
         /\ granted' = [granted EXCEPT ![c] = @ \cup {k}]
         /\ UNCHANGED waiters

Resume(k) ==
    /\ woken[k] # <<>>
    /\ woken' = [woken EXCEPT ![k] = Tail(@)]
    /\ TakeOrWaitAgain(Head(woken[k]), k)
    /\ UNCHANGED <<pc, wants, expired>>

\* Promise.all has settled: the callback starts.
CanEnter(c) == pc[c] = "acquiring" /\ granted[c] = wants[c]

Enter(c) ==
    /\ CanEnter(c)
    /\ pc' = [pc EXCEPT ![c] = "inside"]
    /\ UNCHANGED <<wants, granted, locks, waiters, woken, expired>>

\* Mutant: releaseKey without its emit.
ReleaseSilently(ks) ==
    /\ locks' = [k \in Keys |-> locks[k] /\ k \notin ks]
    /\ UNCHANGED <<woken, waiters>>

\* Mutant: releaseKey deletes the entry and wakes only the first waiter.
ReleaseDeletes(ks) ==
    /\ locks' = [k \in Keys \ ks |-> locks[k]]
    /\ woken' = [k \in Keys |-> IF k \in ks /\ waiters[k] # <<>>
                                THEN Append(woken[k], Head(waiters[k]))
                                ELSE woken[k]]
    /\ waiters' = [k \in Keys |-> IF k \in ks THEN <<>> ELSE waiters[k]]

(***************************************************************************)
(* releaseKey for each key of ks: it does not look at who holds the key,   *)
(* and the emit runs every listener, so all waiters are woken in order.    *)
(***************************************************************************)
ReleaseKeys(ks) ==
    /\ locks' = [k \in Keys |-> locks[k] /\ k \notin ks]
    /\ woken' = [k \in Keys |-> IF k \in ks THEN woken[k] \o waiters[k]
                                            ELSE woken[k]]
    /\ waiters' = [k \in Keys |-> IF k \in ks THEN <<>> ELSE waiters[k]]

\* Mutant: no finally, so a callback that throws keeps its keys locked.
ReleaseOnlyOnSuccess(c) ==
    /\ pc[c] = "inside"
    /\ pc' = [pc EXCEPT ![c] = "done"]
    /\ granted' = [granted EXCEPT ![c] = {}]
    /\ UNCHANGED <<wants, locks, waiters, woken, expired>>

\* The callback of c returned or threw: the finally block gives up its keys.
Release(c) ==
    /\ pc[c] = "inside"
    /\ pc' = [pc EXCEPT ![c] = "done"]
    /\ granted' = [granted EXCEPT ![c] = {}]
    /\ ReleaseKeys(wants[c])
    /\ expired' = [k \in Keys |-> expired[k] /\ Holders(k) # {c}]
    /\ UNCHANGED wants

\* Mutant: the timer only logs.
TimeoutOnlyLogs(k) ==
    /\ waiters[k] # <<>>
    /\ expired' = [expired EXCEPT ![k] = TRUE]
    /\ UNCHANGED <<pc, wants, granted, locks, waiters, woken>>

(***************************************************************************)
(* The 60 second timer of some waiter of k fires and releases the key on   *)
(* behalf of its holder, which goes on as if it held the key.              *)
(***************************************************************************)
Timeout(k) ==
    /\ waiters[k] # <<>>
    /\ \A j \in Keys : woken[j] = <<>>
    /\ \A c \in Calls : ~CanEnter(c)
    /\ ReleaseKeys({k})
    /\ expired' = [expired EXCEPT ![k] = TRUE]
    /\ UNCHANGED <<pc, wants, granted>>

Next ==
    \/ \E c \in Calls : \E keys \in SUBSET Keys : Acquire(c, keys)
    \/ \E c \in Calls : Enter(c) \/ Release(c)
    \/ \E k \in Keys : Resume(k) \/ Timeout(k)

(***************************************************************************)
(* The event loop runs continuations and timers.  Nothing says that a      *)
(* callback ever returns: Release has no fairness.                         *)
(***************************************************************************)
Fairness ==
    /\ \A c \in Calls : WF_vars(Enter(c))
    /\ \A k \in Keys : WF_vars(Resume(k)) /\ WF_vars(Timeout(k))

Spec == Init /\ [][Next]_vars

FairSpec == Spec /\ Fairness

-----------------------------------------------------------------------------

(***************************************************************************)
(* A call that still misses a key is either about to look at it again, or  *)
(* listens for the release of a key that really is locked: acquireKey      *)
(* loses no wakeup, however releases, timers and new calls interleave.     *)
(***************************************************************************)
NoLostWakeup ==
    \A c \in Calls : \A k \in wants[c] \ granted[c] :
        pc[c] = "acquiring" =>
            \/ c \in RangeOf(woken[k])
            \/ c \in RangeOf(waiters[k]) /\ locks[k]

(***************************************************************************)
(* A locked key has a holder, so some releaseKey is still to come: the     *)
(* lock table never keeps a key that nobody will give up, even after a     *)
(* holder that overran its timer has released its successor's key.         *)
(***************************************************************************)
NoOrphanLock == \A k \in Keys : locks[k] => Holders(k) # {}

(***************************************************************************)
(* Two calls hold a key at the same time only if a waiter's 60 second      *)
(* timer has taken it from a holder: without timers, acquire excludes.     *)
(***************************************************************************)
MutexUnlessExpired ==
    \A k \in Keys : \A c, d \in Holders(k) : c = d \/ expired[k]

(***************************************************************************)
(* Every call gets its keys and starts its callback, even when a holder    *)
(* never finishes or two calls wait for each other's keys: the timers of   *)
(* acquireKey break the wait.                                              *)
(***************************************************************************)
AcquireCompletes ==
    \A c \in Calls : pc[c] = "acquiring" ~> pc[c] = "inside"
=============================================================================
