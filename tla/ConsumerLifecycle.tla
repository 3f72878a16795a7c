------------------------- MODULE ConsumerLifecycle -------------------------
(***************************************************************************)
(* How a consumer starts, rebalances, restarts and closes:                 *)
(* Consumer.start, close and startFetchManager (src/consumer/consumer.ts)  *)
(* with FetchManager (fetch-manager.ts) and Fetcher (fetcher.ts).          *)
(*                                                                         *)
(* One loop, startFetchManager, joins the group, runs a FetchManager with  *)
(* a Fetcher per leader node until something throws, and decides from the  *)
(* error whether to rejoin, restart or exit.  close() hands the loop a     *)
(* callback in this.stopHook, tells the fetchers to stop, and waits to be  *)
(* called back.  What stands between two awaits is one action.             *)
(*                                                                         *)
(* What the group, the connections and onBatch do is an environment: any   *)
(* await may fail with any error, at most MaxErrors times.                 *)
(***************************************************************************)
EXTENDS Naturals

CONSTANTS
    Nodes,      \* the leader nodes partitions can be assigned on
    Closers,    \* calls of close() by the application
    MaxErrors   \* bound on failures

ASSUME MaxErrorsAssumption == MaxErrors \in Nat

\* The values of this.stopHook that are no close() of the application.
ASSUME ClosersAssumption == Closers \cap {"none", "restart"} = {}

VARIABLES
    main,       \* where the loop, or the start() or close() around it, awaits
    failure,    \* the error FetchManager.start will throw
    stopHook,   \* this.stopHook: a close(), "restart" (the loop's own), "none"
    closer,     \* closer[c]: the progress of close() call c
    started,    \* the first start() has returned: the application has its consumer
    gen,        \* how many FetchManagers were created; the last is current
    phase,      \* phase[g][n]: what the fetcher of node n in manager g does
    isRunning,  \* isRunning[g][n]: this.isRunning of that fetcher
    awaited,    \* the fetchers whose "stopped" event FetchManager.start awaits
    errors      \* failures left

vars == <<main, failure, stopHook, closer, started, gen, phase, isRunning,
          awaited, errors>>

fetchVars == <<gen, phase, isRunning, awaited>>

(***************************************************************************)
(* "restart" stands for a ConnectionError or NOT_COORDINATOR, "other" for  *)
(* every error that has no branch of its own, a failed batch among them.   *)
(***************************************************************************)
Errors == {"rebalance", "fenced", "restart", "other"}

Stages == {"starting", "startDelay", "startClosing", "joining", "fetching",
           "stopping", "waiting", "delay", "restartClosing", "fencedClosing",
           "exited"}

Managers == 1..(MaxErrors + 1)

TypeOK ==
    /\ main \in Stages
    /\ failure \in Errors \cup {"none"}
    /\ failure # "none" <=> main = "stopping"
    /\ stopHook \in Closers \cup {"none", "restart"}
    /\ closer \in [Closers -> {"new", "waiting", "leaving", "done"}]
    /\ started \in BOOLEAN
    /\ gen \in 0..(MaxErrors + 1)
    /\ phase \in [Managers -> [Nodes -> {"none", "fetching", "processing", "stopped"}]]
    /\ isRunning \in [Managers -> [Nodes -> BOOLEAN]]
    /\ awaited \subseteq Nodes
    /\ errors \in 0..MaxErrors

Init ==
    /\ main = "starting" /\ failure = "none" /\ stopHook = "none"
    /\ closer = [c \in Closers |-> "new"]
    /\ started = FALSE
    /\ gen = 0
    /\ phase = [g \in Managers |-> [n \in Nodes |-> "none"]]
    /\ isRunning = [g \in Managers |-> [n \in Nodes |-> FALSE]]
    /\ awaited = {}
    /\ errors = MaxErrors

Active(g, n) == phase[g][n] \in {"fetching", "processing"}

Fails == errors > 0 /\ errors' = errors - 1

\* The callback in this.stopHook is called: its close() leaves the group.
CallStopHook ==
    closer' = [c \in Closers |-> IF c = stopHook THEN "leaving" ELSE closer[c]]

\* Mutant: the loop ends without calling back.
LoopHeadSilent ==
    /\ main' = IF stopHook = "none" THEN "joining" ELSE "exited"
    /\ UNCHANGED closer

\* while (!this.stopHook): the loop ends with this.stopHook?.() or goes on.
LoopHead ==
    IF stopHook = "none"
    THEN main' = "joining" /\ UNCHANGED closer
    ELSE main' = "exited" /\ CallStopHook

-----------------------------------------------------------------------------
(* start()                                                                 *)

\* Cluster, metadata, offsets and coordinator are there: the loop starts.
StartSucceeds ==
    /\ main = "starting"
    /\ started' = TRUE
    /\ LoopHead
    /\ UNCHANGED <<failure, stopHook, fetchVars, errors>>

StartFails ==
    /\ main = "starting"
    /\ main' = "startDelay"
    /\ Fails
    /\ UNCHANGED <<failure, stopHook, closer, started, fetchVars>>

\* Mutant: start() calls back the close() and then starts all the same.
StartDelayGoesOn ==
    /\ main = "startDelay"
    /\ main' = "startClosing"
    /\ CallStopHook
    /\ UNCHANGED <<failure, stopHook, started, fetchVars, errors>>

\* After a second: call back a close() that came meanwhile, or start again.
StartDelayEnds ==
    /\ main = "startDelay"
    /\ IF stopHook # "none"
       THEN main' = "exited" /\ CallStopHook
       ELSE main' = "startClosing" /\ UNCHANGED closer
    /\ UNCHANGED <<failure, stopHook, started, fetchVars, errors>>

\* close() of the consumer itself is through: start() resets the stop hook.
Restart ==
    /\ main \in {"startClosing", "restartClosing"}
    /\ main' = "starting"
    /\ stopHook' = "none"
    /\ UNCHANGED <<failure, closer, started, fetchVars, errors>>

-----------------------------------------------------------------------------
(* startFetchManager()                                                     *)

(***************************************************************************)
(* The catch block.  Its own close() replaces the stop hook, which the     *)
(* loop then calls at once: the consumer leaves the group, and starts      *)
(* again unless it was fenced.  Stopping the manager there has no effect:  *)
(* FetchManager.start has already stopped its fetchers.                    *)
(***************************************************************************)
Catch(e) ==
    CASE e = "rebalance" -> LoopHead /\ UNCHANGED stopHook
      [] e = "fenced"    -> /\ main' = "fencedClosing"
                            /\ stopHook' = "restart"
                            /\ UNCHANGED closer
      [] e = "restart"   -> /\ main' = "restartClosing"
                            /\ stopHook' = "restart"
                            /\ UNCHANGED closer
      [] e = "other"     -> main' = "delay" /\ UNCHANGED <<stopHook, closer>>

\* The group assigns partitions on the nodes ns; a new manager fetches.
JoinSucceeds(ns) ==
    /\ main = "joining"
    /\ main' = "fetching"
    /\ gen' = gen + 1
    /\ phase' = [phase EXCEPT ![gen + 1] =
                    [n \in Nodes |-> IF n \in ns THEN "fetching" ELSE "none"]]
    /\ isRunning' = [isRunning EXCEPT ![gen + 1] = [n \in Nodes |-> n \in ns]]
    /\ UNCHANGED <<failure, stopHook, closer, started, awaited, errors>>

JoinFails(e) ==
    /\ main = "joining"
    /\ Fails
    /\ Catch(e)
    /\ UNCHANGED <<failure, started, fetchVars>>

\* All fetchers have returned; a manager without fetchers returns at once.
ManagerReturns ==
    /\ main = "fetching"
    /\ \A n \in Nodes : ~Active(gen, n)
    /\ IF \A n \in Nodes : phase[gen][n] = "none"
       THEN main' = "waiting" /\ UNCHANGED closer
       ELSE LoopHead
    /\ UNCHANGED <<failure, stopHook, started, fetchVars, errors>>

\* waitForReassignment returns when it sees a stop hook.
WaitEnds ==
    /\ main = "waiting"
    /\ stopHook # "none"
    /\ LoopHead
    /\ UNCHANGED <<failure, stopHook, started, fetchVars, errors>>

\* waitForReassignment throws what the last heartbeat got.
WaitFails(e) ==
    /\ main = "waiting"
    /\ Fails
    /\ Catch(e)
    /\ UNCHANGED <<failure, started, fetchVars>>

\* Mutant: the error stays where the next manager finds it.
ManagerThrowsAgain ==
    /\ main = "stopping"
    /\ \A n \in awaited : phase[gen][n] = "stopped"
    /\ awaited' = {}
    /\ Catch(failure)
    /\ UNCHANGED <<failure, started, gen, phase, isRunning, errors>>

\* FetchManager.start has stopped the fetchers it waits for, and throws.
ManagerThrows ==
    /\ main = "stopping"
    /\ \A n \in awaited : phase[gen][n] = "stopped"
    /\ failure' = "none"
    /\ awaited' = {}
    /\ Catch(failure)
    /\ UNCHANGED <<started, gen, phase, isRunning, errors>>

\* The second after an "other" error is over: close().then(start).
DelayEnds ==
    /\ main = "delay"
    /\ main' = "restartClosing"
    /\ stopHook' = "restart"
    /\ UNCHANGED <<failure, closer, started, fetchVars, errors>>

\* A fenced consumer has left the group; nothing starts it again.
FencedExits ==
    /\ main = "fencedClosing"
    /\ main' = "exited"
    /\ UNCHANGED <<failure, stopHook, closer, started, fetchVars, errors>>

-----------------------------------------------------------------------------
(* Fetcher n of manager g: fetch, then process, then again.                *)

\* A fetch returns: its response is processed unless the fetcher must stop.
FetchReturns(g, n) ==
    /\ phase[g][n] = "fetching"
    /\ phase' = [phase EXCEPT ![g][n] = IF isRunning[g][n] THEN "processing"
                                                           ELSE "stopped"]
    /\ UNCHANGED <<main, failure, stopHook, closer, started, gen, isRunning,
                   awaited, errors>>

ProcessReturns(g, n) ==
    /\ phase[g][n] = "processing"
    /\ phase' = [phase EXCEPT ![g][n] = IF isRunning[g][n] THEN "fetching"
                                                           ELSE "stopped"]
    /\ UNCHANGED <<main, failure, stopHook, closer, started, gen, isRunning,
                   awaited, errors>>

\* Mutant: FetchManager.start rethrows at once.
FailsWithoutAwait(g, n, e) ==
    /\ Active(g, n)
    /\ Fails
    /\ phase' = [phase EXCEPT ![g][n] = "stopped"]
    /\ isRunning' = [isRunning EXCEPT ![g][n] = FALSE]
    /\ IF g = gen /\ main = "fetching"
       THEN main' = "stopping" /\ failure' = e /\ awaited' = {}
       ELSE UNCHANGED <<main, failure, awaited>>
    /\ UNCHANGED <<stopHook, closer, started, gen>>

\* Mutant: stop() waits for the fetchers without telling them.
FailsWithoutStop(g, n, e) ==
    /\ Active(g, n)
    /\ Fails
    /\ phase' = [phase EXCEPT ![g][n] = "stopped"]
    /\ isRunning' = [isRunning EXCEPT ![g][n] = FALSE]
    /\ IF g = gen /\ main = "fetching"
       THEN /\ main' = "stopping"
            /\ failure' = e
            /\ awaited' = {m \in Nodes \ {n} : isRunning[g][m]}
       ELSE UNCHANGED <<main, failure, awaited>>
    /\ UNCHANGED <<stopHook, closer, started, gen>>

(***************************************************************************)
(* The fetcher throws.  The first error of the current manager makes its   *)
(* start() stop the others and wait for those that were still running: a   *)
(* fetcher that close() had told to stop before is not waited for.         *)
(***************************************************************************)
FetcherFails(g, n, e) ==
    /\ Active(g, n)
    /\ Fails
    /\ phase' = [phase EXCEPT ![g][n] = "stopped"]
    /\ IF g = gen /\ main = "fetching"
       THEN /\ main' = "stopping"
            /\ failure' = e
            /\ awaited' = {m \in Nodes \ {n} : isRunning[g][m]}
            /\ isRunning' = [isRunning EXCEPT ![g] = [m \in Nodes |-> FALSE]]
       ELSE /\ isRunning' = [isRunning EXCEPT ![g][n] = FALSE]
            /\ UNCHANGED <<main, failure, awaited>>
    /\ UNCHANGED <<stopHook, closer, started, gen>>

-----------------------------------------------------------------------------
(* close(), called by the application once startConsumer has returned.     *)

Close(c) ==
    /\ started
    /\ closer[c] = "new"
    /\ closer' = [closer EXCEPT ![c] = "waiting"]
    /\ stopHook' = c
    /\ isRunning' = [g \in Managers |-> [n \in Nodes |-> isRunning[g][n] /\ g # gen]]
    /\ UNCHANGED <<main, failure, started, gen, phase, awaited, errors>>

\* The group is left and the cluster disconnected: close() resolves.
CloseReturns(c) ==
    /\ closer[c] = "leaving"
    /\ closer' = [closer EXCEPT ![c] = "done"]
    /\ UNCHANGED <<main, failure, stopHook, started, fetchVars, errors>>

-----------------------------------------------------------------------------

Next ==
    \/ StartSucceeds \/ StartFails \/ StartDelayEnds \/ Restart
    \/ \E ns \in SUBSET Nodes : JoinSucceeds(ns)
    \/ \E e \in Errors : JoinFails(e) \/ WaitFails(e)
    \/ ManagerReturns \/ ManagerThrows \/ WaitEnds \/ DelayEnds \/ FencedExits
    \/ \E g \in Managers, n \in Nodes :
          \/ FetchReturns(g, n) \/ ProcessReturns(g, n)
          \/ \E e \in Errors : FetcherFails(g, n, e)
    \/ \E c \in Closers : Close(c) \/ CloseReturns(c)

(***************************************************************************)
(* Timers fire, requests are answered or time out, onBatch returns.        *)
(***************************************************************************)
Fairness ==
    /\ WF_vars(StartSucceeds) /\ WF_vars(StartDelayEnds) /\ WF_vars(Restart)
    /\ WF_vars(\E ns \in SUBSET Nodes : JoinSucceeds(ns))
    /\ WF_vars(ManagerReturns) /\ WF_vars(ManagerThrows)
    /\ WF_vars(WaitEnds) /\ WF_vars(DelayEnds) /\ WF_vars(FencedExits)
    /\ \A g \in Managers, n \in Nodes :
          WF_vars(FetchReturns(g, n)) /\ WF_vars(ProcessReturns(g, n))
    /\ \A c \in Closers : WF_vars(CloseReturns(c))

Spec == Init /\ [][Next]_vars

FairSpec == Spec /\ Fairness

-----------------------------------------------------------------------------

(***************************************************************************)
(* As long as close() is not called, the consumer never rejoins, leaves    *)
(* the group or disconnects while a batch is being processed, and never    *)
(* runs the fetchers of two managers side by side.                         *)
(***************************************************************************)
RestartWaitsForBatches ==
    \A g \in Managers, n \in Nodes :
        Active(g, n) => \/ g = gen /\ main \in {"fetching", "stopping"}
                        \/ \E c \in Closers : closer[c] # "new"

(***************************************************************************)
(* Once a close() has resolved, no fetcher ever starts: neither an error   *)
(* that was on its way nor a restart brings the consumer back.             *)
(***************************************************************************)
ClosedForGood ==
    [][(\E c \in Closers : closer[c] = "done")
        => \A g \in Managers, n \in Nodes :
              phase'[g][n] = "fetching" => phase[g][n] = "fetching"]_vars

(***************************************************************************)
(* Without close(), every failure ends in fetching again (or in waiting    *)
(* for an assignment), unless another member took this instance's id: no   *)
(* error path waits for a fetcher that has already stopped.                *)
(***************************************************************************)
Recovers ==
    main \in {"starting", "joining", "stopping", "delay"} ~>
        \/ main \in {"fetching", "waiting", "fencedClosing"}
        \/ \E c \in Closers : closer[c] # "new"

(***************************************************************************)
(* A close() that found the loop in start(), in its fetchers or waiting    *)
(* for an assignment resolves, unless its stop hook is replaced.           *)
(***************************************************************************)
Reached(c) ==
    /\ stopHook = c
    /\ \/ main \in {"starting", "startDelay", "waiting"}
       \/ main = "fetching" /\ \A n \in Nodes : ~isRunning[gen][n]

ReachedCloseResolves ==
    \A c \in Closers : Reached(c) ~> closer[c] = "done" \/ stopHook # c

-----------------------------------------------------------------------------
(* What the README says of close(), and the code does not keep.            *)

(***************************************************************************)
(* Every close() resolves.  But the loop does not look at the stop hook    *)
(* after join(), and starts a manager that nobody stops for a close() made *)
(* meanwhile; and a restart overwrites or resets the hook of a close().    *)
(***************************************************************************)
CloseCompletes == \A c \in Closers : closer[c] = "waiting" ~> closer[c] = "done"

(***************************************************************************)
(* close() leaves the group only when the last batch is processed.  After  *)
(* close() has told the fetchers to stop, the first error makes the        *)
(* manager return without waiting for the others.                          *)
(***************************************************************************)
CloseWaitsForBatches ==
    [][\A c \in Closers : closer[c] # "leaving" /\ closer'[c] = "leaving" =>
          \A g \in Managers, n \in Nodes : phase'[g][n] # "processing"]_vars

(***************************************************************************)
(* README.md:77: "await consumer.close(); // waits for the consumer to     *)
(* finish processing the last batch and disconnects".  It may not wait     *)
(* for the batch, and it may never disconnect.                             *)
(***************************************************************************)
CloseKeepsItsWord == CloseWaitsForBatches /\ CloseCompletes
=============================================================================
