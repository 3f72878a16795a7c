----------------------- MODULE ConsumerLifecycleProofs -----------------------
(***************************************************************************)
(* What TLC checks of ConsumerLifecycle on two nodes, proved for every set *)
(* of leader nodes, any number of close() calls and any number of errors.  *)
(***************************************************************************)
EXTENDS ConsumerLifecycle, TLAPS

-----------------------------------------------------------------------------
(* The inductive invariant.                                                *)

\* The application has not called close().
Quiet == \A c \in Closers : closer[c] = "new"

\* Every manager but the first follows an error, so their number is bounded.
ManagersFollowErrors ==
    /\ gen + errors <= IF main \in {"fetching", "waiting", "exited"} THEN MaxErrors + 1
                                                                    ELSE MaxErrors
    /\ main \in {"fetching", "stopping", "waiting"} => gen > 0

\* Who is in the stop hook has called close(); the loop's own close() stands
\* there only until the loop or start() comes by.
HookExplained ==
    /\ stopHook \in Closers => closer[stopHook] # "new"
    /\ stopHook = "restart" => main \in {"fencedClosing", "restartClosing", "exited"}

\* A close() that was called back finds the loop ended.
CalledBackIsOver ==
    \A c \in Closers : closer[c] \in {"leaving", "done"} => main = "exited"

\* Only fetchers of the current manager go on, and only as long as it runs.
RunningIsCurrent ==
    \A g \in Managers, n \in Nodes :
        isRunning[g][n] => Active(g, n) /\ g = gen /\ main = "fetching"

\* Without a stop hook no fetcher of a running manager has stopped.
UnstoppedRuns ==
    main = "fetching" /\ stopHook = "none" =>
        \A n \in Nodes : phase[gen][n] # "none" => isRunning[gen][n]

\* A manager that throws waits for every fetcher that is still active.
ThrowingAwaitsActive ==
    main = "stopping" /\ Quiet => \A n \in Nodes : Active(gen, n) => n \in awaited

LifecycleInv ==
    /\ TypeOK
    /\ ManagersFollowErrors
    /\ HookExplained
    /\ CalledBackIsOver
    /\ RunningIsCurrent
    /\ UnstoppedRuns
    /\ ThrowingAwaitsActive
    /\ RestartWaitsForBatches

-----------------------------------------------------------------------------
(* Every action keeps the invariant.                                       *)

\* The loop goes on without a stop hook, and calls it back otherwise.
LEMMA LoopHeadEffect ==
    ASSUME TypeOK, LoopHead
    PROVE  \/ main' = "joining" /\ stopHook = "none" /\ UNCHANGED closer
           \/ main' = "exited" /\ stopHook # "none" /\ CallStopHook
  BY DEF LoopHead

\* The catch block rejoins, ends, closes or waits a second.
LEMMA CatchEffect ==
    ASSUME TypeOK, NEW e \in Errors, Catch(e)
    PROVE  \/ main' = "joining" /\ stopHook = "none" /\ UNCHANGED <<stopHook, closer>>
           \/ main' = "exited" /\ stopHook # "none" /\ UNCHANGED stopHook /\ CallStopHook
           \/ /\ main' \in {"fencedClosing", "restartClosing"}
              /\ stopHook' = "restart" /\ UNCHANGED closer
           \/ main' = "delay" /\ UNCHANGED <<stopHook, closer>>
<1>1. CASE e = "rebalance"
  BY <1>1, LoopHeadEffect DEF Catch
<1>2. CASE e = "fenced"
  BY <1>2 DEF Catch
<1>3. CASE e = "restart"
  BY <1>3 DEF Catch
<1>4. CASE e = "other"
  BY <1>4 DEF Catch
<1> QED
  BY <1>1, <1>2, <1>3, <1>4 DEF Errors

\* Start succeeds: the loop looks at the stop hook.
LEMMA StartSucceedsStep ==
    ASSUME LifecycleInv, StartSucceeds
    PROVE  LifecycleInv'
<1> USE MaxErrorsAssumption, ClosersAssumption DEF LifecycleInv, fetchVars, Managers
<1>1. TypeOK'
  BY DEF TypeOK, Stages, Errors, StartSucceeds, LoopHead, CallStopHook
<1>2. ManagersFollowErrors'
  BY DEF ManagersFollowErrors, TypeOK, StartSucceeds, LoopHead, CallStopHook
<1>3. HookExplained'
  BY DEF HookExplained, TypeOK, StartSucceeds, LoopHead, CallStopHook
<1>4. CalledBackIsOver'
  BY DEF CalledBackIsOver, TypeOK, StartSucceeds, LoopHead, CallStopHook
<1>5. RunningIsCurrent'
  BY DEF RunningIsCurrent, Active, TypeOK, StartSucceeds, LoopHead, CallStopHook
<1>6. UnstoppedRuns'
  BY DEF UnstoppedRuns, TypeOK, RunningIsCurrent, HookExplained, StartSucceeds, LoopHead,
     CallStopHook
<1>7. ThrowingAwaitsActive'
  BY DEF ThrowingAwaitsActive, Quiet, Active, TypeOK, RunningIsCurrent, StartSucceeds, LoopHead,
     CallStopHook
<1>8. RestartWaitsForBatches'
  BY DEF RestartWaitsForBatches, Active, TypeOK, RunningIsCurrent, HookExplained, StartSucceeds,
     LoopHead, CallStopHook
<1> QED
  BY <1>1, <1>2, <1>3, <1>4, <1>5, <1>6, <1>7, <1>8

\* Start fails: a second passes.
LEMMA StartFailsStep ==
    ASSUME LifecycleInv, StartFails
    PROVE  LifecycleInv'
<1> USE MaxErrorsAssumption, ClosersAssumption DEF LifecycleInv, fetchVars, Managers
<1>1. TypeOK'
  BY DEF TypeOK, Stages, Errors, StartFails, Fails
<1>2. ManagersFollowErrors'
  BY DEF ManagersFollowErrors, TypeOK, StartFails, Fails
<1>3. HookExplained'
  BY DEF HookExplained, TypeOK, StartFails, Fails
<1>4. CalledBackIsOver'
  BY DEF CalledBackIsOver, TypeOK, StartFails, Fails
<1>5. RunningIsCurrent'
  BY DEF RunningIsCurrent, Active, TypeOK, StartFails, Fails
<1>6. UnstoppedRuns'
  BY DEF UnstoppedRuns, TypeOK, RunningIsCurrent, HookExplained, StartFails, Fails
<1>7. ThrowingAwaitsActive'
  BY DEF ThrowingAwaitsActive, Quiet, Active, TypeOK, RunningIsCurrent, StartFails, Fails
<1>8. RestartWaitsForBatches'
  BY DEF RestartWaitsForBatches, Active, TypeOK, RunningIsCurrent, HookExplained, StartFails,
     Fails
<1> QED
  BY <1>1, <1>2, <1>3, <1>4, <1>5, <1>6, <1>7, <1>8

\* The second is over: a close() is called back, or start() closes and starts again.
LEMMA StartDelayEndsStep ==
    ASSUME LifecycleInv, StartDelayEnds
    PROVE  LifecycleInv'
<1> USE MaxErrorsAssumption, ClosersAssumption DEF LifecycleInv, fetchVars, Managers
<1>1. TypeOK'
  BY DEF TypeOK, Stages, Errors, StartDelayEnds, CallStopHook
<1>2. ManagersFollowErrors'
  BY DEF ManagersFollowErrors, TypeOK, StartDelayEnds, CallStopHook
<1>3. HookExplained'
  BY DEF HookExplained, TypeOK, StartDelayEnds, CallStopHook
<1>4. CalledBackIsOver'
  BY DEF CalledBackIsOver, TypeOK, StartDelayEnds, CallStopHook
<1>5. RunningIsCurrent'
  BY DEF RunningIsCurrent, Active, TypeOK, StartDelayEnds, CallStopHook
<1>6. UnstoppedRuns'
  BY DEF UnstoppedRuns, TypeOK, RunningIsCurrent, HookExplained, StartDelayEnds, CallStopHook
<1>7. ThrowingAwaitsActive'
  BY DEF ThrowingAwaitsActive, Quiet, Active, TypeOK, RunningIsCurrent, StartDelayEnds,
     CallStopHook
<1>8. RestartWaitsForBatches'
  BY DEF RestartWaitsForBatches, Active, TypeOK, RunningIsCurrent, HookExplained,
     StartDelayEnds, CallStopHook
<1> QED
  BY <1>1, <1>2, <1>3, <1>4, <1>5, <1>6, <1>7, <1>8

\* start() resets the stop hook.
LEMMA RestartStep ==
    ASSUME LifecycleInv, Restart
    PROVE  LifecycleInv'
<1> USE MaxErrorsAssumption, ClosersAssumption DEF LifecycleInv, fetchVars, Managers
<1>1. TypeOK'
  BY DEF TypeOK, Stages, Errors, Restart
<1>2. ManagersFollowErrors'
  BY DEF ManagersFollowErrors, TypeOK, Restart
<1>3. HookExplained'
  BY DEF HookExplained, TypeOK, Restart
<1>4. CalledBackIsOver'
  BY DEF CalledBackIsOver, TypeOK, Restart
<1>5. RunningIsCurrent'
  BY DEF RunningIsCurrent, Active, TypeOK, Restart
<1>6. UnstoppedRuns'
  BY DEF UnstoppedRuns, TypeOK, RunningIsCurrent, HookExplained, Restart
<1>7. ThrowingAwaitsActive'
  BY DEF ThrowingAwaitsActive, Quiet, Active, TypeOK, RunningIsCurrent, Restart
<1>8. RestartWaitsForBatches'
  BY DEF RestartWaitsForBatches, Active, TypeOK, RunningIsCurrent, HookExplained, Restart
<1> QED
  BY <1>1, <1>2, <1>3, <1>4, <1>5, <1>6, <1>7, <1>8

\* A new manager runs a fetcher on every node it got.
LEMMA JoinSucceedsStep ==
    ASSUME LifecycleInv, NEW ns \in SUBSET Nodes, JoinSucceeds(ns)
    PROVE  LifecycleInv'
<1> USE MaxErrorsAssumption, ClosersAssumption DEF LifecycleInv, fetchVars, Managers
<1>1. TypeOK'
  <2>1. gen + 1 \in Managers /\ gen + 1 \in 0..(MaxErrors + 1)
    BY DEF JoinSucceeds, TypeOK, ManagersFollowErrors
  <2>2. /\ phase' \in [Managers -> [Nodes -> {"none", "fetching", "processing", "stopped"}]]
        /\ isRunning' \in [Managers -> [Nodes -> BOOLEAN]]
    BY <2>1 DEF JoinSucceeds, TypeOK
  <2> QED
    BY <2>1, <2>2 DEF JoinSucceeds, TypeOK, Stages
<1>2. ManagersFollowErrors'
  BY DEF ManagersFollowErrors, TypeOK, JoinSucceeds
<1>3. HookExplained'
  BY DEF HookExplained, TypeOK, JoinSucceeds
<1>4. CalledBackIsOver'
  BY DEF CalledBackIsOver, TypeOK, JoinSucceeds
<1>5. RunningIsCurrent'
  BY DEF RunningIsCurrent, Active, TypeOK, JoinSucceeds
<1>6. UnstoppedRuns'
  <2>1. gen + 1 \in Managers /\ gen' = gen + 1
    BY DEF JoinSucceeds, TypeOK, ManagersFollowErrors
  <2>2. \A n \in Nodes : /\ phase'[gen'][n] = IF n \in ns THEN "fetching" ELSE "none"
                         /\ isRunning'[gen'][n] = (n \in ns)
    BY <2>1 DEF JoinSucceeds, TypeOK
  <2> QED
    BY <2>2 DEF UnstoppedRuns
<1>7. ThrowingAwaitsActive'
  BY DEF ThrowingAwaitsActive, Quiet, Active, TypeOK, RunningIsCurrent, JoinSucceeds
<1>8. RestartWaitsForBatches'
  BY DEF RestartWaitsForBatches, Active, TypeOK, RunningIsCurrent, HookExplained, JoinSucceeds
<1> QED
  BY <1>1, <1>2, <1>3, <1>4, <1>5, <1>6, <1>7, <1>8

\* A join that fails leaves no fetcher to wait for.
LEMMA JoinFailsStep ==
    ASSUME LifecycleInv, NEW e \in Errors, JoinFails(e)
    PROVE  LifecycleInv'
<1> USE MaxErrorsAssumption, ClosersAssumption DEF LifecycleInv, fetchVars, Managers
<1>1. \/ main' = "joining" /\ stopHook = "none" /\ UNCHANGED <<stopHook, closer>>
      \/ main' = "exited" /\ stopHook # "none" /\ UNCHANGED stopHook /\ CallStopHook
      \/ /\ main' \in {"fencedClosing", "restartClosing"}
         /\ stopHook' = "restart" /\ UNCHANGED closer
      \/ main' = "delay" /\ UNCHANGED <<stopHook, closer>>
  BY CatchEffect DEF JoinFails
<1>2. TypeOK'
  BY <1>1 DEF TypeOK, Stages, Errors, JoinFails, Fails, CallStopHook
<1>3. ManagersFollowErrors'
  BY <1>1 DEF ManagersFollowErrors, TypeOK, JoinFails, Fails, CallStopHook
<1>4. HookExplained'
  BY <1>1 DEF HookExplained, TypeOK, JoinFails, Fails, CallStopHook
<1>5. CalledBackIsOver'
  BY <1>1 DEF CalledBackIsOver, TypeOK, JoinFails, Fails, CallStopHook
<1>6. RunningIsCurrent'
  BY <1>1 DEF RunningIsCurrent, Active, TypeOK, JoinFails, Fails, CallStopHook
<1>7. UnstoppedRuns'
  BY <1>1 DEF UnstoppedRuns, TypeOK, RunningIsCurrent, HookExplained, JoinFails, Fails,
     CallStopHook
<1>8. ThrowingAwaitsActive'
  BY <1>1 DEF ThrowingAwaitsActive, Quiet, Active, TypeOK, RunningIsCurrent, JoinFails, Fails,
     CallStopHook
<1>9. RestartWaitsForBatches'
  BY <1>1 DEF RestartWaitsForBatches, Active, TypeOK, RunningIsCurrent, HookExplained,
     JoinFails, Fails, CallStopHook
<1> QED
  BY <1>2, <1>3, <1>4, <1>5, <1>6, <1>7, <1>8, <1>9

\* Neither does waiting for an assignment.
LEMMA WaitFailsStep ==
    ASSUME LifecycleInv, NEW e \in Errors, WaitFails(e)
    PROVE  LifecycleInv'
<1> USE MaxErrorsAssumption, ClosersAssumption DEF LifecycleInv, fetchVars, Managers
<1>1. \/ main' = "joining" /\ stopHook = "none" /\ UNCHANGED <<stopHook, closer>>
      \/ main' = "exited" /\ stopHook # "none" /\ UNCHANGED stopHook /\ CallStopHook
      \/ /\ main' \in {"fencedClosing", "restartClosing"}
         /\ stopHook' = "restart" /\ UNCHANGED closer
      \/ main' = "delay" /\ UNCHANGED <<stopHook, closer>>
  BY CatchEffect DEF WaitFails
<1>2. TypeOK'
  BY <1>1 DEF TypeOK, Stages, Errors, WaitFails, Fails, CallStopHook
<1>3. ManagersFollowErrors'
  BY <1>1 DEF ManagersFollowErrors, TypeOK, WaitFails, Fails, CallStopHook
<1>4. HookExplained'
  BY <1>1 DEF HookExplained, TypeOK, WaitFails, Fails, CallStopHook
<1>5. CalledBackIsOver'
  BY <1>1 DEF CalledBackIsOver, TypeOK, WaitFails, Fails, CallStopHook
<1>6. RunningIsCurrent'
  BY <1>1 DEF RunningIsCurrent, Active, TypeOK, WaitFails, Fails, CallStopHook
<1>7. UnstoppedRuns'
  BY <1>1 DEF UnstoppedRuns, TypeOK, RunningIsCurrent, HookExplained, WaitFails, Fails,
     CallStopHook
<1>8. ThrowingAwaitsActive'
  BY <1>1 DEF ThrowingAwaitsActive, Quiet, Active, TypeOK, RunningIsCurrent, WaitFails, Fails,
     CallStopHook
<1>9. RestartWaitsForBatches'
  BY <1>1 DEF RestartWaitsForBatches, Active, TypeOK, RunningIsCurrent, HookExplained,
     WaitFails, Fails, CallStopHook
<1> QED
  BY <1>2, <1>3, <1>4, <1>5, <1>6, <1>7, <1>8, <1>9

\* A manager returns when no fetcher is active any more.
LEMMA ManagerReturnsStep ==
    ASSUME LifecycleInv, ManagerReturns
    PROVE  LifecycleInv'
<1> USE MaxErrorsAssumption, ClosersAssumption DEF LifecycleInv, fetchVars, Managers
<1>1. TypeOK'
  BY DEF TypeOK, Stages, Errors, ManagerReturns, LoopHead, CallStopHook
<1>2. ManagersFollowErrors'
  <2>1. stopHook = "none" => \A n \in Nodes : phase[gen][n] = "none"
    BY DEF ManagerReturns, ManagersFollowErrors, UnstoppedRuns, RunningIsCurrent, TypeOK
  <2> QED
    BY <2>1 DEF ManagersFollowErrors, ManagerReturns, LoopHead, TypeOK
<1>3. HookExplained'
  BY DEF HookExplained, TypeOK, ManagerReturns, LoopHead, CallStopHook
<1>4. CalledBackIsOver'
  BY DEF CalledBackIsOver, TypeOK, ManagerReturns, LoopHead, CallStopHook
<1>5. RunningIsCurrent'
  BY DEF RunningIsCurrent, Active, TypeOK, ManagerReturns, LoopHead, CallStopHook
<1>6. UnstoppedRuns'
  BY DEF UnstoppedRuns, TypeOK, RunningIsCurrent, HookExplained, ManagerReturns, LoopHead,
     CallStopHook
<1>7. ThrowingAwaitsActive'
  BY DEF ThrowingAwaitsActive, Quiet, Active, TypeOK, RunningIsCurrent, ManagerReturns,
     LoopHead, CallStopHook
<1>8. RestartWaitsForBatches'
  BY DEF RestartWaitsForBatches, Active, TypeOK, RunningIsCurrent, HookExplained,
     ManagerReturns, LoopHead, CallStopHook
<1> QED
  BY <1>1, <1>2, <1>3, <1>4, <1>5, <1>6, <1>7, <1>8

\* A manager throws when the fetchers it waits for have stopped.
LEMMA ManagerThrowsStep ==
    ASSUME LifecycleInv, ManagerThrows
    PROVE  LifecycleInv'
<1> USE MaxErrorsAssumption, ClosersAssumption DEF LifecycleInv, fetchVars, Managers
<1>1. \/ main' = "joining" /\ stopHook = "none" /\ UNCHANGED <<stopHook, closer>>
      \/ main' = "exited" /\ stopHook # "none" /\ UNCHANGED stopHook /\ CallStopHook
      \/ /\ main' \in {"fencedClosing", "restartClosing"}
         /\ stopHook' = "restart" /\ UNCHANGED closer
      \/ main' = "delay" /\ UNCHANGED <<stopHook, closer>>
  <2>1. failure \in Errors
    BY DEF ManagerThrows, TypeOK
  <2> QED
    BY <2>1, CatchEffect DEF ManagerThrows
<1>2. TypeOK'
  BY <1>1 DEF TypeOK, Stages, Errors, ManagerThrows, CallStopHook
<1>3. ManagersFollowErrors'
  BY <1>1 DEF ManagersFollowErrors, TypeOK, ManagerThrows, CallStopHook
<1>4. HookExplained'
  BY <1>1 DEF HookExplained, TypeOK, ManagerThrows, CallStopHook
<1>5. CalledBackIsOver'
  BY <1>1 DEF CalledBackIsOver, TypeOK, ManagerThrows, CallStopHook
<1>6. RunningIsCurrent'
  BY <1>1 DEF RunningIsCurrent, Active, TypeOK, ManagerThrows, CallStopHook
<1>7. UnstoppedRuns'
  BY <1>1 DEF UnstoppedRuns, TypeOK, RunningIsCurrent, HookExplained, ManagerThrows,
     CallStopHook
<1>8. ThrowingAwaitsActive'
  BY <1>1 DEF ThrowingAwaitsActive, Quiet, Active, TypeOK, RunningIsCurrent, ManagerThrows,
     CallStopHook
<1>9. RestartWaitsForBatches'
  BY <1>1 DEF RestartWaitsForBatches, Active, TypeOK, RunningIsCurrent, HookExplained,
     ThrowingAwaitsActive, Quiet, ManagerThrows, CallStopHook
<1> QED
  BY <1>2, <1>3, <1>4, <1>5, <1>6, <1>7, <1>8, <1>9

\* Waiting ends for a stop hook.
LEMMA WaitEndsStep ==
    ASSUME LifecycleInv, WaitEnds
    PROVE  LifecycleInv'
<1> USE MaxErrorsAssumption, ClosersAssumption DEF LifecycleInv, fetchVars, Managers
<1>1. TypeOK'
  BY DEF TypeOK, Stages, Errors, WaitEnds, LoopHead, CallStopHook
<1>2. ManagersFollowErrors'
  BY DEF ManagersFollowErrors, TypeOK, WaitEnds, LoopHead, CallStopHook
<1>3. HookExplained'
  BY DEF HookExplained, TypeOK, WaitEnds, LoopHead, CallStopHook
<1>4. CalledBackIsOver'
  BY DEF CalledBackIsOver, TypeOK, WaitEnds, LoopHead, CallStopHook
<1>5. RunningIsCurrent'
  BY DEF RunningIsCurrent, Active, TypeOK, WaitEnds, LoopHead, CallStopHook
<1>6. UnstoppedRuns'
  BY DEF UnstoppedRuns, TypeOK, RunningIsCurrent, HookExplained, WaitEnds, LoopHead,
     CallStopHook
<1>7. ThrowingAwaitsActive'
  BY DEF ThrowingAwaitsActive, Quiet, Active, TypeOK, RunningIsCurrent, WaitEnds, LoopHead,
     CallStopHook
<1>8. RestartWaitsForBatches'
  BY DEF RestartWaitsForBatches, Active, TypeOK, RunningIsCurrent, HookExplained, WaitEnds,
     LoopHead, CallStopHook
<1> QED
  BY <1>1, <1>2, <1>3, <1>4, <1>5, <1>6, <1>7, <1>8

\* The second after an error is over.
LEMMA DelayEndsStep ==
    ASSUME LifecycleInv, DelayEnds
    PROVE  LifecycleInv'
<1> USE MaxErrorsAssumption, ClosersAssumption DEF LifecycleInv, fetchVars, Managers
<1>1. TypeOK'
  BY DEF TypeOK, Stages, Errors, DelayEnds
<1>2. ManagersFollowErrors'
  BY DEF ManagersFollowErrors, TypeOK, DelayEnds
<1>3. HookExplained'
  BY DEF HookExplained, TypeOK, DelayEnds
<1>4. CalledBackIsOver'
  BY DEF CalledBackIsOver, TypeOK, DelayEnds
<1>5. RunningIsCurrent'
  BY DEF RunningIsCurrent, Active, TypeOK, DelayEnds
<1>6. UnstoppedRuns'
  BY DEF UnstoppedRuns, TypeOK, RunningIsCurrent, HookExplained, DelayEnds
<1>7. ThrowingAwaitsActive'
  BY DEF ThrowingAwaitsActive, Quiet, Active, TypeOK, RunningIsCurrent, DelayEnds
<1>8. RestartWaitsForBatches'
  BY DEF RestartWaitsForBatches, Active, TypeOK, RunningIsCurrent, HookExplained, DelayEnds
<1> QED
  BY <1>1, <1>2, <1>3, <1>4, <1>5, <1>6, <1>7, <1>8

\* A fenced consumer is over.
LEMMA FencedExitsStep ==
    ASSUME LifecycleInv, FencedExits
    PROVE  LifecycleInv'
<1> USE MaxErrorsAssumption, ClosersAssumption DEF LifecycleInv, fetchVars, Managers
<1>1. TypeOK'
  BY DEF TypeOK, Stages, Errors, FencedExits
<1>2. ManagersFollowErrors'
  BY DEF ManagersFollowErrors, TypeOK, FencedExits
<1>3. HookExplained'
  BY DEF HookExplained, TypeOK, FencedExits
<1>4. CalledBackIsOver'
  BY DEF CalledBackIsOver, TypeOK, FencedExits
<1>5. RunningIsCurrent'
  BY DEF RunningIsCurrent, Active, TypeOK, FencedExits
<1>6. UnstoppedRuns'
  BY DEF UnstoppedRuns, TypeOK, RunningIsCurrent, HookExplained, FencedExits
<1>7. ThrowingAwaitsActive'
  BY DEF ThrowingAwaitsActive, Quiet, Active, TypeOK, RunningIsCurrent, FencedExits
<1>8. RestartWaitsForBatches'
  BY DEF RestartWaitsForBatches, Active, TypeOK, RunningIsCurrent, HookExplained, FencedExits
<1> QED
  BY <1>1, <1>2, <1>3, <1>4, <1>5, <1>6, <1>7, <1>8

\* A fetch that returns goes on only where its manager does.
LEMMA FetchReturnsStep ==
    ASSUME LifecycleInv, NEW g \in Managers, NEW n \in Nodes, FetchReturns(g, n)
    PROVE  LifecycleInv'
<1> USE MaxErrorsAssumption, ClosersAssumption DEF LifecycleInv, fetchVars, Managers
<1>1. TypeOK'
  BY DEF TypeOK, Stages, Errors, FetchReturns
<1>2. ManagersFollowErrors'
  BY DEF ManagersFollowErrors, TypeOK, FetchReturns
<1>3. HookExplained'
  BY DEF HookExplained, TypeOK, FetchReturns
<1>4. CalledBackIsOver'
  BY DEF CalledBackIsOver, TypeOK, FetchReturns
<1>5. RunningIsCurrent'
  BY DEF RunningIsCurrent, Active, TypeOK, FetchReturns
<1>6. UnstoppedRuns'
  BY DEF UnstoppedRuns, TypeOK, RunningIsCurrent, HookExplained, FetchReturns
<1>7. ThrowingAwaitsActive'
  BY DEF ThrowingAwaitsActive, Quiet, Active, TypeOK, RunningIsCurrent, FetchReturns
<1>8. RestartWaitsForBatches'
  BY DEF RestartWaitsForBatches, Active, TypeOK, RunningIsCurrent, HookExplained, FetchReturns
<1> QED
  BY <1>1, <1>2, <1>3, <1>4, <1>5, <1>6, <1>7, <1>8

\* So does a batch.
LEMMA ProcessReturnsStep ==
    ASSUME LifecycleInv, NEW g \in Managers, NEW n \in Nodes, ProcessReturns(g, n)
    PROVE  LifecycleInv'
<1> USE MaxErrorsAssumption, ClosersAssumption DEF LifecycleInv, fetchVars, Managers
<1>1. TypeOK'
  BY DEF TypeOK, Stages, Errors, ProcessReturns
<1>2. ManagersFollowErrors'
  BY DEF ManagersFollowErrors, TypeOK, ProcessReturns
<1>3. HookExplained'
  BY DEF HookExplained, TypeOK, ProcessReturns
<1>4. CalledBackIsOver'
  BY DEF CalledBackIsOver, TypeOK, ProcessReturns
<1>5. RunningIsCurrent'
  BY DEF RunningIsCurrent, Active, TypeOK, ProcessReturns
<1>6. UnstoppedRuns'
  BY DEF UnstoppedRuns, TypeOK, RunningIsCurrent, HookExplained, ProcessReturns
<1>7. ThrowingAwaitsActive'
  BY DEF ThrowingAwaitsActive, Quiet, Active, TypeOK, RunningIsCurrent, ProcessReturns
<1>8. RestartWaitsForBatches'
  BY DEF RestartWaitsForBatches, Active, TypeOK, RunningIsCurrent, HookExplained, ProcessReturns
<1> QED
  BY <1>1, <1>2, <1>3, <1>4, <1>5, <1>6, <1>7, <1>8

\* The first fetcher to fail stops the others, which its manager awaits.
LEMMA FetcherFailsStep ==
    ASSUME LifecycleInv, NEW g \in Managers, NEW n \in Nodes, NEW e \in Errors, FetcherFails(g, n, e)
    PROVE  LifecycleInv'
<1> USE MaxErrorsAssumption, ClosersAssumption DEF LifecycleInv, fetchVars, Managers
<1>1. TypeOK'
  <2>1. phase' \in [Managers -> [Nodes -> {"none", "fetching", "processing", "stopped"}]]
    BY DEF FetcherFails, TypeOK
  <2>2. isRunning' \in [Managers -> [Nodes -> BOOLEAN]] /\ awaited' \subseteq Nodes
    <3>1. CASE g = gen /\ main = "fetching"
      <4>1. /\ isRunning' = [isRunning EXCEPT ![g] = [m \in Nodes |-> FALSE]]
            /\ awaited' = {m \in Nodes \ {n} : isRunning[g][m]}
        BY <3>1 DEF FetcherFails
      <4>2. [m \in Nodes |-> FALSE] \in [Nodes -> BOOLEAN]
        OBVIOUS
      <4> QED
        BY <4>1, <4>2, Zenon DEF TypeOK
    <3>2. CASE ~(g = gen /\ main = "fetching")
      <4>1. isRunning' = [isRunning EXCEPT ![g][n] = FALSE] /\ UNCHANGED awaited
        BY <3>2 DEF FetcherFails
      <4> QED
        BY <4>1 DEF TypeOK
    <3> QED
      BY <3>1, <3>2
  <2>3. /\ errors' \in 0..MaxErrors /\ main' \in Stages
        /\ failure' \in Errors \cup {"none"} /\ (failure' # "none" <=> main' = "stopping")
    BY DEF FetcherFails, Fails, TypeOK, Stages, Errors
  <2> QED
    BY <2>1, <2>2, <2>3 DEF FetcherFails, TypeOK
<1>2. ManagersFollowErrors'
  BY DEF ManagersFollowErrors, TypeOK, FetcherFails, Fails
<1>3. HookExplained'
  BY DEF HookExplained, TypeOK, FetcherFails, Fails
<1>4. CalledBackIsOver'
  BY DEF CalledBackIsOver, TypeOK, FetcherFails, Fails
<1>5. RunningIsCurrent'
  BY DEF RunningIsCurrent, Active, TypeOK, FetcherFails, Fails
<1>6. UnstoppedRuns'
  <2>1. CASE g = gen /\ main = "fetching"
    BY <2>1 DEF UnstoppedRuns, FetcherFails
  <2>2. CASE g # gen /\ main = "fetching"
    <3>1. phase'[gen] = phase[gen] /\ isRunning'[gen] = isRunning[gen]
      BY <2>2 DEF FetcherFails, TypeOK, ManagersFollowErrors
    <3> QED
      BY <2>2, <3>1 DEF UnstoppedRuns, FetcherFails
  <2>3. CASE main # "fetching"
    BY <2>3 DEF UnstoppedRuns, FetcherFails
  <2> QED
    BY <2>1, <2>2, <2>3
<1>7. ThrowingAwaitsActive'
  <2>1. CASE g = gen /\ main = "fetching"
    <3>1. Quiet => stopHook = "none"
      BY <2>1 DEF Quiet, HookExplained, TypeOK
    <3>2. gen \in Managers /\ phase'[gen] = [phase[gen] EXCEPT ![n] = "stopped"]
      BY <2>1 DEF FetcherFails, TypeOK
    <3>3. \A m \in Nodes : phase'[gen][m] = IF m = n THEN "stopped" ELSE phase[gen][m]
      BY <3>2 DEF TypeOK
    <3> QED
      BY <2>1, <3>1, <3>3 DEF ThrowingAwaitsActive, UnstoppedRuns, FetcherFails, Quiet,
                              Active
  <2>2. CASE ~(g = gen /\ main = "fetching")
    BY <2>2 DEF ThrowingAwaitsActive, FetcherFails, Quiet, Active, TypeOK
  <2> QED
    BY <2>1, <2>2
<1>8. RestartWaitsForBatches'
  BY DEF RestartWaitsForBatches, Active, TypeOK, RunningIsCurrent, HookExplained, FetcherFails,
     Fails
<1> QED
  BY <1>1, <1>2, <1>3, <1>4, <1>5, <1>6, <1>7, <1>8

\* close() stops the fetchers of the current manager.
LEMMA CloseStep ==
    ASSUME LifecycleInv, NEW c \in Closers, Close(c)
    PROVE  LifecycleInv'
<1> USE MaxErrorsAssumption, ClosersAssumption DEF LifecycleInv, fetchVars, Managers
<1>1. TypeOK'
  BY DEF TypeOK, Stages, Errors, Close
<1>2. ManagersFollowErrors'
  BY DEF ManagersFollowErrors, TypeOK, Close
<1>3. HookExplained'
  BY DEF HookExplained, TypeOK, Close
<1>4. CalledBackIsOver'
  BY DEF CalledBackIsOver, TypeOK, Close
<1>5. RunningIsCurrent'
  BY DEF RunningIsCurrent, Active, TypeOK, Close
<1>6. UnstoppedRuns'
  BY DEF UnstoppedRuns, TypeOK, RunningIsCurrent, HookExplained, Close
<1>7. ThrowingAwaitsActive'
  BY DEF ThrowingAwaitsActive, Quiet, Active, TypeOK, RunningIsCurrent, Close
<1>8. RestartWaitsForBatches'
  BY DEF RestartWaitsForBatches, Active, TypeOK, RunningIsCurrent, HookExplained, Close
<1> QED
  BY <1>1, <1>2, <1>3, <1>4, <1>5, <1>6, <1>7, <1>8

\* close() resolves once it has been called back.
LEMMA CloseReturnsStep ==
    ASSUME LifecycleInv, NEW c \in Closers, CloseReturns(c)
    PROVE  LifecycleInv'
<1> USE MaxErrorsAssumption, ClosersAssumption DEF LifecycleInv, fetchVars, Managers
<1>1. TypeOK'
  BY DEF TypeOK, Stages, Errors, CloseReturns
<1>2. ManagersFollowErrors'
  BY DEF ManagersFollowErrors, TypeOK, CloseReturns
<1>3. HookExplained'
  BY DEF HookExplained, TypeOK, CloseReturns
<1>4. CalledBackIsOver'
  BY DEF CalledBackIsOver, TypeOK, CloseReturns
<1>5. RunningIsCurrent'
  BY DEF RunningIsCurrent, Active, TypeOK, CloseReturns
<1>6. UnstoppedRuns'
  BY DEF UnstoppedRuns, TypeOK, RunningIsCurrent, HookExplained, CloseReturns
<1>7. ThrowingAwaitsActive'
  BY DEF ThrowingAwaitsActive, Quiet, Active, TypeOK, RunningIsCurrent, CloseReturns
<1>8. RestartWaitsForBatches'
  BY DEF RestartWaitsForBatches, Active, TypeOK, RunningIsCurrent, HookExplained, CloseReturns
<1> QED
  BY <1>1, <1>2, <1>3, <1>4, <1>5, <1>6, <1>7, <1>8

-----------------------------------------------------------------------------
(* The theorems.                                                           *)

\* The initial states satisfy the invariant.
LEMMA InitInv == Init => LifecycleInv
<1> SUFFICES ASSUME Init PROVE LifecycleInv
  OBVIOUS
<1> USE MaxErrorsAssumption, ClosersAssumption DEF Init
<1>1. TypeOK
  <2>1. isRunning \in [Managers -> [Nodes -> BOOLEAN]]
    BY Zenon
  <2>2. /\ phase \in [Managers -> [Nodes -> {"none", "fetching", "processing", "stopped"}]]
        /\ closer \in [Closers -> {"new", "waiting", "leaving", "done"}]
    OBVIOUS
  <2>3. started \in BOOLEAN
    BY Zenon
  <2>4. /\ main \in Stages /\ failure \in Errors \cup {"none"}
        /\ (failure # "none" <=> main = "stopping")
        /\ stopHook \in Closers \cup {"none", "restart"}
        /\ gen \in 0..(MaxErrors + 1) /\ awaited \subseteq Nodes /\ errors \in 0..MaxErrors
    BY DEF Stages, Errors
  <2> HIDE DEF Init
  <2> QED
    BY <2>1, <2>2, <2>3, <2>4, Zenon DEF TypeOK
<1>2. ManagersFollowErrors /\ HookExplained /\ CalledBackIsOver
  BY DEF ManagersFollowErrors, HookExplained, CalledBackIsOver
<1>3. RunningIsCurrent /\ UnstoppedRuns /\ ThrowingAwaitsActive /\ RestartWaitsForBatches
  BY DEF RunningIsCurrent, UnstoppedRuns, ThrowingAwaitsActive, RestartWaitsForBatches,
         Active
<1> QED
  BY <1>1, <1>2, <1>3 DEF LifecycleInv

\* Every step keeps the invariant.
LEMMA InvStep == LifecycleInv /\ [Next]_vars => LifecycleInv'
<1> SUFFICES ASSUME LifecycleInv, [Next]_vars
             PROVE  LifecycleInv'
  OBVIOUS
<1>1. CASE StartSucceeds \/ StartFails \/ StartDelayEnds \/ Restart
  BY <1>1, StartSucceedsStep, StartFailsStep, StartDelayEndsStep, RestartStep
<1>2. CASE \E ns \in SUBSET Nodes : JoinSucceeds(ns)
  BY <1>2, JoinSucceedsStep
<1>3. CASE \E e \in Errors : JoinFails(e) \/ WaitFails(e)
  BY <1>3, JoinFailsStep, WaitFailsStep
<1>4. CASE ManagerReturns \/ ManagerThrows \/ WaitEnds \/ DelayEnds \/ FencedExits
  BY <1>4, ManagerReturnsStep, ManagerThrowsStep, WaitEndsStep, DelayEndsStep,
     FencedExitsStep
<1>5. CASE \E g \in Managers, n \in Nodes :
              \/ FetchReturns(g, n) \/ ProcessReturns(g, n)
              \/ \E e \in Errors : FetcherFails(g, n, e)
  BY <1>5, FetchReturnsStep, ProcessReturnsStep, FetcherFailsStep
<1>6. CASE \E c \in Closers : Close(c) \/ CloseReturns(c)
  BY <1>6, CloseStep, CloseReturnsStep
<1>7. CASE UNCHANGED vars
  BY <1>7 DEF vars, LifecycleInv, TypeOK, ManagersFollowErrors, HookExplained,
              CalledBackIsOver, RunningIsCurrent, UnstoppedRuns, ThrowingAwaitsActive,
              Quiet, RestartWaitsForBatches, Active
<1> QED
  BY <1>1, <1>2, <1>3, <1>4, <1>5, <1>6, <1>7 DEF Next

\* The invariant holds throughout.
THEOREM Invariant == Spec => []LifecycleInv
  BY InitInv, InvStep, PTL DEF Spec

\* Every variable keeps its type; an error is kept exactly while its manager
\* stops its fetchers, and no more managers are made than errors allow.
THEOREM TypeCorrect == Spec => []TypeOK
  BY Invariant, PTL DEF LifecycleInv

\* As long as close() is not called, no batch is being processed when the loop
\* rejoins, leaves the group or disconnects: FetchManager.start() waits.
THEOREM RestartsWaitForBatches == Spec => []RestartWaitsForBatches
  BY Invariant, PTL DEF LifecycleInv

\* Once a close() has resolved, no fetcher ever starts to fetch again.
THEOREM ClosedStaysClosed == Spec => ClosedForGood
<1>1. ASSUME LifecycleInv, [Next]_vars,
             \E c \in Closers : closer[c] = "done",
             NEW g \in Managers, NEW n \in Nodes, phase'[g][n] = "fetching"
      PROVE  phase[g][n] = "fetching"
  <2>1. main = "exited"
    BY <1>1 DEF LifecycleInv, CalledBackIsOver
  <2>2. \A h \in Managers, m \in Nodes : ~isRunning[h][m]
    BY <1>1, <2>1 DEF LifecycleInv, RunningIsCurrent
  <2>3. phase \in [Managers -> [Nodes -> {"none", "fetching", "processing", "stopped"}]]
    BY <1>1 DEF LifecycleInv, TypeOK
  <2>4. CASE StartSucceeds \/ StartFails \/ StartDelayEnds \/ Restart
             \/ (\E ns \in SUBSET Nodes : JoinSucceeds(ns))
             \/ (\E e \in Errors : JoinFails(e) \/ WaitFails(e))
             \/ ManagerReturns \/ ManagerThrows \/ WaitEnds \/ DelayEnds \/ FencedExits
    BY <2>1, <2>4 DEF StartSucceeds, StartFails, StartDelayEnds, Restart, JoinSucceeds,
       JoinFails, WaitFails, ManagerReturns, ManagerThrows, WaitEnds, DelayEnds,
       FencedExits
  <2>5. ASSUME NEW h \in Managers, NEW m \in Nodes,
               \/ FetchReturns(h, m) \/ ProcessReturns(h, m)
               \/ \E e \in Errors : FetcherFails(h, m, e)
        PROVE  phase[g][n] = "fetching"
    <3>1. phase' = [phase EXCEPT ![h][m] = "stopped"]
      BY <2>2, <2>5 DEF FetchReturns, ProcessReturns, FetcherFails
    <3> QED
      BY <1>1, <2>3, <3>1
  <2>6. CASE \E c \in Closers : Close(c) \/ CloseReturns(c)
    BY <1>1, <2>6 DEF Close, CloseReturns, fetchVars
  <2>7. CASE UNCHANGED vars
    BY <1>1, <2>7 DEF vars
  <2> QED
    BY <1>1, <2>4, <2>5, <2>6, <2>7 DEF Next
<1>2. LifecycleInv /\ [Next]_vars
        => [(\E c \in Closers : closer[c] = "done")
               => \A g \in Managers, n \in Nodes :
                     phase'[g][n] = "fetching" => phase[g][n] = "fetching"]_vars
  BY <1>1
<1> QED
  BY <1>2, Invariant, PTL DEF Spec, ClosedForGood
=============================================================================
