--------------------------------- MODULE Scaler ---------------------------------
(***************************************************************************)
(* How the UE simulator follows its target (poc_StressTest/ue/ue_sim.py):  *)
(* set_target, which HTTP requests run on the event loop, the reconcile    *)
(* coroutines it schedules, which one lock keeps apart, and the target     *)
(* persisted for the next start of the container.                          *)
(*                                                                         *)
(* reconcile awaits between two batches only.  Meanwhile the target may    *)
(* change, more reconciles may be scheduled and UE tasks may end; a task   *)
(* it has cancelled is forgotten at once, and is still there while it      *)
(* releases its session (module Stack).                                    *)
(***************************************************************************)
EXTENDS Integers, FiniteSets

CONSTANTS
  MaxUes,       \* MAX_UES
  NumUes,       \* NUM_UES, the target without a persisted one
  SpawnBatch,   \* UE_SPAWN_BATCH
  None,         \* no persisted target
  MaxChanges    \* bound on changes of the target and restarts

ASSUME SizesAssumption ==
  /\ MaxUes \in Nat /\ NumUes \in 0..MaxUes
  /\ SpawnBatch \in Nat \ {0} /\ MaxChanges \in Nat
ASSUME NoneAssumption == None \notin Nat

Idx == 0..(MaxUes - 1)

VARIABLES
  target,       \* target_num_ues
  file,         \* the target on disk
  tasks,        \* ue_tasks: no task, a live one, or one that is done
  stopping,     \* how many cancelled tasks of an index are still releasing
  waiting,      \* reconciles scheduled that have not got the lock yet
  goal,         \* of the reconcile that has the lock, None if there is none
  rest,         \* what it still has to spawn, when it sleeps between batches
  changes

vars == <<target, file, tasks, stopping, waiting, goal, rest, changes>>

-----------------------------------------------------------------------------
Clamp(n) == IF n < 0 THEN 0 ELSE IF n > MaxUes THEN MaxUes ELSE n

\* Mutant: tasks that are there already are spawned again.
ToSpawnAll(g) == {i \in Idx : i < g}

\* What one pass of reconcile finds to spawn after it has cancelled the rest.
ToSpawn(g) == {i \in Idx : i < g /\ tasks[i] # "live"}

\* The first UE_SPAWN_BATCH of them.
Batch(S) == {i \in S : Cardinality({j \in S : j < i}) < SpawnBatch}

Init ==
  /\ target = NumUes
  /\ file = None
  /\ tasks = [i \in Idx |-> "none"]
  /\ stopping = [i \in Idx |-> 0]
  /\ waiting = 1            \* main schedules the first one
  /\ goal = None
  /\ rest = {}
  /\ changes = 0

\* set_target: nothing awaits.  The write may fail, which is only logged, before
\* or after the file was truncated; what is left then reads as no target.
SetTarget(n) ==
  /\ Clamp(n) # target
  /\ target' = Clamp(n)
  /\ file' \in {file, target', None}
  /\ waiting' = waiting + 1
  /\ UNCHANGED <<tasks, stopping, goal, rest>>

\* Mutant: the task at g is not cancelled.
CancelPastGoal(g, spawn) ==
  /\ tasks' = [i \in Idx |-> IF i > g THEN "none"
                             ELSE IF i \in spawn THEN "live" ELSE tasks[i]]
  /\ stopping' = [i \in Idx |-> IF i > g /\ tasks[i] = "live"
                                THEN stopping[i] + 1 ELSE stopping[i]]

\* Cancelling every task at or past g, and a batch of the others spawned.
CancelAndSpawn(g, spawn) ==
  /\ tasks' = [i \in Idx |-> IF i >= g THEN "none"
                             ELSE IF i \in spawn THEN "live" ELSE tasks[i]]
  /\ stopping' = [i \in Idx |-> IF i >= g /\ tasks[i] = "live"
                                THEN stopping[i] + 1 ELSE stopping[i]]

\* One pass, to its sleep after the first batch or, if there is no more to
\* spawn, to the end: the target cannot have changed since.
Pass ==
  LET all == ToSpawn(target)
  IN /\ CancelAndSpawn(target, Batch(all))
     /\ rest' = all \ Batch(all)
     /\ goal' = IF rest' = {} THEN None ELSE target
     /\ UNCHANGED <<target, file>>

\* The next reconcile gets the lock.
Begin ==
  /\ goal = None /\ waiting > 0
  /\ waiting' = waiting - 1
  /\ Pass

\* Mutant: the goal is read once, before the loop.
WakeOldGoal ==
  /\ goal # None
  /\ tasks' = [i \in Idx |-> IF i \in Batch(rest) THEN "live" ELSE tasks[i]]
  /\ rest' = rest \ Batch(rest)
  /\ goal' = IF rest' = {} /\ goal = target THEN None ELSE goal
  /\ UNCHANGED <<target, file, stopping, waiting>>

\* It wakes up: with another target it starts over, else the next batch goes.
Wake ==
  /\ goal # None
  /\ UNCHANGED waiting
  /\ \/ goal # target /\ Pass
     \/ /\ goal = target
        /\ tasks' = [i \in Idx |-> IF i \in Batch(rest) THEN "live" ELSE tasks[i]]
        /\ rest' = rest \ Batch(rest)
        /\ goal' = IF rest' = {} THEN None ELSE goal
        /\ UNCHANGED <<target, file, stopping>>

\* A UE task is over: its only session has ended (SESSION_DURATION = 0).
TaskEnds(i) ==
  /\ tasks[i] = "live"
  /\ tasks' = [tasks EXCEPT ![i] = "done"]
  /\ UNCHANGED <<target, file, stopping, waiting, goal, rest>>

\* A cancelled task has released its session.
StopEnds(i) ==
  /\ stopping[i] > 0
  /\ stopping' = [stopping EXCEPT ![i] = @ - 1]
  /\ UNCHANGED <<target, file, tasks, waiting, goal, rest>>

\* The container restarts: only the file is left.
Restart ==
  /\ target' = IF file = None THEN NumUes ELSE Clamp(file)
  /\ tasks' = [i \in Idx |-> "none"]
  /\ stopping' = [i \in Idx |-> 0]
  /\ waiting' = 1
  /\ goal' = None
  /\ rest' = {}
  /\ UNCHANGED file

Next ==
  \/ /\ (\E n \in -1..(MaxUes + 1) : SetTarget(n)) \/ Restart
     /\ changes < MaxChanges
     /\ changes' = changes + 1
  \/ /\ Begin \/ Wake \/ \E i \in Idx : TaskEnds(i) \/ StopEnds(i)
     /\ UNCHANGED changes

Spec == Init /\ [][Next]_vars

\* The lock is granted, the sleep between batches ends.
FairSpec ==
  /\ Spec
  /\ WF_vars(Begin /\ UNCHANGED changes)
  /\ WF_vars(Wake /\ UNCHANGED changes)

-----------------------------------------------------------------------------
\* "Spawn or cancel UE tasks to match target_num_ues" (ue_sim.py:389): when no
\* reconcile runs or waits there are tasks for exactly the indices under the
\* target, however often it changed while earlier ones slept.
Matches == \A i \in Idx : tasks[i] # "none" <=> i < target
SettledMatches == goal = None /\ waiting = 0 => Matches

\* A live task is never replaced in ue_tasks by another one, which would leave
\* it running and beyond the reach of a later scale-down.
NoTaskLost == goal # None => \A i \in rest : tasks[i] # "live"

\* Each reconcile comes to its end although the target may move under it.
ScalingEnds == (goal # None \/ waiting > 0) ~> (goal = None /\ waiting = 0)
=============================================================================
