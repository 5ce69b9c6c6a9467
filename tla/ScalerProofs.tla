------------------------------ MODULE ScalerProofs ------------------------------
(***************************************************************************)
(* Proofs about module Scaler, for any sizes and any number of changes of  *)
(* the target: a settled simulator has tasks for exactly the indices under *)
(* its target, and no live task is ever replaced.                          *)
(***************************************************************************)
EXTENDS Scaler, TLAPS

Types ==
  /\ target \in 0..MaxUes
  /\ file \in {None} \cup 0..MaxUes
  /\ tasks \in [Idx -> {"none", "live", "done"}]
  /\ waiting \in Nat
  /\ goal \in {None} \cup 0..MaxUes
  /\ rest \subseteq Idx

\* Between two batches: everything past the goal is cancelled, and what is
\* under it has a task or is among what is left to spawn.
HalfWay ==
  goal # None =>
    /\ \A i \in rest : i < goal /\ tasks[i] # "live"
    /\ \A i \in Idx \ rest : tasks[i] # "none" <=> i < goal

IInv == Types /\ SettledMatches /\ HalfWay

-----------------------------------------------------------------------------
LEMMA ClampRange ==
  ASSUME NEW n \in Int PROVE Clamp(n) \in 0..MaxUes
BY SizesAssumption DEF Clamp

LEMMA BatchSubset ==
  ASSUME NEW S \in SUBSET Idx PROVE Batch(S) \subseteq S
BY DEF Batch

LEMMA InitIInv == Init => IInv
BY SizesAssumption, NoneAssumption
   DEF Init, IInv, Types, SettledMatches, HalfWay

\* A pass establishes the invariant whatever the tasks were before.
LEMMA PassPreserves ==
  ASSUME IInv, Pass, waiting' \in Nat
  PROVE  IInv'
<1> DEFINE all == ToSpawn(target)
           g == target
<1>1. /\ all \subseteq Idx
      /\ \A i \in all : i < g /\ tasks[i] # "live"
      /\ \A i \in Idx \ all : i >= g \/ tasks[i] = "live"
  BY DEF ToSpawn, IInv, Types, Idx
<1>2. Batch(all) \subseteq all
  BY <1>1, BatchSubset
<1>3. /\ tasks' = [i \in Idx |-> IF i >= g THEN "none"
                                 ELSE IF i \in Batch(all) THEN "live" ELSE tasks[i]]
      /\ rest' = all \ Batch(all)
      /\ goal' = IF rest' = {} THEN None ELSE g
      /\ target' = g /\ file' = file
  BY DEF Pass, CancelAndSpawn
<1>4. g \in 0..MaxUes /\ Idx \subseteq Int /\ g # None
  BY SizesAssumption, NoneAssumption DEF IInv, Types, Idx
<1>5. Types'
  BY <1>1, <1>3, <1>4 DEF IInv, Types
<1>6. \A i \in Idx \ rest' : tasks'[i] # "none" <=> i < g
  BY <1>1, <1>2, <1>3, <1>4
<1>7. HalfWay'
  BY <1>1, <1>2, <1>3, <1>4, <1>6 DEF HalfWay
<1>8. SettledMatches'
  BY <1>3, <1>4, <1>6 DEF SettledMatches, Matches
<1>. QED  BY <1>5, <1>7, <1>8 DEF IInv

LEMMA NextIInv == IInv /\ [Next]_vars => IInv'
<1> SUFFICES ASSUME IInv, [Next]_vars PROVE IInv'
  OBVIOUS
<1>0. None \notin 0..MaxUes /\ Idx \subseteq Int
  BY NoneAssumption DEF Idx
<1>1. ASSUME NEW n \in -1..(MaxUes + 1), SetTarget(n) PROVE IInv'
  <2>1. n \in Int
    BY SizesAssumption
  <2>2. /\ target' \in 0..MaxUes /\ file' \in {file, target', None}
        /\ waiting' = waiting + 1
        /\ UNCHANGED <<tasks, goal, rest>>
    BY <1>1, <2>1, ClampRange DEF SetTarget
  <2>. QED
    BY <2>2 DEF IInv, Types, SettledMatches, HalfWay
<1>2. CASE Restart
  <2>1. file # None => Clamp(file) \in 0..MaxUes
    BY SizesAssumption, ClampRange DEF IInv, Types
  <2>. QED
    BY <1>2, <2>1, SizesAssumption
       DEF Restart, IInv, Types, SettledMatches, HalfWay
<1>3. CASE Begin
  BY <1>3, PassPreserves DEF Begin, IInv, Types
<1>4. CASE Wake
  <2>1. CASE goal # target /\ Pass
    BY <1>4, <2>1, PassPreserves DEF Wake, IInv, Types
  <2>2. CASE ~(goal # target /\ Pass)
    <3>1. /\ goal # None /\ goal = target
          /\ tasks' = [i \in Idx |-> IF i \in Batch(rest) THEN "live" ELSE tasks[i]]
          /\ rest' = rest \ Batch(rest)
          /\ goal' = IF rest' = {} THEN None ELSE goal
          /\ UNCHANGED <<target, file, waiting>>
      BY <1>4, <2>2 DEF Wake
    <3>2. Batch(rest) \subseteq rest /\ rest \subseteq Idx
      BY BatchSubset DEF IInv, Types
    <3>3. \A i \in Idx \ rest' : tasks'[i] # "none" <=> i < goal
      BY <3>1, <3>2 DEF IInv, HalfWay
    <3>4. Types'
      BY <3>1, <3>2 DEF IInv, Types
    <3>5. HalfWay'
      BY <3>1, <3>2, <3>3 DEF IInv, HalfWay
    <3>6. SettledMatches'
      BY <3>1, <3>3 DEF SettledMatches, Matches
    <3>. QED  BY <3>4, <3>5, <3>6 DEF IInv
  <2>. QED  BY <2>1, <2>2
<1>5. ASSUME NEW i \in Idx, TaskEnds(i) PROVE IInv'
  <2>1. /\ tasks[i] = "live" /\ tasks' = [tasks EXCEPT ![i] = "done"]
        /\ UNCHANGED <<target, file, waiting, goal, rest>>
    BY <1>5 DEF TaskEnds
  <2>. QED
    BY <2>1 DEF IInv, Types, SettledMatches, Matches, HalfWay
<1>6. ASSUME NEW i \in Idx, StopEnds(i) PROVE IInv'
  BY <1>6 DEF StopEnds, IInv, Types, SettledMatches, Matches, HalfWay
<1>7. CASE UNCHANGED vars
  BY <1>7 DEF vars, IInv, Types, SettledMatches, Matches, HalfWay
<1>. QED
  BY <1>1, <1>2, <1>3, <1>4, <1>5, <1>6, <1>7 DEF Next

\* The inductive invariant: the target, the running tasks and a scaling half done
\* fit together in every state: IInv.
THEOREM Invariance == Spec => []IInv
<1>. QED  BY InitIInv, NextIInv, PTL DEF Spec

\* When no reconcile runs or waits, the tasks are those of the target.
THEOREM SettledIsMatched == Spec => []SettledMatches
<1>1. IInv => SettledMatches
  BY DEF IInv
<1>. QED  BY <1>1, Invariance, PTL

\* What is left to spawn is never alive already.
THEOREM NoTaskIsLost == Spec => []NoTaskLost
<1>1. IInv => NoTaskLost
  BY DEF IInv, HalfWay, NoTaskLost
<1>. QED  BY <1>1, Invariance, PTL
=============================================================================
