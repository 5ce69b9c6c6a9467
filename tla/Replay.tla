--------------------------------- MODULE Replay ---------------------------------
(***************************************************************************)
(* The trace replay at the start of the UE simulator                       *)
(* (poc_StressTest/ue/ue_sim.py): run_replay drives some UEs from the      *)
(* events of a recorded trace, all at once, and main goes on to synthetic  *)
(* load when it is done.  A trace is cut out of a live network, so a UE's  *)
(* events need not form a session: any kind may come at any point.         *)
(*                                                                         *)
(* What the network answers, or that a socket breaks, is a free choice     *)
(* here; module Stack says what it is.                                     *)
(***************************************************************************)
EXTENDS Integers, Sequences, FiniteSets

CONSTANTS
  UEs,          \* the UEs picked for replay
  Plans         \* the event lists a trace may have for a UE

ASSUME UEsAssumption == IsFiniteSet(UEs)
ASSUME PlansAssumption == Plans \subseteq Seq({"attach", "measurement", "release"})

VARIABLES
  mode,         \* of the simulator: "replaying", "synthetic", or "dead"
  plan,         \* plan.events of each UE
  pos,          \* how many of them it has taken
  at,           \* the await each replay coroutine is at
  connected,    \* its local variable connected
  stats         \* the counters of S

vars == <<mode, plan, pos, at, connected, stats>>

NoStats == [active |-> 0, attempts |-> 0, admitted |-> 0, rejected |-> 0,
            released |-> 0, dropped |-> 0, conn_err |-> 0]

-----------------------------------------------------------------------------
Connected == {u \in UEs : connected[u]}
Attaching == {u \in UEs : at[u] = "attach"}

Init ==
  /\ mode = "replaying"
  /\ plan \in [UEs -> Plans]
  /\ pos = [u \in UEs |-> 0]
  /\ at = [u \in UEs |-> "event"]
  /\ connected = [u \in UEs |-> FALSE]
  /\ stats = NoStats

\* Mutant: an event that does not fit is waited for instead of skipped.
EventWaits(u) ==
  LET kind == plan[u][pos[u] + 1]
  IN /\ mode = "replaying"
     /\ at[u] = "event" /\ pos[u] < Len(plan[u])
     /\ pos' = [pos EXCEPT ![u] = @ + 1]
     /\ kind = "attach" <=> ~connected[u]
     /\ at' = [at EXCEPT ![u] = kind]
     /\ stats' = [stats EXCEPT !.attempts = @ + IF kind = "attach" THEN 1 ELSE 0]
     /\ UNCHANGED <<mode, plan, connected>>

\* The next event's time has come.  One that does not fit is skipped.
Event(u) ==
  LET kind == plan[u][pos[u] + 1]
  IN /\ mode = "replaying"
     /\ at[u] = "event" /\ pos[u] < Len(plan[u])
     /\ pos' = [pos EXCEPT ![u] = @ + 1]
     /\ \/ /\ kind = "attach" /\ ~connected[u]
           /\ at' = [at EXCEPT ![u] = "attach"]
           /\ stats' = [stats EXCEPT !.attempts = @ + 1]
        \/ /\ kind # "attach" /\ connected[u]
           /\ at' = [at EXCEPT ![u] = kind]
           /\ UNCHANGED stats
        \/ /\ kind = "attach" <=> connected[u]
           /\ UNCHANGED <<at, stats>>
     /\ UNCHANGED <<mode, plan, connected>>

\* _attach returns: the UE is in, or the network refuses it, or there is none.
Attached(u) ==
  /\ mode = "replaying" /\ at[u] = "attach"
  /\ at' = [at EXCEPT ![u] = "event"]
  /\ \/ /\ connected' = [connected EXCEPT ![u] = TRUE]
        /\ stats' = [stats EXCEPT !.admitted = @ + 1, !.active = @ + 1]
     \/ stats' = [stats EXCEPT !.rejected = @ + 1] /\ UNCHANGED connected
     \/ stats' = [stats EXCEPT !.conn_err = @ + 1] /\ UNCHANGED connected
  /\ UNCHANGED <<mode, plan, pos>>

\* Mutant: a refused report does not end the session.
MeasuredOn(u) ==
  /\ mode = "replaying" /\ at[u] = "measurement"
  /\ at' = [at EXCEPT ![u] = "event"]
  /\ UNCHANGED <<mode, plan, pos, connected>>
  /\ UNCHANGED stats \/ stats' = [stats EXCEPT !.dropped = @ + 1]

\* The reply to a measurement report.  A reject ends the UE's replay.
Measured(u) ==
  /\ mode = "replaying" /\ at[u] = "measurement"
  /\ \/ /\ at' = [at EXCEPT ![u] = "event"]
        /\ UNCHANGED <<connected, stats>>
     \/ /\ at' = [at EXCEPT ![u] = "done"]
        /\ connected' = [connected EXCEPT ![u] = FALSE]
        /\ stats' = [stats EXCEPT !.dropped = @ + 1]
  /\ UNCHANGED <<mode, plan, pos>>

\* The socket breaks under a measurement report: nothing between here and
\* asyncio.run catches that, gather passes it on and the process ends.
MeasurementBreaks(u) ==
  /\ mode = "replaying" /\ at[u] = "measurement"
  /\ mode' = "dead"
  /\ UNCHANGED <<plan, pos, at, connected, stats>>

\* _release, which returns whatever happens to the socket.
Released(u) ==
  /\ mode = "replaying" /\ at[u] \in {"release", "last"}
  /\ at' = [at EXCEPT ![u] = IF @ = "last" THEN "done" ELSE "event"]
  /\ connected' = [connected EXCEPT ![u] = FALSE]
  /\ stats' = [stats EXCEPT !.released = @ + 1, !.active = @ - 1]
  /\ UNCHANGED <<mode, plan, pos>>

\* No event is left: who is still connected is released.
OutOfEvents(u) ==
  /\ mode = "replaying" /\ at[u] = "event" /\ pos[u] = Len(plan[u])
  /\ at' = [at EXCEPT ![u] = IF connected[u] THEN "last" ELSE "done"]
  /\ UNCHANGED <<mode, plan, pos, connected, stats>>

\* gather returns, and main schedules the synthetic UEs.
Finish ==
  /\ mode = "replaying"
  /\ \A u \in UEs : at[u] = "done"
  /\ mode' = "synthetic"
  /\ UNCHANGED <<plan, pos, at, connected, stats>>

\* The container starts again (restart: unless-stopped), and replays again.
Restart ==
  /\ mode = "dead"
  /\ mode' = "replaying"
  /\ pos' = [u \in UEs |-> 0]
  /\ at' = [u \in UEs |-> "event"]
  /\ connected' = [u \in UEs |-> FALSE]
  /\ stats' = NoStats
  /\ UNCHANGED plan

UeStep(u) ==
  \/ Event(u) \/ Attached(u) \/ Measured(u) \/ Released(u) \/ OutOfEvents(u)

Next ==
  \/ \E u \in UEs : UeStep(u) \/ MeasurementBreaks(u)
  \/ Finish
  \/ Restart

Spec == Init /\ [][Next]_vars

\* The recorded times pass, and the network answers.
FairSpec == Spec /\ (\A u \in UEs : WF_vars(UeStep(u))) /\ WF_vars(Finish)

-----------------------------------------------------------------------------
\* The counters account for every UE: an attempt is under way or has one of
\* three ends, and who was admitted is connected, released or dropped.
CountersAgree ==
  /\ stats.attempts =
       stats.admitted + stats.rejected + stats.conn_err + Cardinality(Attaching)
  /\ stats.admitted = stats.released + stats.dropped + Cardinality(Connected)

\* S.active is the number of UEs "currently connected (gauge)" (ue_sim.py:318).
\* False: the branch of a refused report ends the session and leaves the gauge
\* as it is (ue_sim.py:753), for good, as the synthetic load goes on with it.
GaugeIsConnected == stats.active = Cardinality(Connected)

\* When the synthetic load begins no replayed UE is connected any more, so none
\* holds PRBs that no task would ever release.
NothingLeftBehind == mode = "synthetic" => Connected = {}

\* Every replayed UE is accounted for, by the counters and when it is over.
Accounted == CountersAgree /\ NothingLeftBehind

\* The replay comes to an end, whatever order the trace has its events in.
ReplayEnds == mode = "replaying" ~> mode # "replaying"
=============================================================================
