------------------------------ MODULE ReplayProofs ------------------------------
(* Every replayed UE is accounted for, for any number of UEs and any trace.   *)
EXTENDS Replay, FiniteSetTheorems, TLAPS

Kinds == {"attach", "measurement", "release"}
Counters == [active : Int, attempts : Int, admitted : Int, rejected : Int,
             released : Int, dropped : Int, conn_err : Int]

TypeOK ==
  /\ plan \in [UEs -> Seq(Kinds)]
  /\ pos \in [UEs -> Nat]
  /\ at \in [UEs -> Kinds \cup {"event", "last", "done"}]
  /\ connected \in [UEs -> BOOLEAN]
  /\ stats \in Counters

\* Who waits for what is connected or not, and the replay ends with its UEs.
WaitsFit ==
  \A u \in UEs : /\ at[u] \in {"attach", "done"} => u \notin Connected
                 /\ at[u] \in {"measurement", "release", "last"} => u \in Connected
EndsTogether == mode = "synthetic" => \A u \in UEs : at[u] = "done"

IInv == TypeOK /\ WaitsFit /\ EndsTogether /\ CountersAgree

LEMMA CountOneMore ==
    ASSUME NEW S \in SUBSET UEs, NEW u \in UEs, u \notin S
    PROVE  Cardinality(S) \in Nat /\ Cardinality(S \cup {u}) = Cardinality(S) + 1
<1>1. IsFiniteSet(S)
  BY UEsAssumption, FS_Subset
<1> QED
  BY <1>1, FS_CardinalityType, FS_AddElement

LEMMA CountOneLess ==
    ASSUME NEW S \in SUBSET UEs, NEW u \in S
    PROVE  Cardinality(S) \in Nat /\ Cardinality(S \ {u}) = Cardinality(S) - 1
<1>1. IsFiniteSet(S)
  BY UEsAssumption, FS_Subset
<1> QED
  BY <1>1, FS_CardinalityType, FS_RemoveElement

LEMMA Counted == Cardinality(Connected) \in Nat /\ Cardinality(Attaching) \in Nat
<1>1. IsFiniteSet(Connected) /\ IsFiniteSet(Attaching)
  BY UEsAssumption, FS_Subset DEF Connected, Attaching
<1> QED
  BY <1>1, FS_CardinalityType

\* The counters move by so much.
Moved(active, attempts, admitted, rejected, released, dropped, conn_err) ==
  /\ stats' \in Counters
  /\ stats'.active = stats.active + active
  /\ stats'.attempts = stats.attempts + attempts
  /\ stats'.admitted = stats.admitted + admitted
  /\ stats'.rejected = stats.rejected + rejected
  /\ stats'.released = stats.released + released
  /\ stats'.dropped = stats.dropped + dropped
  /\ stats'.conn_err = stats.conn_err + conn_err

LEMMA CounterMoves ==
    ASSUME stats \in Counters
    PROVE  /\ stats' = [stats EXCEPT !.attempts = @ + 1] => Moved(0, 1, 0, 0, 0, 0, 0)
           /\ stats' = [stats EXCEPT !.admitted = @ + 1, !.active = @ + 1]
                => Moved(1, 0, 1, 0, 0, 0, 0)
           /\ stats' = [stats EXCEPT !.rejected = @ + 1] => Moved(0, 0, 0, 1, 0, 0, 0)
           /\ stats' = [stats EXCEPT !.conn_err = @ + 1] => Moved(0, 0, 0, 0, 0, 0, 1)
           /\ stats' = [stats EXCEPT !.dropped = @ + 1] => Moved(0, 0, 0, 0, 0, 1, 0)
           /\ stats' = [stats EXCEPT !.released = @ + 1, !.active = @ - 1]
                => Moved(-1, 0, 0, 0, 1, 0, 0)
<1>1. /\ stats.active \in Int /\ stats.attempts \in Int /\ stats.admitted \in Int
      /\ stats.rejected \in Int /\ stats.released \in Int /\ stats.dropped \in Int
      /\ stats.conn_err \in Int
  BY DEF Counters
<1> DEFINE up(n) == n + 1
           down(n) == n - 1
<1>2. /\ up(stats.attempts) \in Int /\ up(stats.admitted) \in Int /\ up(stats.active) \in Int
      /\ up(stats.rejected) \in Int /\ up(stats.conn_err) \in Int /\ up(stats.dropped) \in Int
      /\ up(stats.released) \in Int /\ down(stats.active) \in Int
  BY <1>1
<1>3. ASSUME stats' = [stats EXCEPT !.attempts = up(@)]
      PROVE  Moved(0, 1, 0, 0, 0, 0, 0)
  <2>1. PICK v \in Int : /\ v = up(stats.attempts)
                        /\ stats' = [stats EXCEPT !.attempts = v]
    BY <1>2, <1>3
  <2>2. stats' \in Counters
    BY <2>1 DEF Counters
  <2>3. /\ stats'.attempts = v
        /\ stats'.active = stats.active /\ stats'.admitted = stats.admitted
        /\ stats'.rejected = stats.rejected /\ stats'.released = stats.released
        /\ stats'.dropped = stats.dropped /\ stats'.conn_err = stats.conn_err
    BY <2>1 DEF Counters
  <2> QED
    BY <1>1, <2>1, <2>2, <2>3 DEF Moved
<1>4. ASSUME stats' = [stats EXCEPT !.admitted = up(@), !.active = up(@)]
      PROVE  Moved(1, 0, 1, 0, 0, 0, 0)
  <2>1. PICK v, w \in Int : /\ v = up(stats.admitted) /\ w = up(stats.active)
                        /\ stats' = [stats EXCEPT !.admitted = v, !.active = w]
    BY <1>2, <1>4
  <2>2. stats' \in Counters
    BY <2>1 DEF Counters
  <2>3. /\ stats'.admitted = v /\ stats'.active = w
        /\ stats'.attempts = stats.attempts /\ stats'.rejected = stats.rejected
        /\ stats'.released = stats.released /\ stats'.dropped = stats.dropped
        /\ stats'.conn_err = stats.conn_err
    BY <2>1 DEF Counters
  <2> QED
    BY <1>1, <2>1, <2>2, <2>3 DEF Moved
<1>5. ASSUME stats' = [stats EXCEPT !.rejected = up(@)]
      PROVE  Moved(0, 0, 0, 1, 0, 0, 0)
  <2>1. PICK v \in Int : /\ v = up(stats.rejected)
                        /\ stats' = [stats EXCEPT !.rejected = v]
    BY <1>2, <1>5
  <2>2. stats' \in Counters
    BY <2>1 DEF Counters
  <2>3. /\ stats'.rejected = v
        /\ stats'.active = stats.active /\ stats'.attempts = stats.attempts
        /\ stats'.admitted = stats.admitted /\ stats'.released = stats.released
        /\ stats'.dropped = stats.dropped /\ stats'.conn_err = stats.conn_err
    BY <2>1 DEF Counters
  <2> QED
    BY <1>1, <2>1, <2>2, <2>3 DEF Moved
<1>6. ASSUME stats' = [stats EXCEPT !.conn_err = up(@)]
      PROVE  Moved(0, 0, 0, 0, 0, 0, 1)
  <2>1. PICK v \in Int : /\ v = up(stats.conn_err)
                        /\ stats' = [stats EXCEPT !.conn_err = v]
    BY <1>2, <1>6
  <2>2. stats' \in Counters
    BY <2>1 DEF Counters
  <2>3. /\ stats'.conn_err = v
        /\ stats'.active = stats.active /\ stats'.attempts = stats.attempts
        /\ stats'.admitted = stats.admitted /\ stats'.rejected = stats.rejected
        /\ stats'.released = stats.released /\ stats'.dropped = stats.dropped
    BY <2>1 DEF Counters
  <2> QED
    BY <1>1, <2>1, <2>2, <2>3 DEF Moved
<1>7. ASSUME stats' = [stats EXCEPT !.dropped = up(@)]
      PROVE  Moved(0, 0, 0, 0, 0, 1, 0)
  <2>1. PICK v \in Int : /\ v = up(stats.dropped)
                        /\ stats' = [stats EXCEPT !.dropped = v]
    BY <1>2, <1>7
  <2>2. stats' \in Counters
    BY <2>1 DEF Counters
  <2>3. /\ stats'.dropped = v
        /\ stats'.active = stats.active /\ stats'.attempts = stats.attempts
        /\ stats'.admitted = stats.admitted /\ stats'.rejected = stats.rejected
        /\ stats'.released = stats.released /\ stats'.conn_err = stats.conn_err
    BY <2>1 DEF Counters
  <2> QED
    BY <1>1, <2>1, <2>2, <2>3 DEF Moved
<1>8. ASSUME stats' = [stats EXCEPT !.released = up(@), !.active = down(@)]
      PROVE  Moved(-1, 0, 0, 0, 1, 0, 0)
  <2>1. PICK v, w \in Int : /\ v = up(stats.released) /\ w = down(stats.active)
                        /\ stats' = [stats EXCEPT !.released = v, !.active = w]
    BY <1>2, <1>8
  <2>2. stats' \in Counters
    BY <2>1 DEF Counters
  <2>3. /\ stats'.released = v /\ stats'.active = w
        /\ stats'.attempts = stats.attempts /\ stats'.admitted = stats.admitted
        /\ stats'.rejected = stats.rejected /\ stats'.dropped = stats.dropped
        /\ stats'.conn_err = stats.conn_err
    BY <2>1 DEF Counters
  <2> QED
    BY <1>1, <2>1, <2>2, <2>3 DEF Moved
<1> QED
  BY <1>3, <1>4, <1>5, <1>6, <1>7, <1>8

\* When the counters move like the UEs they count, they go on agreeing with them.
LEMMA AgreeingStays ==
    ASSUME IInv, NEW more \in Int, NEW waiting \in Int,
           Cardinality(Connected') = Cardinality(Connected) + more,
           Cardinality(Attaching') = Cardinality(Attaching) + waiting,
           NEW active \in Int, NEW attempts \in Int, NEW admitted \in Int, NEW rejected \in Int,
           NEW released \in Int, NEW dropped \in Int, NEW conn_err \in Int,
           Moved(active, attempts, admitted, rejected, released, dropped, conn_err),
           attempts = admitted + rejected + conn_err + waiting,
           admitted = released + dropped + more
    PROVE  CountersAgree'
<1>1. /\ stats.active \in Int /\ stats.attempts \in Int /\ stats.admitted \in Int
      /\ stats.rejected \in Int /\ stats.released \in Int /\ stats.dropped \in Int
      /\ stats.conn_err \in Int
  BY DEF IInv, TypeOK, Counters
<1>2. Cardinality(Connected) \in Int /\ Cardinality(Attaching) \in Int
  BY Counted
<1>3. CountersAgree
  BY DEF IInv
<1>4. stats'.attempts = stats'.admitted + stats'.rejected + stats'.conn_err
                          + Cardinality(Attaching')
  BY <1>1, <1>2, <1>3 DEF Moved, CountersAgree
<1>5. stats'.admitted = stats'.released + stats'.dropped + Cardinality(Connected')
  BY <1>1, <1>2, <1>3 DEF Moved, CountersAgree
<1> QED
  BY <1>4, <1>5 DEF CountersAgree

LEMMA AgreeingWithoutOne ==
    ASSUME IInv,
           Cardinality(Connected') = Cardinality(Connected) + (-1),
           Cardinality(Attaching') = Cardinality(Attaching) + 0,
           Moved(0, 0, 0, 0, 0, 1, 0) \/ Moved(-1, 0, 0, 0, 1, 0, 0)
    PROVE  CountersAgree'
<1>1. CASE Moved(0, 0, 0, 0, 0, 1, 0)
  BY <1>1, AgreeingStays
<1>2. CASE Moved(-1, 0, 0, 0, 1, 0, 0)
  BY <1>2, AgreeingStays
<1> QED
  BY <1>1, <1>2

LEMMA NoneCounted ==
    at = [u \in UEs |-> "event"] /\ connected = [u \in UEs |-> FALSE] /\ stats = NoStats
      => WaitsFit /\ CountersAgree /\ stats \in Counters
<1> SUFFICES ASSUME at = [u \in UEs |-> "event"], connected = [u \in UEs |-> FALSE],
                    stats = NoStats
             PROVE  WaitsFit /\ CountersAgree /\ stats \in Counters
  OBVIOUS
<1>1. Connected = {} /\ Attaching = {}
  BY DEF Connected, Attaching
<1>2. Cardinality({}) = 0
  BY FS_EmptySet
<1> QED
  BY <1>1, <1>2 DEF WaitsFit, CountersAgree, NoStats, Counters

LEMMA InitIInv == Init => IInv
<1> SUFFICES ASSUME Init PROVE IInv
  OBVIOUS
<1>1. TypeOK
  <2>1. plan \in [UEs -> Seq(Kinds)]
    BY PlansAssumption DEF Init, Kinds
  <2>2. stats \in Counters
    BY NoneCounted DEF Init
  <2> QED
    BY <2>1, <2>2 DEF Init, TypeOK
<1> QED
  BY <1>1, NoneCounted DEF Init, IInv, EndsTogether

--------------------------------------------------------------------------------
(* One lemma per step of a UE.                                                *)

LEMMA EventPreserves == ASSUME IInv, NEW u \in UEs, Event(u) PROVE IInv'
<1> DEFINE kind == plan[u][pos[u] + 1]
<1>1. /\ mode = "replaying" /\ at[u] = "event" /\ pos' = [pos EXCEPT ![u] = @ + 1]
      /\ UNCHANGED <<mode, plan, connected>>
  BY DEF Event
<1>2. kind \in Kinds
  <2>1. plan[u] \in Seq(Kinds) /\ pos[u] \in Nat /\ pos[u] < Len(plan[u])
    BY DEF Event, IInv, TypeOK
  <2> QED
    BY <2>1
<1>3. pos' \in [UEs -> Nat] /\ Connected' = Connected
  BY <1>1 DEF IInv, TypeOK, Connected
<1>4. CASE /\ kind = "attach" /\ ~connected[u]
           /\ at' = [at EXCEPT ![u] = "attach"]
           /\ stats' = [stats EXCEPT !.attempts = @ + 1]
  <2>1. u \notin Connected /\ u \notin Attaching
    BY <1>1, <1>4 DEF Connected, Attaching
  <2>2. Attaching' = Attaching \cup {u}
    BY <1>4 DEF Attaching, IInv, TypeOK
  <2>3. Cardinality(Attaching') = Cardinality(Attaching) + 1
    BY <2>1, <2>2, CountOneMore DEF Attaching
  <2>4. Moved(0, 1, 0, 0, 0, 0, 0)
    BY <1>4, CounterMoves DEF IInv, TypeOK
  <2>5. TypeOK'
    BY <1>1, <1>3, <1>4, <2>4 DEF IInv, TypeOK, Moved, Kinds
  <2>6. CountersAgree'
    <3>1. Cardinality(Connected') = Cardinality(Connected) + 0
      BY <1>3, Counted
    <3> QED
      BY <2>3, <2>4, <3>1, AgreeingStays
  <2>7. WaitsFit'
    BY <1>3, <1>4, <2>1 DEF IInv, TypeOK, WaitsFit
  <2> QED
    BY <1>1, <2>5, <2>6, <2>7 DEF IInv, EndsTogether
<1>5. CASE /\ kind # "attach" /\ connected[u]
           /\ at' = [at EXCEPT ![u] = kind] /\ UNCHANGED stats
  <2>1. u \in Connected
    BY <1>5 DEF Connected
  <2>2. Attaching' = Attaching
    BY <1>1, <1>5 DEF Attaching, IInv, TypeOK
  <2>3. TypeOK'
    BY <1>1, <1>2, <1>3, <1>5 DEF IInv, TypeOK
  <2>4. CountersAgree'
    BY <1>3, <1>5, <2>2 DEF IInv, CountersAgree
  <2>5. WaitsFit'
    BY <1>2, <1>3, <1>5, <2>1 DEF IInv, TypeOK, WaitsFit, Kinds
  <2> QED
    BY <1>1, <2>3, <2>4, <2>5 DEF IInv, EndsTogether
<1>6. CASE UNCHANGED <<at, stats>>
  <2>1. TypeOK' /\ Attaching' = Attaching
    BY <1>1, <1>3, <1>6 DEF IInv, TypeOK, Attaching
  <2> QED
    BY <1>1, <1>3, <1>6, <2>1 DEF IInv, CountersAgree, WaitsFit, EndsTogether
<1> QED
  BY <1>4, <1>5, <1>6 DEF Event

LEMMA AttachedPreserves == ASSUME IInv, NEW u \in UEs, Attached(u) PROVE IInv'
<1>1. /\ mode = "replaying" /\ at[u] = "attach" /\ at' = [at EXCEPT ![u] = "event"]
      /\ UNCHANGED <<mode, plan, pos>>
  BY DEF Attached
<1>2. u \in Attaching /\ u \notin Connected
  BY <1>1 DEF Attaching, IInv, WaitsFit
<1>3. Attaching' = Attaching \ {u}
  BY <1>1 DEF Attaching, IInv, TypeOK
<1>4. Cardinality(Attaching') = Cardinality(Attaching) - 1
  BY <1>2, <1>3, CountOneLess DEF Attaching
<1>5. CASE /\ connected' = [connected EXCEPT ![u] = TRUE]
           /\ stats' = [stats EXCEPT !.admitted = @ + 1, !.active = @ + 1]
  <2>1. Connected' = Connected \cup {u}
    BY <1>5 DEF Connected, IInv, TypeOK
  <2>2. Cardinality(Connected') = Cardinality(Connected) + 1
    BY <1>2, <2>1, CountOneMore DEF Connected
  <2>3. Moved(1, 0, 1, 0, 0, 0, 0)
    BY <1>5, CounterMoves DEF IInv, TypeOK
  <2>4. TypeOK'
    BY <1>1, <1>5, <2>3 DEF IInv, TypeOK, Moved
  <2>5. CountersAgree'
    <3>1. Cardinality(Attaching') = Cardinality(Attaching) + (-1)
      BY <1>4, Counted
    <3> QED
      BY <2>2, <2>3, <3>1, AgreeingStays
  <2>6. WaitsFit'
    BY <1>1, <2>1 DEF IInv, TypeOK, WaitsFit
  <2> QED
    BY <1>1, <2>4, <2>5, <2>6 DEF IInv, EndsTogether
<1>6. CASE /\ \/ stats' = [stats EXCEPT !.rejected = @ + 1]
              \/ stats' = [stats EXCEPT !.conn_err = @ + 1]
           /\ UNCHANGED connected
  <2>1. Connected' = Connected
    BY <1>6 DEF Connected
  <2>2. Moved(0, 0, 0, 1, 0, 0, 0) \/ Moved(0, 0, 0, 0, 0, 0, 1)
    BY <1>6, CounterMoves DEF IInv, TypeOK
  <2>3. TypeOK'
    BY <1>1, <1>6, <2>2 DEF IInv, TypeOK, Moved
  <2>4. CountersAgree'
    <3>1. /\ Cardinality(Attaching') = Cardinality(Attaching) + (-1)
          /\ Cardinality(Connected') = Cardinality(Connected) + 0
      BY <1>4, <2>1, Counted
    <3>2. CASE Moved(0, 0, 0, 1, 0, 0, 0)
      BY <3>1, <3>2, AgreeingStays
    <3>3. CASE Moved(0, 0, 0, 0, 0, 0, 1)
      BY <3>1, <3>3, AgreeingStays
    <3> QED
      BY <2>2, <3>2, <3>3
  <2>5. WaitsFit'
    BY <1>1, <2>1 DEF IInv, TypeOK, WaitsFit
  <2> QED
    BY <1>1, <2>3, <2>4, <2>5 DEF IInv, EndsTogether
<1> QED
  BY <1>5, <1>6 DEF Attached

\* A connected UE that is dropped or released.
LEMMA LeavingPreserves ==
    ASSUME IInv, NEW u \in UEs, mode = "replaying",
           at[u] \in {"measurement", "release", "last"},
           \E next \in {"event", "done"} : at' = [at EXCEPT ![u] = next],
           connected' = [connected EXCEPT ![u] = FALSE],
           \/ stats' = [stats EXCEPT !.dropped = @ + 1]
           \/ stats' = [stats EXCEPT !.released = @ + 1, !.active = @ - 1],
           UNCHANGED <<mode, plan, pos>>
    PROVE  IInv'
<1>1. u \in Connected
  BY DEF IInv, WaitsFit
<1>2. Connected' = Connected \ {u} /\ Attaching' = Attaching
  BY DEF Connected, Attaching, IInv, TypeOK
<1>3. Cardinality(Connected') = Cardinality(Connected) - 1
  BY <1>1, <1>2, CountOneLess DEF Connected
<1>4. Moved(0, 0, 0, 0, 0, 1, 0) \/ Moved(-1, 0, 0, 0, 1, 0, 0)
  BY CounterMoves DEF IInv, TypeOK
<1>5. TypeOK'
  BY <1>4 DEF IInv, TypeOK, Moved
<1>6. CountersAgree'
  <2>1. /\ Cardinality(Attaching') = Cardinality(Attaching) + 0
        /\ Cardinality(Connected') = Cardinality(Connected) + (-1)
    BY <1>2, <1>3, Counted
  <2> QED
    BY <1>4, <2>1, AgreeingWithoutOne
<1>7. WaitsFit'
  BY <1>2 DEF IInv, TypeOK, WaitsFit
<1> QED
  BY <1>5, <1>6, <1>7 DEF IInv, EndsTogether

\* A step that only moves u on, between two awaits that fit.
LEMMA MovingOnPreserves ==
    ASSUME IInv, NEW u \in UEs, mode = "replaying", at[u] \in {"event", "measurement"},
           NEW next \in {"event", "last", "done"}, at' = [at EXCEPT ![u] = next],
           next = "last" => u \in Connected, next = "done" => u \notin Connected,
           UNCHANGED <<mode, plan, pos, connected, stats>>
    PROVE  IInv'
<1>1. Connected' = Connected /\ Attaching' = Attaching /\ TypeOK'
  BY DEF Connected, Attaching, IInv, TypeOK
<1> QED
  BY <1>1 DEF IInv, TypeOK, WaitsFit, CountersAgree, EndsTogether

LEMMA NextIInv == IInv /\ [Next]_vars => IInv'
<1> SUFFICES ASSUME IInv, [Next]_vars PROVE IInv'
  OBVIOUS
<1>1. ASSUME NEW u \in UEs, Measured(u) PROVE IInv'
  BY <1>1, LeavingPreserves, MovingOnPreserves DEF Measured
<1>2. ASSUME NEW u \in UEs, Released(u) PROVE IInv'
  BY <1>2, LeavingPreserves DEF Released
<1>3. ASSUME NEW u \in UEs, OutOfEvents(u) PROVE IInv'
  <2>1. CASE connected[u]
    BY <1>3, <2>1, MovingOnPreserves DEF OutOfEvents, Connected
  <2>2. CASE ~connected[u]
    BY <1>3, <2>2, MovingOnPreserves DEF OutOfEvents, Connected
  <2> QED
    BY <2>1, <2>2
<1>4. ASSUME UNCHANGED <<plan, pos, at, connected, stats>>,
             mode' = "synthetic" => mode = "synthetic" \/ \A u \in UEs : at[u] = "done"
      PROVE  IInv'
  BY <1>4 DEF IInv, TypeOK, WaitsFit, CountersAgree, EndsTogether, Connected, Attaching
<1>5. CASE \E u \in UEs : MeasurementBreaks(u)
  BY <1>4, <1>5 DEF MeasurementBreaks
<1>6. CASE Finish
  BY <1>4, <1>6 DEF Finish
<1>7. CASE Restart
  <2>1. (WaitsFit /\ CountersAgree /\ stats \in Counters)'
    <3>1. (at = [u \in UEs |-> "event"] /\ connected = [u \in UEs |-> FALSE]
             /\ stats = NoStats)'
      BY <1>7 DEF Restart, NoStats
    <3> QED
      BY <3>1, NoneCounted, PTL
  <2>2. TypeOK'
    BY <1>7, <2>1 DEF Restart, IInv, TypeOK
  <2> QED
    BY <1>7, <2>1, <2>2 DEF Restart, IInv, EndsTogether
<1>8. CASE UNCHANGED vars
  BY <1>4, <1>8 DEF vars
<1> QED
  BY <1>1, <1>2, <1>3, <1>5, <1>6, <1>7, <1>8, EventPreserves, AttachedPreserves
     DEF Next, UeStep

\* The counters of attempts and of their ends agree with the UEs in every state, and no UE is connected when the
\* synthetic load begins, whatever the trace and the network's answers.
THEOREM UesAreAccounted == Spec => []Accounted
<1>1. IInv => Accounted
  BY DEF IInv, WaitsFit, EndsTogether, Accounted, NothingLeftBehind, Connected
<1> QED
  BY <1>1, InitIInv, NextIInv, PTL DEF Spec
=============================================================================
