------------------------------- MODULE IqHubProofs -------------------------------
(***************************************************************************)
(* Proofs about the IQ hub, for any set of slots, miss limit and lead: its *)
(* types, that a UE gets a downlink block once, and that no UE is missed   *)
(* without a reason.                                                       *)
(***************************************************************************)
EXTENDS IqHub, TLAPS

\* Types.  Misses stay under the limit at which a slot is free again, and a UE
\* never sends further ahead of its downlink than Lead and its buffer allow.
HubRecord == [at: {"recv", "gather", "pull", "serve", "joins", "closed"},
              todo: SUBSET Slots, running: BOOLEAN,
              connected: [Slots -> BOOLEAN], miss: [Slots -> 0..MissLimit-1]]
GnbRecord == [asked: BOOLEAN, dl: Nat, old: Nat]
UeRecord == [up: BOOLEAN, paused: BOOLEAN, credit: 0..Lead+Ring, old: Nat]
DlRecord == [live: BOOLEAN, old: Nat]
PastRecord == [got: [Slots -> Nat], faulty: SUBSET Slots, faults: 0..MaxFaults]

TypeOK ==
    /\ hub \in HubRecord /\ gnb \in GnbRecord /\ past \in PastRecord
    /\ ue \in [Slots -> UeRecord] /\ dl \in [Slots -> DlRecord]

\* The slots a phase has yet to visit are connected.
TodoConnected == hub.at \in {"gather", "serve"} => hub.todo \subseteq Connected

\* Who has yet to be served in a tick, or may still join in it, has not got the
\* tick's block.
NotYetServed ==
    \A s \in Slots :
        /\ hub.at = "serve" /\ s \in hub.todo => past.got[s] = 0
        /\ hub.at \in {"serve", "joins"} /\ ~hub.connected[s] => past.got[s] = 0

\* Whether the uplink of slot s is due before its next downlink block is: from
\* when it is served to when it is visited by _gather_ul.
UplinkDue(s) ==
    \/ hub.at \in {"recv", "joins", "closed"}
    \/ hub.at = "gather" /\ s \in hub.todo
    \/ hub.at = "serve" /\ s \notin hub.todo

\* A UE nothing has happened to is up and owes no answer; once connected, it has
\* an uplink block to send whenever one is due.
Healthy(s) ==
    /\ hub.miss[s] = 0
    /\ ~ue[s].paused /\ ue[s].old = 0 /\ dl[s].old = 0
    /\ hub.connected[s] => ue[s].up /\ (UplinkDue(s) => ue[s].credit >= 1)
NoFaultIsHealthy == \A s \in Slots : s \notin past.faulty => Healthy(s)

\* Nobody asks before it is up.
AskerIsUp == \A s \in Slots : dl[s].live => ue[s].up

IInv ==
    /\ TypeOK /\ OncePerBlock
    /\ TodoConnected /\ NotYetServed /\ AskerIsUp /\ NoFaultIsHealthy

-----------------------------------------------------------------------------
\* The capped credit of a UE that has read another block.
LEMMA Capped ==
    ASSUME NEW a \in Nat, NEW b \in Nat
    PROVE  Min({a, b}) = IF a <= b THEN a ELSE b
<1>1. ASSUME NEW x \in {a, b}, \A y \in {a, b} : x <= y,
             NEW z \in {a, b}, \A y \in {a, b} : z <= y
      PROVE  x = z
  BY <1>1
<1>2. \E x \in {a, b} : \A y \in {a, b} : x <= y
  OBVIOUS
<1>3. /\ Min({a, b}) \in {a, b}
      /\ \A y \in {a, b} : Min({a, b}) <= y
  BY <1>2 DEF Min
<1> QED
  BY <1>3

\* A request answered is the UE's, whose credit rises, or that of one gone.
LEMMA Delivered ==
    ASSUME TypeOK, NEW s \in Slots, Deliver(s), HubAssumption
    PROVE  /\ dl' \in [Slots -> DlRecord]
           /\ ue' \in [Slots -> UeRecord]
           /\ past' \in PastRecord
           /\ past'.faulty = past.faulty
           /\ past'.got[s] \in {past.got[s], past.got[s] + 1}
           /\ \A t \in Slots \ {s} :
                 ue'[t] = ue[t] /\ dl'[t] = dl[t] /\ past'.got[t] = past.got[t]
           /\ ue'[s].up = ue[s].up /\ ue'[s].paused = ue[s].paused
           /\ ue'[s].old = ue[s].old
           /\ dl'[s].live => dl[s].live
           /\ dl[s].old = 0 => dl'[s].old = 0 /\ ue'[s].credit >= 1
<1>1. ue[s].credit + 1 \in Nat /\ Lead + Ring \in Nat /\ Lead >= 1
  BY DEF TypeOK, HubAssumption, UeRecord, DlRecord, PastRecord
<1>2. Min({ue[s].credit + 1, Lead + Ring}) \in 1..Lead+Ring
  <2>1. Lead \in Nat /\ Ring \in Nat
    BY DEF HubAssumption
  <2>2. ue[s].credit \in Nat
    BY DEF TypeOK, UeRecord, DlRecord, PastRecord
  <2>3. ASSUME NEW a \in Nat, NEW b \in Nat, a >= 1, b >= 1
        PROVE  Min({a, b}) \in 1..b
    BY <2>3, Capped
  <2> QED
    BY <1>1, <2>1, <2>2, <2>3
<1>3. CASE dl[s].live /\ dl' = [dl EXCEPT ![s].live = FALSE]
           /\ ue' = [ue EXCEPT ![s].credit = Min({@ + 1, Lead + Ring})]
           /\ past' = [past EXCEPT !.got[s] = @ + 1]
  <2>1. ue' = [ue EXCEPT ![s].credit = Min({ue[s].credit + 1, Lead + Ring})]
    BY <1>3
  <2>2. PICK m \in 1..Lead+Ring : ue' = [ue EXCEPT ![s].credit = m]
    BY <1>2, <2>1
  <2>3. ue[s].credit \in 0..Lead+Ring /\ 1..Lead+Ring \subseteq 0..Lead+Ring
    BY <1>1 DEF TypeOK, UeRecord, DlRecord, PastRecord
  <2>4. /\ ue' \in [Slots -> UeRecord]
        /\ \A t \in Slots \ {s} : ue'[t] = ue[t]
        /\ ue'[s].up = ue[s].up /\ ue'[s].paused = ue[s].paused
        /\ ue'[s].old = ue[s].old /\ ue'[s].credit >= 1
    BY <2>2, <2>3 DEF TypeOK, UeRecord, DlRecord, PastRecord
  <2>5. /\ dl' \in [Slots -> DlRecord]
        /\ \A t \in Slots \ {s} : dl'[t] = dl[t]
        /\ dl'[s].old = dl[s].old /\ ~dl'[s].live
    BY <1>3 DEF TypeOK, UeRecord, DlRecord, PastRecord
  <2>6. /\ past'.faulty = past.faulty /\ past'.faults = past.faults
        /\ past'.got = [past.got EXCEPT ![s] = @ + 1]
        /\ past' \in PastRecord
    <3>1. past' = [past EXCEPT !.got = [past.got EXCEPT ![s] = @ + 1]]
      BY <1>3
    <3>2. [past.got EXCEPT ![s] = @ + 1] \in [Slots -> Nat]
      BY DEF TypeOK, UeRecord, DlRecord, PastRecord
    <3> QED
      BY <3>1, <3>2 DEF TypeOK, UeRecord, DlRecord, PastRecord
  <2>7. /\ past'.got[s] = past.got[s] + 1
        /\ \A t \in Slots \ {s} : past'.got[t] = past.got[t]
    BY <2>6 DEF TypeOK, UeRecord, DlRecord, PastRecord
  <2> QED
    BY <2>4, <2>5, <2>6, <2>7
<1>4. CASE dl[s].old > 0 /\ dl' = [dl EXCEPT ![s].old = @ - 1] /\ UNCHANGED <<ue, past>>
  BY <1>4 DEF TypeOK, UeRecord, DlRecord, PastRecord
<1> QED
  BY <1>3, <1>4 DEF Deliver

-----------------------------------------------------------------------------
LEMMA InitIInv == Init => IInv
BY HubAssumption
   DEF Init, IInv, TypeOK, OncePerBlock, TodoConnected, NotYetServed, AskerIsUp,
       NoFaultIsHealthy, Healthy, UplinkDue, Gone, Connected,
       HubRecord, GnbRecord, UeRecord, DlRecord, PastRecord

\* One more fault, within the bound.
LEMMA FaultTyped ==
    ASSUME TypeOK, HubAssumption, NEW S \in SUBSET Slots, Fault(S)
    PROVE  past' \in PastRecord
<1>1. past.faults + 1 \in 0..MaxFaults /\ past.faulty \cup S \in SUBSET Slots
  BY DEF Fault, TypeOK, PastRecord, HubAssumption
<1>2. PICK n \in 0..MaxFaults, F \in SUBSET Slots :
         past' = [past EXCEPT !.faults = n, !.faulty = F]
  BY <1>1 DEF Fault
<1> QED
  BY <1>2 DEF TypeOK, PastRecord

\* The UEs: nothing but a fault makes one unhealthy.
LEMMA UeSteps ==
    ASSUME IInv, HubAssumption, NEW s \in Slots,
           UeStart(s) \/ UeGone(s) \/ UePause(s) \/ UeResume(s) \/ UeAsk(s) \/ UeAnswerOld(s)
    PROVE  IInv'
<1> USE DEF IInv, OncePerBlock, TodoConnected, Connected, NotYetServed, AskerIsUp
<1>0. MissLimit \in Nat \ {0} /\ Lead \in Nat \ {0} /\ Ring \in Nat /\ MaxFaults \in Nat
  BY DEF HubAssumption
<1>1. CASE UeStart(s)
  <2>1. TypeOK'
    <3>1. ue' \in [Slots -> UeRecord]
      BY <1>0, <1>1 DEF UeStart, Started, TypeOK, UeRecord
    <3> QED
      BY <1>1, <3>1 DEF UeStart, Started, TypeOK
  <2>2. NoFaultIsHealthy'
    BY <1>1 DEF UeStart, Started, TypeOK, NoFaultIsHealthy, Healthy, UplinkDue,
       HubRecord, GnbRecord, UeRecord, DlRecord, PastRecord
  <2>3. TodoConnected' /\ NotYetServed' /\ OncePerBlock' /\ AskerIsUp'
    BY <1>1 DEF UeStart, Started, TypeOK, HubRecord, GnbRecord, UeRecord, DlRecord, PastRecord
  <2> QED
    BY <2>1, <2>2, <2>3
<1>2. CASE UeGone(s)
  <2>1. TypeOK'
    <3>1. past' \in PastRecord
      BY <1>2, FaultTyped DEF UeGone
    <3>2. ue' \in [Slots -> UeRecord]
      BY <1>0, <1>2 DEF UeGone, Gone, Fault, TypeOK, UeRecord
    <3>3. dl' \in [Slots -> DlRecord]
      BY <1>0, <1>2 DEF UeGone, Gone, Fault, TypeOK, DlRecord
    <3> QED
      BY <1>2, <3>1, <3>2, <3>3 DEF UeGone, Gone, Fault, TypeOK
  <2>2. NoFaultIsHealthy'
    BY <1>2 DEF UeGone, Gone, Fault, TypeOK, NoFaultIsHealthy, Healthy, UplinkDue,
       HubRecord, GnbRecord, UeRecord, DlRecord, PastRecord
  <2>3. TodoConnected' /\ NotYetServed' /\ OncePerBlock' /\ AskerIsUp'
    BY <1>2 DEF UeGone, Gone, Fault, TypeOK, HubRecord, GnbRecord, UeRecord, DlRecord, PastRecord
  <2> QED
    BY <2>1, <2>2, <2>3
<1>3. CASE UePause(s)
  <2>1. TypeOK'
    <3>1. past' \in PastRecord
      BY <1>3, FaultTyped DEF UePause
    <3>2. ue' \in [Slots -> UeRecord]
      BY <1>0, <1>3 DEF UePause, Fault, TypeOK, UeRecord
    <3> QED
      BY <1>3, <3>1, <3>2 DEF UePause, Fault, TypeOK
  <2>2. NoFaultIsHealthy'
    BY <1>3 DEF UePause, Fault, TypeOK, NoFaultIsHealthy, Healthy, UplinkDue,
       HubRecord, GnbRecord, UeRecord, DlRecord, PastRecord
  <2>3. TodoConnected' /\ NotYetServed' /\ OncePerBlock' /\ AskerIsUp'
    BY <1>3 DEF UePause, Fault, TypeOK, HubRecord, GnbRecord, UeRecord, DlRecord, PastRecord
  <2> QED
    BY <2>1, <2>2, <2>3
<1>4. CASE UeResume(s)
  <2>1. TypeOK'
    <3>1. ue' \in [Slots -> UeRecord]
      BY <1>0, <1>4 DEF UeResume, TypeOK, UeRecord
    <3> QED
      BY <1>4, <3>1 DEF UeResume, TypeOK
  <2>2. NoFaultIsHealthy'
    BY <1>4 DEF UeResume, TypeOK, NoFaultIsHealthy, Healthy, UplinkDue,
       HubRecord, GnbRecord, UeRecord, DlRecord, PastRecord
  <2>3. TodoConnected' /\ NotYetServed' /\ OncePerBlock' /\ AskerIsUp'
    BY <1>4 DEF UeResume, TypeOK, HubRecord, GnbRecord, UeRecord, DlRecord, PastRecord
  <2> QED
    BY <2>1, <2>2, <2>3
<1>5. CASE UeAsk(s)
  <2>1. TypeOK'
    <3>1. dl' \in [Slots -> DlRecord]
      BY <1>0, <1>5 DEF UeAsk, Runs, TypeOK, DlRecord
    <3> QED
      BY <1>5, <3>1 DEF UeAsk, Runs, TypeOK
  <2>2. NoFaultIsHealthy'
    BY <1>5 DEF UeAsk, Runs, TypeOK, NoFaultIsHealthy, Healthy, UplinkDue,
       HubRecord, GnbRecord, UeRecord, DlRecord, PastRecord
  <2>3. TodoConnected' /\ NotYetServed' /\ OncePerBlock' /\ AskerIsUp'
    BY <1>5 DEF UeAsk, Runs, TypeOK, HubRecord, GnbRecord, UeRecord, DlRecord, PastRecord
  <2> QED
    BY <2>1, <2>2, <2>3
<1>6. CASE UeAnswerOld(s)
  <2>1. TypeOK'
    <3>1. ue' \in [Slots -> UeRecord]
      BY <1>0, <1>6 DEF UeAnswerOld, Runs, TypeOK, UeRecord
    <3> QED
      BY <1>6, <3>1 DEF UeAnswerOld, Runs, TypeOK
  <2>2. NoFaultIsHealthy'
    BY <1>6 DEF UeAnswerOld, Runs, TypeOK, NoFaultIsHealthy, Healthy, UplinkDue,
       HubRecord, GnbRecord, UeRecord, DlRecord, PastRecord
  <2>3. TodoConnected' /\ NotYetServed' /\ OncePerBlock' /\ AskerIsUp'
    BY <1>6 DEF UeAnswerOld, Runs, TypeOK, HubRecord, GnbRecord, UeRecord, DlRecord, PastRecord
  <2> QED
    BY <2>1, <2>2, <2>3
<1> QED
  BY <1>1, <1>2, <1>3, <1>4, <1>5, <1>6

\* The uplink half of a tick: a healthy UE always has the block asked of it.
LEMMA UplinkSteps ==
    ASSUME IInv, HubAssumption,
           RecvUl \/ SendUl \/ (\E s \in Slots : GatherUl(s) \/ MissUl(s))
    PROVE  IInv'
<1> USE DEF IInv, OncePerBlock, TodoConnected, Connected, NotYetServed, AskerIsUp
<1>0. MissLimit \in Nat \ {0} /\ Lead \in Nat \ {0} /\ Ring \in Nat /\ MaxFaults \in Nat
  BY DEF HubAssumption
<1>1. CASE RecvUl
  <2>1. TypeOK'
    <3>1. hub' \in HubRecord
      BY <1>0, <1>1 DEF RecvUl, TypeOK, HubRecord
    <3> QED
      BY <1>1, <3>1 DEF RecvUl, TypeOK
  <2>2. NoFaultIsHealthy'
    BY <1>1 DEF RecvUl, TypeOK, NoFaultIsHealthy, Healthy, UplinkDue,
       HubRecord, GnbRecord, UeRecord, DlRecord, PastRecord
  <2>3. TodoConnected' /\ NotYetServed' /\ OncePerBlock' /\ AskerIsUp'
    BY <1>1 DEF RecvUl, TypeOK, HubRecord, GnbRecord, UeRecord, DlRecord, PastRecord
  <2> QED
    BY <2>1, <2>2, <2>3
<1>2. CASE SendUl
  <2>1. TypeOK'
    <3>1. hub' \in HubRecord
      BY <1>0, <1>2 DEF SendUl, TypeOK, HubRecord
    <3>2. gnb' \in GnbRecord
      <4>1. gnb.dl + 1 \in Nat
        BY DEF TypeOK, GnbRecord
      <4>2. PICK n \in Nat : gnb' = [gnb EXCEPT !.asked = FALSE, !.dl = n]
        BY <1>2, <4>1 DEF SendUl
      <4> QED
        BY <4>2 DEF TypeOK, GnbRecord
    <3> QED
      BY <1>2, <3>1, <3>2 DEF SendUl, TypeOK
  <2>2. NoFaultIsHealthy'
    BY <1>2 DEF SendUl, TypeOK, NoFaultIsHealthy, Healthy, UplinkDue,
       HubRecord, GnbRecord, UeRecord, DlRecord, PastRecord
  <2>3. TodoConnected' /\ NotYetServed' /\ OncePerBlock' /\ AskerIsUp'
    BY <1>2 DEF SendUl, TypeOK, HubRecord, GnbRecord, UeRecord, DlRecord, PastRecord
  <2> QED
    BY <2>1, <2>2, <2>3
<1>3. ASSUME NEW s \in Slots, GatherUl(s) PROVE IInv'
  <2>1. /\ hub.at = "gather" /\ s \in hub.todo
        /\ hub'.at = hub.at /\ hub'.todo = hub.todo \ {s}
        /\ hub'.running = hub.running /\ hub'.connected = hub.connected
        /\ hub'.miss = [hub.miss EXCEPT ![s] = 0]
        /\ hub' = [at |-> hub'.at, todo |-> hub'.todo, running |-> hub'.running,
                   connected |-> hub'.connected, miss |-> hub'.miss]
    BY <1>3 DEF GatherUl, Gathering, TypeOK, HubRecord
  <2>2. hub' \in HubRecord
    <3>1. hub'.miss \in [Slots -> 0..MissLimit-1]
      BY <1>0, <2>1 DEF TypeOK, HubRecord
    <3> QED
      BY <2>1, <3>1 DEF TypeOK, HubRecord
  <2>3. UNCHANGED <<gnb, dl, past>>
    BY <1>3 DEF GatherUl
  <2>4. ue[s] \in UeRecord /\ ue[s].credit - 1 \in 0..Lead+Ring
    <3>1. ue[s] \in UeRecord /\ ue[s].credit > 0
      BY <1>3 DEF GatherUl, TypeOK
    <3>2. ue[s].credit \in 0..Lead+Ring /\ Lead+Ring \in Nat
      BY <1>0, <3>1 DEF UeRecord
    <3> QED
      BY <3>1, <3>2
  <2>5. PICK n \in 0..Lead+Ring : ue' = [ue EXCEPT ![s].credit = n]
    BY <1>3, <2>4 DEF GatherUl
  <2>6. /\ ue' \in [Slots -> UeRecord]
        /\ ue'[s].up = ue[s].up /\ ue'[s].paused = ue[s].paused /\ ue'[s].old = ue[s].old
        /\ \A t \in Slots \ {s} : ue'[t] = ue[t]
    BY <2>5 DEF TypeOK, UeRecord
  <2>7. TypeOK'
    BY <2>2, <2>3, <2>6 DEF TypeOK
  <2>8. NoFaultIsHealthy'
    BY <2>1, <2>3, <2>6 DEF NoFaultIsHealthy, Healthy, UplinkDue, TypeOK, HubRecord
  <2>9. TodoConnected' /\ NotYetServed' /\ AskerIsUp' /\ OncePerBlock'
    BY <2>1, <2>3, <2>6
  <2> QED
    BY <2>7, <2>8, <2>9
<1>4. ASSUME NEW s \in Slots, MissUl(s) PROVE IInv'
  <2>1. s \in past.faulty
    <3>1. hub.at = "gather" /\ s \in hub.todo /\ (~Runs(s) \/ ue[s].credit = 0)
      BY <1>4 DEF MissUl, Gathering
    <3>2. hub.connected[s]
      BY <3>1
    <3> QED
      BY <3>1, <3>2 DEF Runs, TypeOK, NoFaultIsHealthy, Healthy, UplinkDue, UeRecord
  <2>2. /\ hub'.at = hub.at /\ hub'.running = hub.running /\ hub'.todo = hub.todo \ {s}
        /\ hub'.connected = [hub.connected EXCEPT ![s] = ~Recycled(s)]
        /\ hub'.miss = [hub.miss EXCEPT ![s] = IF Recycled(s) THEN 0 ELSE @ + 1]
        /\ hub' = [at |-> hub'.at, todo |-> hub'.todo, running |-> hub'.running,
                   connected |-> hub'.connected, miss |-> hub'.miss]
    BY <1>4 DEF MissUl, TypeOK, HubRecord
  <2>3. hub' \in HubRecord
    <3>1. hub'.miss \in [Slots -> 0..MissLimit-1]
      BY <1>0, <2>2 DEF Recycled, TypeOK, HubRecord
    <3>2. hub'.connected \in [Slots -> BOOLEAN]
      BY <2>2 DEF Recycled, TypeOK, HubRecord
    <3> QED
      BY <2>2, <3>1, <3>2 DEF TypeOK, HubRecord
  <2>4. /\ ue' \in [Slots -> UeRecord]
        /\ \A t \in Slots : ue'[t].up = ue[t].up
        /\ \A t \in Slots \ {s} : ue'[t] = ue[t]
    <3>1. CASE ~ue[s].up
      BY <1>4, <3>1 DEF MissUl, TypeOK
    <3>2. CASE ue[s].up
      <4>1. ue[s] \in UeRecord /\ ue[s].old + 1 \in Nat
        BY DEF TypeOK, UeRecord
      <4>2. PICK n \in Nat : ue' = [ue EXCEPT ![s].old = n]
        BY <1>4, <3>2, <4>1 DEF MissUl
      <4> QED
        BY <4>2 DEF TypeOK, UeRecord
    <3> QED
      BY <3>1, <3>2
  <2>5. UNCHANGED <<gnb, dl, past>>
    BY <1>4 DEF MissUl
  <2>6. /\ \A t \in Slots \ {s} : hub'.connected[t] = hub.connected[t]
                               /\ hub'.miss[t] = hub.miss[t]
        /\ hub.at = "gather"
    BY <1>4, <2>2 DEF MissUl, Gathering, TypeOK, HubRecord
  <2>7. TypeOK'
    BY <2>3, <2>4, <2>5 DEF TypeOK
  <2>8. NoFaultIsHealthy'
    BY <2>1, <2>2, <2>4, <2>5, <2>6 DEF NoFaultIsHealthy, Healthy, UplinkDue
  <2>9. TodoConnected' /\ NotYetServed' /\ AskerIsUp' /\ OncePerBlock'
    BY <2>2, <2>4, <2>5, <2>6
  <2> QED
    BY <2>7, <2>8, <2>9
<1> QED
  BY <1>1, <1>2, <1>3, <1>4

\* Where a block is delivered the slot has not got it yet.
LEMMA DeliverSteps ==
    ASSUME IInv, HubAssumption, NEW s \in Slots,
           Serve(s) \/ ServeFirst(s) \/ PickupJoin(s)
    PROVE  IInv'
<1>0. MissLimit \in Nat \ {0}
  BY DEF HubAssumption
<1>1. Deliver(s)
  BY DEF Serve, ServeFirst, PickupJoin
<1>2. past.got[s] = 0
  <2>1. CASE Serve(s)
    <3>1. hub.at = "serve" /\ s \in hub.todo
      BY <2>1 DEF Serve
    <3> QED
      BY <3>1 DEF IInv, NotYetServed
  <2>2. CASE ServeFirst(s)
    BY <2>2 DEF ServeFirst, IInv, NotYetServed, Connected
  <2>3. CASE PickupJoin(s)
    BY <2>3 DEF PickupJoin, MayJoin, IInv, NotYetServed
  <2> QED
    BY <2>1, <2>2, <2>3
<1>3. /\ hub'.at \in {"recv", "gather", "pull", "serve", "joins", "closed"}
      /\ hub'.todo \subseteq hub.todo /\ hub'.running = hub.running
      /\ hub'.connected = [hub.connected EXCEPT ![s] = TRUE]
      /\ hub'.miss \in [Slots -> 0..MissLimit-1]
      /\ \A t \in Slots : hub'.miss[t] \in {0, hub.miss[t]}
      /\ hub' \in HubRecord
      /\ gnb' = gnb
  <2>1. CASE Serve(s)
    BY <1>0, <2>1 DEF Serve, IInv, TypeOK, HubRecord, TodoConnected, Connected
  <2>2. CASE ServeFirst(s)
    BY <1>0, <2>2 DEF ServeFirst, IInv, TypeOK, HubRecord
  <2>3. CASE PickupJoin(s)
    <3>1. /\ hub'.at = hub.at /\ hub'.todo = hub.todo /\ hub'.running = hub.running
          /\ hub'.connected = [hub.connected EXCEPT ![s] = TRUE]
          /\ hub'.miss = [hub.miss EXCEPT ![s] = 0]
          /\ hub' = [at |-> hub'.at, todo |-> hub'.todo, running |-> hub'.running,
                     connected |-> hub'.connected, miss |-> hub'.miss]
      BY <2>3 DEF PickupJoin, IInv, TypeOK, HubRecord
    <3>2. hub'.miss \in [Slots -> 0..MissLimit-1]
      BY <1>0, <3>1 DEF IInv, TypeOK, HubRecord
    <3> QED
      BY <2>3, <3>1, <3>2 DEF PickupJoin, IInv, TypeOK, HubRecord
  <2> QED
    BY <2>1, <2>2, <2>3
<1>4. /\ hub'.at \in {"serve", "joins"}
      /\ hub'.at = "serve" => hub.at = "serve" /\ hub'.todo = hub.todo \ {s}
      /\ hub.at \in {"serve", "joins"}
      /\ hub.at = "serve" /\ hub'.at = "joins" => hub.todo \subseteq {s}
  <2>1. CASE Serve(s)
    BY <2>1 DEF Serve, IInv, TypeOK, HubRecord
  <2>2. CASE ServeFirst(s)
    BY <2>2 DEF ServeFirst, IInv, TypeOK, HubRecord, TodoConnected
  <2>3. CASE PickupJoin(s)
    BY <2>3 DEF PickupJoin, IInv, TypeOK, HubRecord
  <2> QED
    BY <2>1, <2>2, <2>3
<1>5. TypeOK'
  BY <1>1, <1>3, Delivered DEF IInv, TypeOK
<1>6. OncePerBlock' /\ NotYetServed' /\ TodoConnected' /\ AskerIsUp'
  BY <1>1, <1>2, <1>3, <1>4, Delivered
     DEF IInv, TypeOK, OncePerBlock, NotYetServed, TodoConnected, AskerIsUp, Connected,
         HubRecord, UeRecord, DlRecord, PastRecord
<1>7. NoFaultIsHealthy'
  <2> SUFFICES ASSUME NEW t \in Slots, t \notin past.faulty
               PROVE  Healthy(t)'
    BY <1>1, Delivered DEF IInv, NoFaultIsHealthy
  <2>1. Healthy(t)
    BY DEF IInv, NoFaultIsHealthy
  <2>2. CASE t = s
    <3>1. dl[s].live
      BY <1>1, <2>1, <2>2 DEF Deliver, Healthy, IInv, TypeOK, DlRecord
    <3> QED
      BY <1>1, <1>3, <2>1, <2>2, <3>1, Delivered DEF Healthy, UplinkDue, IInv, AskerIsUp, TypeOK, HubRecord
  <2>3. CASE t # s
    BY <1>1, <1>3, <1>4, <2>1, <2>3, Delivered DEF Healthy, UplinkDue, IInv, TypeOK, HubRecord
  <2> QED
    BY <2>2, <2>3
<1> QED
  BY <1>5, <1>6, <1>7 DEF IInv

\* The rest of the tick: who is left unserved has a fault to its name.
LEMMA OtherSteps ==
    ASSUME IInv, HubAssumption,
           \/ PullDl \/ PullTimeout \/ BarrierTimeout \/ ServeStopped
           \/ EndTick \/ Stop \/ Close \/ GnbAsk \/ GnbAnswerOld
    PROVE  IInv'
<1> USE DEF IInv, OncePerBlock, TodoConnected, Connected, NotYetServed, AskerIsUp
<1>0. MissLimit \in Nat \ {0} /\ Lead \in Nat \ {0} /\ Ring \in Nat /\ MaxFaults \in Nat
  BY DEF HubAssumption
<1>1. CASE PullDl
  <2>1. TypeOK'
    <3>1. hub' \in HubRecord
      BY <1>0, <1>1 DEF PullDl, TypeOK, HubRecord
    <3>2. gnb' \in GnbRecord
      BY <1>0, <1>1 DEF PullDl, TypeOK, GnbRecord
    <3>3. past' \in PastRecord
      BY <1>0, <1>1 DEF PullDl, TypeOK, PastRecord
    <3> QED
      BY <1>1, <3>1, <3>2, <3>3 DEF PullDl, TypeOK
  <2>2. NoFaultIsHealthy'
    BY <1>1 DEF PullDl, TypeOK, NoFaultIsHealthy, Healthy, UplinkDue,
       HubRecord, GnbRecord, UeRecord, DlRecord, PastRecord
  <2>3. TodoConnected' /\ NotYetServed' /\ OncePerBlock' /\ AskerIsUp'
    BY <1>1 DEF PullDl, TypeOK, HubRecord, GnbRecord, UeRecord, DlRecord, PastRecord
  <2> QED
    BY <2>1, <2>2, <2>3
<1>2. CASE PullTimeout
  <2>1. TypeOK'
    <3>1. hub' \in HubRecord
      BY <1>0, <1>2 DEF PullTimeout, Fault, TypeOK, HubRecord
    <3>2. gnb' \in GnbRecord
      BY <1>0, <1>2 DEF PullTimeout, Fault, TypeOK, GnbRecord
    <3>3. past' \in PastRecord
      BY <1>2, FaultTyped DEF PullTimeout
    <3> QED
      BY <1>2, <3>1, <3>2, <3>3 DEF PullTimeout, Fault, TypeOK
  <2>2. NoFaultIsHealthy'
    BY <1>2 DEF PullTimeout, Fault, TypeOK, NoFaultIsHealthy, Healthy, UplinkDue,
       HubRecord, GnbRecord, UeRecord, DlRecord, PastRecord
  <2>3. TodoConnected' /\ NotYetServed' /\ OncePerBlock' /\ AskerIsUp'
    BY <1>2 DEF PullTimeout, Fault, TypeOK, HubRecord, GnbRecord, UeRecord, DlRecord, PastRecord
  <2> QED
    BY <2>1, <2>2, <2>3
<1>3. CASE BarrierTimeout
  <2>1. TypeOK'
    <3>1. hub' \in HubRecord
      BY <1>0, <1>3 DEF BarrierTimeout, Faulty, TypeOK, HubRecord
    <3>2. past' \in PastRecord
      BY <1>0, <1>3 DEF BarrierTimeout, Faulty, TypeOK, PastRecord
    <3> QED
      BY <1>3, <3>1, <3>2 DEF BarrierTimeout, Faulty, TypeOK
  <2>2. NoFaultIsHealthy'
    BY <1>3 DEF BarrierTimeout, Faulty, TypeOK, NoFaultIsHealthy, Healthy, UplinkDue,
       HubRecord, GnbRecord, UeRecord, DlRecord, PastRecord
  <2>3. TodoConnected' /\ NotYetServed' /\ OncePerBlock' /\ AskerIsUp'
    BY <1>3 DEF BarrierTimeout, Faulty, TypeOK, HubRecord, GnbRecord, UeRecord, DlRecord, PastRecord
  <2> QED
    BY <2>1, <2>2, <2>3
<1>4. CASE ServeStopped
  <2>1. TypeOK'
    <3>1. hub' \in HubRecord
      BY <1>0, <1>4 DEF ServeStopped, Faulty, TypeOK, HubRecord
    <3>2. past' \in PastRecord
      BY <1>0, <1>4 DEF ServeStopped, Faulty, TypeOK, PastRecord
    <3> QED
      BY <1>4, <3>1, <3>2 DEF ServeStopped, Faulty, TypeOK
  <2>2. NoFaultIsHealthy'
    BY <1>4 DEF ServeStopped, Faulty, TypeOK, NoFaultIsHealthy, Healthy, UplinkDue,
       HubRecord, GnbRecord, UeRecord, DlRecord, PastRecord
  <2>3. TodoConnected' /\ NotYetServed' /\ OncePerBlock' /\ AskerIsUp'
    BY <1>4 DEF ServeStopped, Faulty, TypeOK, HubRecord, GnbRecord, UeRecord, DlRecord, PastRecord
  <2> QED
    BY <2>1, <2>2, <2>3
<1>5. CASE EndTick
  <2>1. TypeOK'
    <3>1. hub' \in HubRecord
      BY <1>0, <1>5 DEF EndTick, TypeOK, HubRecord
    <3> QED
      BY <1>5, <3>1 DEF EndTick, TypeOK
  <2>2. NoFaultIsHealthy'
    BY <1>5 DEF EndTick, TypeOK, NoFaultIsHealthy, Healthy, UplinkDue,
       HubRecord, GnbRecord, UeRecord, DlRecord, PastRecord
  <2>3. TodoConnected' /\ NotYetServed' /\ OncePerBlock' /\ AskerIsUp'
    BY <1>5 DEF EndTick, TypeOK, HubRecord, GnbRecord, UeRecord, DlRecord, PastRecord
  <2> QED
    BY <2>1, <2>2, <2>3
<1>6. CASE Stop
  <2>1. TypeOK'
    <3>1. hub' \in HubRecord
      BY <1>0, <1>6 DEF Stop, TypeOK, HubRecord
    <3> QED
      BY <1>6, <3>1 DEF Stop, TypeOK
  <2>2. NoFaultIsHealthy'
    BY <1>6 DEF Stop, TypeOK, NoFaultIsHealthy, Healthy, UplinkDue,
       HubRecord, GnbRecord, UeRecord, DlRecord, PastRecord
  <2>3. TodoConnected' /\ NotYetServed' /\ OncePerBlock' /\ AskerIsUp'
    BY <1>6 DEF Stop, TypeOK, HubRecord, GnbRecord, UeRecord, DlRecord, PastRecord
  <2> QED
    BY <2>1, <2>2, <2>3
<1>7. CASE Close
  <2>1. TypeOK'
    <3>1. hub' \in HubRecord
      BY <1>0, <1>7 DEF Close, TypeOK, HubRecord
    <3> QED
      BY <1>7, <3>1 DEF Close, TypeOK
  <2>2. NoFaultIsHealthy'
    BY <1>7 DEF Close, TypeOK, NoFaultIsHealthy, Healthy, UplinkDue,
       HubRecord, GnbRecord, UeRecord, DlRecord, PastRecord
  <2>3. TodoConnected' /\ NotYetServed' /\ OncePerBlock' /\ AskerIsUp'
    BY <1>7 DEF Close, TypeOK, HubRecord, GnbRecord, UeRecord, DlRecord, PastRecord
  <2> QED
    BY <2>1, <2>2, <2>3
<1>8. CASE GnbAsk
  <2>1. TypeOK'
    <3>1. gnb' \in GnbRecord
      BY <1>0, <1>8 DEF GnbAsk, TypeOK, GnbRecord
    <3> QED
      BY <1>8, <3>1 DEF GnbAsk, TypeOK
  <2>2. NoFaultIsHealthy'
    BY <1>8 DEF GnbAsk, TypeOK, NoFaultIsHealthy, Healthy, UplinkDue,
       HubRecord, GnbRecord, UeRecord, DlRecord, PastRecord
  <2>3. TodoConnected' /\ NotYetServed' /\ OncePerBlock' /\ AskerIsUp'
    BY <1>8 DEF GnbAsk, TypeOK, HubRecord, GnbRecord, UeRecord, DlRecord, PastRecord
  <2> QED
    BY <2>1, <2>2, <2>3
<1>9. CASE GnbAnswerOld
  <2>1. TypeOK'
    <3>1. gnb' \in GnbRecord
      <4>1. gnb.dl - 1 \in Nat /\ gnb.old - 1 \in Nat
        BY <1>9 DEF GnbAnswerOld, TypeOK, GnbRecord
      <4>2. PICK m \in Nat, n \in Nat : gnb' = [gnb EXCEPT !.old = m, !.dl = n]
        BY <1>9, <4>1 DEF GnbAnswerOld
      <4> QED
        BY <4>2 DEF TypeOK, GnbRecord
    <3> QED
      BY <1>9, <3>1 DEF GnbAnswerOld, TypeOK
  <2>2. NoFaultIsHealthy'
    BY <1>9 DEF GnbAnswerOld, TypeOK, NoFaultIsHealthy, Healthy, UplinkDue,
       HubRecord, GnbRecord, UeRecord, DlRecord, PastRecord
  <2>3. TodoConnected' /\ NotYetServed' /\ OncePerBlock' /\ AskerIsUp'
    BY <1>9 DEF GnbAnswerOld, TypeOK, HubRecord, GnbRecord, UeRecord, DlRecord, PastRecord
  <2> QED
    BY <2>1, <2>2, <2>3
<1> QED
  BY <1>1, <1>2, <1>3, <1>4, <1>5, <1>6, <1>7, <1>8, <1>9

LEMMA NextIInv == IInv /\ [Next]_vars => IInv'
<1> SUFFICES ASSUME IInv, [Next]_vars PROVE IInv'
  OBVIOUS
<1>1. CASE Next
  BY <1>1, UeSteps, UplinkSteps, DeliverSteps, OtherSteps, HubAssumption
     DEF Next, HubStep
<1>2. CASE UNCHANGED vars
  BY <1>2 DEF vars, IInv, TypeOK, OncePerBlock, TodoConnected, NotYetServed, AskerIsUp,
              NoFaultIsHealthy, Healthy, UplinkDue, Connected
<1> QED
  BY <1>1, <1>2

\* The inductive invariant holds in every reachable state.
THEOREM Invariance == Spec => []IInv
<1> QED
  BY InitIInv, NextIInv, PTL DEF Spec

\* No UE gets a downlink block twice, by whichever way it is served.
THEOREM BlocksComeOnce == Spec => []OncePerBlock
<1>1. IInv => OncePerBlock
  BY DEF IInv
<1> QED
  BY <1>1, Invariance, PTL

\* No UE is missed, and so none loses its slot, that has not been away, paused or
\* left without a downlink block.
THEOREM MissesHaveReasons == Spec => []NoFalseMiss
<1>1. IInv => NoFalseMiss
  BY DEF IInv, NoFaultIsHealthy, Healthy, NoFalseMiss
<1> QED
  BY <1>1, Invariance, PTL
=============================================================================
