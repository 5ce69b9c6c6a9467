---------------------------------- MODULE IqHub ----------------------------------
(***************************************************************************)
(* The sample plane of the integration: one gNB, the IQ hub                *)
(* (integration/hub/iqhub.py) and one srsUE in each slot, exchanging       *)
(* blocks of samples over ZeroMQ request/reply sockets.                    *)
(*                                                                         *)
(* The gNB's receive channel asks the hub for an uplink block, and its     *)
(* transmit channel answers the hub with a downlink block, one made for    *)
(* each uplink block received (ocudu lib/radio/zmq).  A UE asks the hub    *)
(* for downlink blocks all the time (rf_zmq_imp_rx.c) and answers with     *)
(* uplink blocks, up to Lead ahead of the downlink it read                 *)
(* (rf_zmq_imp_tx.c).  The hub's run loop ties them together, one uplink   *)
(* and one downlink block per tick.  Samples are left out.                 *)
(*                                                                         *)
(* A request whose asker is gone stays in the queue of the socket asked,   *)
(* and the answer to it is dropped: it is "old".                           *)
(***************************************************************************)
EXTENDS Naturals, FiniteSets, FiniteSetsExt

CONSTANTS
    Slots,       \* self.slots, by index
    MissLimit,   \* ul_miss_limit
    Lead,        \* uplink blocks a UE sends before it has read a downlink block
    Ring,        \* bound: downlink blocks a UE's ring buffer holds
    MaxFaults    \* bound: UEs that go away or pause for longer than the hub's
                 \* timeouts, and downlink pulls the gNB is too late for

ASSUME HubAssumption ==
    /\ Slots \subseteq Nat /\ IsFiniteSet(Slots) /\ Slots # {}
    /\ {MissLimit, Lead} \subseteq Nat \ {0}
    /\ {Ring, MaxFaults} \subseteq Nat

VARIABLES
    hub,     \* where run is, slots yet to be visited there, running, the slots
             \* connected and their misses
    gnb,     \* receive channel waits for data, downlink blocks to transmit,
             \* old requests
    ue,      \* of each slot: up, paused, uplink blocks it can send, old requests
    dl,      \* requests at each slot's dl_sock: the UE's, old ones
    past     \* history and bounds: times each slot's UE got the last block,
             \* slots with a reason to be missed, faults so far

vars == <<hub, gnb, ue, dl, past>>

Connected == {s \in Slots : hub.connected[s]}
Gone == [up |-> FALSE, paused |-> FALSE, credit |-> 0, old |-> 0]
Started == [up |-> TRUE, paused |-> FALSE, credit |-> Lead, old |-> 0]

Init ==
    /\ hub = [at |-> "recv", todo |-> {}, running |-> TRUE,
              connected |-> [s \in Slots |-> FALSE], miss |-> [s \in Slots |-> 0]]
    /\ gnb = [asked |-> FALSE, dl |-> 0, old |-> 0]
    /\ ue = [s \in Slots |-> Gone]
    /\ dl = [s \in Slots |-> [live |-> FALSE, old |-> 0]]
    /\ past = [got |-> [s \in Slots |-> 0], faulty |-> {}, faults |-> 0]

Faulty(S) == past' = [past EXCEPT !.faulty = @ \cup S]
Fault(S) ==
    /\ past.faults < MaxFaults
    /\ past' = [past EXCEPT !.faults = @ + 1, !.faulty = @ \cup S]

--------------------------------------------------------------------------------
(* The UEs.                                                                 *)

UeStart(s) ==
    /\ ~ue[s].up
    /\ ue' = [ue EXCEPT ![s] = Started]
    /\ UNCHANGED <<hub, gnb, dl, past>>

\* A request the hub has not read yet may outlive the UE.
UeGone(s) ==
    /\ ue[s].up /\ Fault({s})
    /\ ue' = [ue EXCEPT ![s] = Gone]
    /\ \E outlives \in (IF dl[s].live THEN 0..1 ELSE {0}) :
          dl' = [dl EXCEPT ![s] = [live |-> FALSE, old |-> @.old + outlives]]
    /\ UNCHANGED <<hub, gnb>>

UePause(s) ==
    /\ ue[s].up /\ ~ue[s].paused /\ Fault({s})
    /\ ue' = [ue EXCEPT ![s].paused = TRUE]
    /\ UNCHANGED <<hub, gnb, dl>>

UeResume(s) ==
    /\ ue[s].paused
    /\ ue' = [ue EXCEPT ![s].paused = FALSE]
    /\ UNCHANGED <<hub, gnb, dl, past>>

Runs(s) == ue[s].up /\ ~ue[s].paused

\* rf_zmq_async_rx_thread: the next request, once the last is answered.
UeAsk(s) ==
    /\ Runs(s) /\ ~dl[s].live
    /\ dl' = [dl EXCEPT ![s].live = TRUE]
    /\ UNCHANGED <<hub, gnb, ue, past>>

\* _rf_zmq_tx_baseband answers a request the hub has given up.
UeAnswerOld(s) ==
    /\ Runs(s) /\ ue[s].old > 0 /\ ue[s].credit > 0
    /\ ue' = [ue EXCEPT ![s].old = @ - 1, ![s].credit = @ - 1]
    /\ UNCHANGED <<hub, gnb, dl, past>>

--------------------------------------------------------------------------------
(* The gNB.                                                                 *)

\* radio_zmq_rx_channel::send_request, in state SEND_REQUEST.
GnbAsk ==
    /\ ~gnb.asked
    /\ gnb' = [gnb EXCEPT !.asked = TRUE]
    /\ UNCHANGED <<hub, ue, dl, past>>

\* radio_zmq_tx_channel::send_response to a request the hub has given up.
GnbAnswerOld ==
    /\ gnb.old > 0 /\ gnb.dl > 0
    /\ gnb' = [gnb EXCEPT !.old = @ - 1, !.dl = @ - 1]
    /\ UNCHANGED <<hub, ue, dl, past>>

--------------------------------------------------------------------------------
(* The hub: one tick of run.                                                *)

\* Mutant: the uplink is asked of every slot, connected or not.
RecvUlAll ==
    /\ hub.at = "recv" /\ hub.running /\ gnb.asked
    /\ hub' = [hub EXCEPT !.at = "gather", !.todo = Slots]
    /\ UNCHANGED <<gnb, ue, dl, past>>

\* The tick begins with the gNB's request, and the slots connected then.
RecvUl ==
    /\ hub.at = "recv" /\ hub.running /\ gnb.asked
    /\ hub' = [hub EXCEPT !.at = "gather", !.todo = Connected]
    /\ UNCHANGED <<gnb, ue, dl, past>>

Gathering(s) == hub.at = "gather" /\ s \in hub.todo /\ \A t \in hub.todo : s <= t

\* _gather_ul: a UE with an uplink block ready answers in time.
GatherUl(s) ==
    /\ Gathering(s)
    /\ Runs(s) /\ ue[s].credit > 0 /\ ue[s].old = 0
    /\ ue' = [ue EXCEPT ![s].credit = @ - 1]
    /\ hub' = [hub EXCEPT !.todo = @ \ {s}, !.miss[s] = 0]
    /\ UNCHANGED <<gnb, dl, past>>

Recycled(s) == hub.miss[s] + 1 >= MissLimit

\* Mutant: the misses start anew with the new socket.
MissUlForgotten(s) ==
    /\ Gathering(s)
    /\ ~Runs(s) \/ ue[s].credit = 0
    /\ ue' = IF ue[s].up THEN [ue EXCEPT ![s].old = @ + 1] ELSE ue
    /\ hub' = [hub EXCEPT !.todo = @ \ {s}, !.miss[s] = 0]
    /\ UNCHANGED <<gnb, dl, past>>

\* A UE that is gone, pauses or waits for its downlink does not.  The socket is
\* replaced, the request stays with the UE; too many misses free the slot.
MissUl(s) ==
    /\ Gathering(s)
    /\ ~Runs(s) \/ ue[s].credit = 0
    /\ ue' = IF ue[s].up THEN [ue EXCEPT ![s].old = @ + 1] ELSE ue
    /\ hub' = [hub EXCEPT !.todo = @ \ {s},
                          !.connected[s] = ~Recycled(s),
                          !.miss[s] = IF Recycled(s) THEN 0 ELSE @ + 1]
    /\ UNCHANGED <<gnb, dl, past>>

\* The sum, or silence, is the gNB's uplink block; its baseband transmits a
\* downlink block for it, some time before the hub's timeout or after.
SendUl ==
    /\ hub.at = "gather" /\ hub.todo = {}
    /\ hub' = [hub EXCEPT !.at = "pull"]
    /\ gnb' = [gnb EXCEPT !.asked = FALSE, !.dl = @ + 1]
    /\ UNCHANGED <<ue, dl, past>>

\* _pull_dl.
PullDl ==
    /\ hub.at = "pull" /\ gnb.dl > 0 /\ gnb.old = 0
    /\ gnb' = [gnb EXCEPT !.dl = @ - 1]
    /\ hub' = [hub EXCEPT !.at = "serve", !.todo = Connected]
    /\ past' = [past EXCEPT !.got = [s \in Slots |-> 0]]
    /\ UNCHANGED <<ue, dl>>

\* The gNB is late: the socket is replaced, and the block, when it comes, lost.
PullTimeout ==
    /\ hub.at = "pull" /\ Fault(Connected)
    /\ gnb' = [gnb EXCEPT !.old = @ + 1]
    /\ hub' = [hub EXCEPT !.at = "recv"]
    /\ UNCHANGED <<ue, dl>>

--------------------------------------------------------------------------------
(* The hub: the downlink block.                                             *)

Asks(s) == dl[s].live \/ dl[s].old > 0

\* A request is read and answered: for the UE, or for one that is gone.
Deliver(s) ==
    \/ /\ dl[s].live
       /\ dl' = [dl EXCEPT ![s].live = FALSE]
       /\ ue' = [ue EXCEPT ![s].credit = Min({@ + 1, Lead + Ring})]
       /\ past' = [past EXCEPT !.got[s] = @ + 1]
    \/ /\ dl[s].old > 0
       /\ dl' = [dl EXCEPT ![s].old = @ - 1]
       /\ UNCHANGED <<ue, past>>

\* _serve_dl, of a connected slot: the only one, or one of the barrier.
Serve(s) ==
    /\ hub.at = "serve" /\ s \in hub.todo
    /\ Deliver(s)
    /\ hub' = [hub EXCEPT !.todo = @ \ {s},
                          !.at = IF hub.todo = {s} THEN "joins" ELSE @]
    /\ UNCHANGED gnb

\* Mutant: a UE served restarts the deadline.
BarrierTimeoutRestarted ==
    /\ hub.at = "serve" /\ Cardinality(Connected) > 1 /\ hub.todo = Connected
    /\ \E s \in hub.todo : ~Asks(s) /\ ~Runs(s)
    /\ hub' = [hub EXCEPT !.at = "joins", !.todo = {}]
    /\ Faulty(hub.todo)
    /\ UNCHANGED <<gnb, ue, dl>>

\* The barrier's deadline passes when a UE does not ask.  The only connected
\* slot has no deadline.
BarrierTimeout ==
    /\ hub.at = "serve" /\ Cardinality(Connected) > 1
    /\ \E s \in hub.todo : ~Asks(s) /\ ~Runs(s)
    /\ hub' = [hub EXCEPT !.at = "joins", !.todo = {}]
    /\ Faulty(hub.todo)
    /\ UNCHANGED <<gnb, ue, dl>>

\* With no slot connected, the first that asks joins.
ServeFirst(s) ==
    /\ hub.at = "serve" /\ Connected = {}
    /\ \A t \in Slots : t < s => ~Asks(t)
    /\ Deliver(s)
    /\ hub' = [hub EXCEPT !.at = "joins", !.connected[s] = TRUE]
    /\ UNCHANGED gnb

\* Mutant: the wait for the only connected slot does not look at running.
ServeStoppedNotAlone ==
    /\ hub.at = "serve" /\ ~hub.running /\ Cardinality(Connected) # 1
    /\ hub' = [hub EXCEPT !.at = "joins", !.todo = {}]
    /\ Faulty(hub.todo)
    /\ UNCHANGED <<gnb, ue, dl>>

\* Every wait in _serve_dl ends with running.
ServeStopped ==
    /\ hub.at = "serve" /\ ~hub.running
    /\ hub' = [hub EXCEPT !.at = "joins", !.todo = {}]
    /\ Faulty(hub.todo)
    /\ UNCHANGED <<gnb, ue, dl>>

\* Mutant: any slot with a request is served.
MayJoinAgain(s) == Asks(s)

\* _pickup_joins: a slot that is not connected joins with its request.
MayJoin(s) == ~hub.connected[s] /\ Asks(s)

PickupJoin(s) ==
    /\ hub.at = "joins" /\ MayJoin(s)
    /\ Deliver(s)
    /\ hub' = [hub EXCEPT !.connected[s] = TRUE, !.miss[s] = 0]
    /\ UNCHANGED gnb

EndTick ==
    /\ hub.at = "joins" /\ \A s \in Slots : ~MayJoin(s)
    /\ hub' = [hub EXCEPT !.at = "recv"]
    /\ UNCHANGED <<gnb, ue, dl, past>>

\* stop, from a signal; run ends at the top of its loop.
Stop ==
    /\ hub.running
    /\ hub' = [hub EXCEPT !.running = FALSE]
    /\ UNCHANGED <<gnb, ue, dl, past>>

Close ==
    /\ hub.at = "recv" /\ ~hub.running
    /\ hub' = [hub EXCEPT !.at = "closed"]
    /\ UNCHANGED <<gnb, ue, dl, past>>

HubStep ==
    \/ RecvUl \/ SendUl \/ PullDl \/ BarrierTimeout \/ ServeStopped \/ EndTick \/ Close
    \/ \E s \in Slots : \/ GatherUl(s) \/ MissUl(s) \/ Serve(s)
                        \/ ServeFirst(s) \/ PickupJoin(s)

Next ==
    \/ HubStep \/ PullTimeout \/ Stop
    \/ GnbAsk \/ GnbAnswerOld
    \/ \E s \in Slots : \/ UeStart(s) \/ UeGone(s) \/ UePause(s) \/ UeResume(s)
                        \/ UeAsk(s) \/ UeAnswerOld(s)

Spec == Init /\ [][Next]_vars

\* The hub's loop and the threads of the gNB and of a UE that is up go on; nothing
\* makes a UE start, go or stay, nor the signal come.
FairSpec ==
    /\ Spec
    /\ WF_vars(HubStep) /\ WF_vars(GnbAsk) /\ WF_vars(GnbAnswerOld)
    /\ \A s \in Slots : WF_vars(UeResume(s)) /\ WF_vars(UeAsk(s)) /\ WF_vars(UeAnswerOld(s))

--------------------------------------------------------------------------------
(* Properties.                                                              *)

\* A UE gets a downlink block at most once, whichever of _serve_dl's three ways
\* and _pickup_joins served it ("strictly 1:1", iqhub.py:6).
OncePerBlock == \A s \in Slots : past.got[s] <= 1

\* A UE is missed only with a reason: it went away, it paused, or a downlink block
\* did not reach it.  The hub's order of uplink and downlink alone never makes a
\* live UE late (_gather_ul: "this never stalls for live UEs").
NoFalseMiss == \A s \in Slots : hub.miss[s] > 0 => s \in past.faulty

\* A slot whose UE is gone does not stay connected, unless another UE takes it or
\* the hub waits for that slot alone (ul_miss_limit).
WaitsForGone == hub.at = "serve" /\ \E s \in Slots : Connected = {s} /\ ~ue[s].up
Recycles ==
    \A s \in Slots : hub.connected[s] /\ ~ue[s].up ~>
        ~hub.connected[s] \/ ue[s].up \/ WaitsForGone \/ hub.at = "closed"

\* The gNB's request is answered, unless the hub waits for the downlink request of
\* its one connected UE, gone, or for a first UE.
GnbAnswered ==
    gnb.asked ~> ~gnb.asked \/ hub.at = "closed" \/ WaitsForGone
                 \/ (hub.at = "serve" /\ Connected = {} /\ \A s \in Slots : ~ue[s].up)

\* A UE that asks gets a block, connected or joining, under the same condition.
UeServed ==
    \A s \in Slots : dl[s].live ~> ~dl[s].live \/ hub.at = "closed" \/ WaitsForGone

\* Nobody waits for the hub for ever, on either side of it.
Served == GnbAnswered /\ UeServed

\* After the signal the loop ends, whatever it waited for.
Stops == ~hub.running ~> hub.at = "closed"
=============================================================================
