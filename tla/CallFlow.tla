------------------------------- MODULE CallFlow -------------------------------
(***************************************************************************)
(* The call-flow recorder of the DU (du_server.py:223-277): it follows the *)
(* messages of one UE for the dashboard's ladder.  serve_f1 hands it every *)
(* uplink before dispatch and every reply after it; the HTTP thread asks   *)
(* for a reset at any moment, also between the two, and reads what the     *)
(* recorder last published.                                                *)
(*                                                                         *)
(* The DU is module DU.  Its open messages are narrowed here to those of   *)
(* UEs that walk their call flows, over up to two legs (one socket each,   *)
(* during a handover), and of sockets a UE has let go of, whose serve_ue   *)
(* hands on what is still in them and releases the UE; a UE spawned again  *)
(* attaches beside them, on the same cell too.  The end of an F1 link      *)
(* without the DU's is left to modules DU and Stack: it takes sessions     *)
(* away, as a refused handover and lost coverage do here, and does not     *)
(* concern the recorder.                                                   *)
(***************************************************************************)
EXTENDS DU, SequencesExt

CONSTANTS
  AttachFlow,   \* the step names of ATTACH_FLOW, in order
  TraceMax,     \* TRACE_MAX
  NoUe,         \* None
  MaxOwed       \* bound of the model: a UE lets go of a socket while fewer
                \* than this many are owed, and opens one while no more are

\* procedures.py: five steps with names of their own
ASSUME FlowAssumption ==
  /\ AttachFlow \in Seq(STRING) /\ IsInjective(AttachFlow)
  /\ AttachFlow[1] = "rrc_setup"
  /\ "context_setup" \in ToSet(AttachFlow) \ {AttachFlow[1]}
  /\ ToSet(AttachFlow) \cap {"none", "steady", "measurement", "data", "release_request",
                             "release_complete", "abandoned"} = {}
ASSUME TraceMaxAssumption == TraceMax \in Nat \ {0}
ASSUME NoUeAssumption == NoUe \notin UEs

VARIABLES
  rec,    \* the recorder: trace_ue, trace_events, trace_complete,
          \* _trace_reset and _trace_json
  msg,    \* the uplink serve_f1 has recorded and dispatches next, or Idle
  leg,    \* leg[u][c]: the step u's socket on cell c sends next; "none", no
          \* socket; "steady", in session
  owed,   \* sockets the UE has let go of unreleased: of which UE and cell, and
          \* the step serve_ue sends next; "abandoned", the release it asks
          \* for itself once it finds the socket ended
  vanished  \* history: the UEs whose last socket was cut off in its flow

flowVars == <<used, prbs, open, connCells, rec, msg, leg, owed, vanished>>

Idle == [ue |-> NoUe]
EmptyLadder == [ue |-> NoUe, complete |-> FALSE, events |-> <<>>]
Unlocked == [ue |-> NoUe, events |-> <<>>, complete |-> FALSE, reset |-> FALSE,
             json |-> EmptyLadder]

Publish(r) ==
  [r EXCEPT !.json = [ue |-> r.ue, complete |-> r.complete, events |-> r.events]]

\* A reset that was asked for takes effect with the next message.
ResetIfAsked(r) == IF r.reset THEN Unlocked ELSE r

\* Mutant: any message of a UE starts a ladder.
StartsAnywhere(r, e) == r.ue = NoUe

\* A free recorder locks onto the UE of an RRC connection request.
Starts(r, e) == r.ue = NoUe /\ e.dir = "up" /\ e.step = "rrc_setup"

\* Mutant: a refused attach stays on the ladder.
RefusedKept(e) == FALSE

\* A refusal abandons the UE: the next one that attaches is followed.
Refused(e) == e.dir = "down" /\ e.reject

Completes(e) == e.dir = "down" /\ e.step = "release_complete"

\* Mutant: a complete ladder goes on growing.
FollowsOn(r, u) == r.ue = u /\ Len(r.events) < TraceMax

\* The message belongs on the ladder: of the UE that is followed, and there
\* is room.
Follows(r, u) == r.ue = u /\ ~r.complete /\ Len(r.events) < TraceMax

\* What recording message e of UE u makes of recorder r0.
Record(r0, u, e) ==
  LET r == ResetIfAsked(r0)
      locked == IF Starts(r, e) THEN [r EXCEPT !.ue = u] ELSE r
      longer == [locked EXCEPT !.events = Append(@, e), !.complete = Completes(e)]
  IN IF ~Follows(locked, u) THEN locked
     ELSE IF Refused(e) THEN Unlocked
     ELSE Publish(longer)

-----------------------------------------------------------------------------
(* The UEs' legs *)

Legs(u) == {c \in Cells : leg[u][c] # "none"}

NextAttach(s) ==
  LET i == CHOOSE j \in 1..Len(AttachFlow) : AttachFlow[j] = s
  IN IF i = Len(AttachFlow) THEN "steady" ELSE AttachFlow[i + 1]

\* The UE sends step s on cell c: the start of an attach, to begin with or to
\* hand over; its next steps; a report or data while it has one leg; the
\* release of a leg, of the source when there are two.
MaySend(u, c, s) ==
  \/ /\ s = AttachFlow[1]
     /\ leg[u][c] = "none"
     /\ Cardinality(owed) <= MaxOwed
     /\ \/ Legs(u) = {}
        \/ \E d \in Cells : Legs(u) = {d} /\ leg[u][d] = "steady"
  \/ s \in ToSet(AttachFlow) /\ s # AttachFlow[1] /\ leg[u][c] = s
  \/ /\ s \in {"measurement", "data"}
     /\ leg[u][c] = "steady" /\ Legs(u) = {c}
  \/ /\ s = "release_request"
     /\ leg[u][c] = "steady"
     /\ \A d \in Legs(u) \ {c} : leg[u][d] = "steady"
  \/ s = "release_complete" /\ leg[u][c] = s

\* Where a leg goes when step s is answered.  A refused context setup or
\* report makes the UE close the socket; refused data goes unnoticed.
NextLeg(s, reject) ==
  CASE reject /\ s \in {"context_setup", "measurement"} -> "none"
    [] ~reject /\ s \in ToSet(AttachFlow) -> NextAttach(s)
    [] s = "release_request" -> "release_complete"
    [] s = "release_complete" -> "none"
    [] OTHER -> "steady"

\* What may be under way on a socket the UE lets go of: the uplink it sent last,
\* or the first of the release flow a connected task walks when it is cancelled,
\* in its release also; nothing, if it broke.
LastSent(s) ==
  CASE s \in ToSet(AttachFlow) -> {s, "abandoned"}
    [] s = "steady" -> {"measurement", "data", "release_request", "abandoned"}
    [] s = "release_complete" -> {"release_request", "release_complete", "abandoned"}

\* What serve_ue sends after step s of such a socket.
SentAfter(s) ==
  CASE s \in {"measurement", "data"} -> {"release_request", "abandoned"}
    [] s = "release_request" -> {"release_complete", "abandoned"}
    [] s \in ToSet(AttachFlow) -> {"abandoned"}

\* The sockets owed with one more.
Owing(u, c, s) ==
  LET fresh == CHOOSE i \in 1..Cardinality(owed)+1 : \A o \in owed : o.id # i
  IN owed \cup {[id |-> fresh, ue |-> u, cell |-> c, next |-> s]}

-----------------------------------------------------------------------------
(* serve_f1, one message at a time: nothing else of the event loop runs     *)
(* between the two records, only the HTTP thread does.                      *)

Event(m, dir, reject) == [dir |-> dir, step |-> m.step, cell |-> m.cell, reject |-> reject]

Receive(m) ==
  /\ msg = Idle
  /\ m.link \in open /\ m.cell \in Carried[m.link]
  /\ msg' = m
  /\ rec' = Record(rec, m.ue, Event(m, "up", FALSE))
  /\ UNCHANGED vars

Uplink(k, u, c, s) ==
  /\ MaySend(u, c, s)
  /\ Receive([link |-> k, ue |-> u, cell |-> c, step |-> s, own |-> TRUE])
  /\ vanished' = vanished \ {u}
  /\ UNCHANGED <<leg, owed>>

\* serve_ue hands on what the UE had sent on a socket it has let go of.
LateUplink(k, o) ==
  /\ o.next # "abandoned"
  /\ Receive([link |-> k, ue |-> o.ue, cell |-> o.cell, step |-> o.next, own |-> FALSE])
  /\ IF o.next = "release_complete" THEN owed' = owed \ {o}
     ELSE \E s \in SentAfter(o.next) : owed' = (owed \ {o}) \cup {[o EXCEPT !.next = s]}
  /\ vanished' = IF o.next = AttachFlow[1] /\ Legs(o.ue) = {}
                 THEN vanished \cup {o.ue} ELSE vanished
  /\ UNCHANGED leg

\* serve_ue's own release for a UE whose socket has ended.
AbandonedRelease(k, o) ==
  /\ o.next = "abandoned"
  /\ Receive([link |-> k, ue |-> o.ue, cell |-> o.cell, step |-> "release_request",
              own |-> FALSE])
  /\ owed' = owed \ {o}
  /\ UNCHANGED <<leg, vanished>>

\* The effect of dispatch, and whether its reply is a reject.
Dispatch(m, reject) ==
  CASE m.step = "context_setup" ->
         Setup(m.link, m.ue, m.cell) /\ reject = (prbs'[m.cell][m.ue] = 0)
    [] m.step = "measurement" ->
         Measurement(m.link, m.ue, m.cell) /\ reject = (prbs'[m.cell][m.ue] = 0)
    [] m.step = "release_request" -> Release(m.link, m.ue, m.cell) /\ ~reject
    [] m.step = "data" ->
         Other(m.link, m.cell) /\ reject = ~HasSession(m.ue, m.cell)
    [] OTHER -> Other(m.link, m.cell) /\ ~reject

\* Dispatch and the record of the reply.  A reply finds the UE's own leg, if
\* that has not ended in the meantime.
Answer(reject) ==
  /\ msg # Idle
  /\ Dispatch(msg, reject)
  /\ rec' = Record(rec, msg.ue, Event(msg, "down", reject))
  /\ msg' = Idle
  /\ LET next == NextLeg(msg.step, reject)
         there == msg.own /\ (leg[msg.ue][msg.cell] # "none" \/ msg.step = AttachFlow[1])
     IN /\ leg' = IF there THEN [leg EXCEPT ![msg.ue][msg.cell] = next] ELSE leg
        /\ owed' = IF there /\ next = "none" /\ msg.step # "release_complete"
                   THEN Owing(msg.ue, msg.cell, "abandoned") ELSE owed
  /\ UNCHANGED vanished

\* The UE lets go of a socket before its flow is over: the task was cancelled, the
\* connection broke, or its request was in flight on a link that was lost.
Vanish(u, c) ==
  /\ msg = Idle
  /\ leg[u][c] # "none"
  /\ Cardinality(owed) < MaxOwed
  /\ leg' = [leg EXCEPT ![u][c] = "none"]
  /\ \E s \in LastSent(leg[u][c]) : owed' = Owing(u, c, s)
  /\ vanished' = IF Legs(u) = {c} THEN vanished \cup {u} ELSE vanished
  /\ UNCHANGED <<used, prbs, open, connCells, rec, msg>>

\* A task is cancelled with the first uplink of its attach under way.
VanishAtOnce(u, c) ==
  /\ msg = Idle
  /\ MaySend(u, c, AttachFlow[1])
  /\ Cardinality(owed) < MaxOwed
  /\ owed' = Owing(u, c, AttachFlow[1])
  /\ UNCHANGED <<used, prbs, open, connCells, rec, msg, leg, vanished>>

\* GET /trace/reset, in the HTTP thread.
RequestTraceReset ==
  /\ ~rec.reset
  /\ rec' = [rec EXCEPT !.reset = TRUE]
  /\ UNCHANGED <<used, prbs, open, connCells, msg, leg, owed, vanished>>

FInit ==
  /\ Init
  /\ rec = Unlocked
  /\ msg = Idle
  /\ leg = [u \in UEs |-> [c \in Cells |-> "none"]]
  /\ owed = {}
  /\ vanished = {}

FAccept(k) ==
  /\ msg = Idle
  /\ Accept(k)
  /\ UNCHANGED <<rec, msg, leg, owed, vanished>>

\* The recorder is memory of the process as well.  The requests under way fail
\* with the links: after one of the UE serve_ue asks for its release, and a
\* release of its own is lost.
FRestart ==
  /\ Restart
  /\ rec' = Unlocked
  /\ msg' = Idle
  /\ \E failed \in SUBSET owed :
       owed' = {IF o \in failed THEN [o EXCEPT !.next = "abandoned"] ELSE o :
                  o \in {n \in owed : n.next # "abandoned" \/ n \notin failed}}
  /\ UNCHANGED <<leg, vanished>>

Steps == ToSet(AttachFlow) \cup {"measurement", "data", "release_request", "release_complete"}

FNext ==
  \/ \E k \in Links, u \in UEs, c \in Cells, s \in Steps : Uplink(k, u, c, s)
  \/ \E k \in Links, o \in owed : LateUplink(k, o) \/ AbandonedRelease(k, o)
  \/ \E reject \in BOOLEAN : Answer(reject)
  \/ \E u \in UEs, c \in Cells : Vanish(u, c) \/ VanishAtOnce(u, c)
  \/ RequestTraceReset
  \/ \E k \in Links : FAccept(k)
  \/ FRestart

FSpec == FInit /\ [][FNext]_flowVars

-----------------------------------------------------------------------------
(* Properties *)

\* The ladder the dashboard reads is one clean call flow: it starts with an RRC
\* connection request, every uplink on it is followed by its own reply, it shows no refusal, and
\* the end of a release can only be its last rung ("Locks onto a UE at its RRC
\* connection request (clean start), follows it to release, then freezes",
\* du_server.py:229), whatever other UEs, the UE's second leg and resets
\* between a message and its reply put in between.
CleanLadder ==
  LET es == rec.json.events
  IN \A i \in 1..Len(es) :
       /\ i = 1 => es[i].step = "rrc_setup"
       /\ es[i].dir = (IF i % 2 = 1 THEN "up" ELSE "down")
       /\ i % 2 = 0 => es[i].step = es[i-1].step /\ es[i].cell = es[i-1].cell
       /\ ~es[i].reject
       /\ es[i].dir = "down" /\ es[i].step = "release_complete"
            <=> rec.json.complete /\ i = Len(es)

\* The recorder holds on to a UE only while that UE has a socket whose flow
\* can bring the ladder to its end.  The exceptions are the two the code has:
\* a ladder at TRACE_MAX, and a UE that was cut off, whose sockets need not
\* complete a release.  Every regular end of a call flow, a
\* refusal on either leg included, completes the ladder or frees the recorder.
LockHeldForReason ==
  rec.ue # NoUe /\ ~rec.complete =>
    \/ Legs(rec.ue) # {}
    \/ msg # Idle /\ msg.ue = rec.ue
    \/ Len(rec.events) >= TraceMax
    \/ rec.ue \in vanished

\* Once complete, what the dashboard reads stays as it is until a reset is
\* asked for ("then freezes until reset", du_server.py:230) or the process
\* restarts; and the next message after the request takes it away, whether
\* the request came between messages or between a message and its reply.
FrozenUntilReset ==
  [][rec.json.complete =>
       /\ rec'.json # rec.json => rec.reset \/ FRestart
       /\ rec.reset /\ msg' # msg => ~rec'.json.complete]_flowVars
=============================================================================
