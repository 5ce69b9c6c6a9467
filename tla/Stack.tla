--------------------------------- MODULE Stack ---------------------------------
(***************************************************************************)
(* The whole signalling path of the stress-test twin: UE tasks             *)
(* (poc_StressTest/ue/ue_sim.py), the Uu socket each session opens to a    *)
(* radio unit and the serve_ue coroutine behind it                         *)
(* (poc_StressTest/ru/ru_server.py), the one F1 link of each radio unit,   *)
(* over which it multiplexes all of them, and the DU (module DU).          *)
(*                                                                         *)
(* Every box is a single-threaded asyncio program, so a step here is what  *)
(* a coroutine does between two awaits.  What makes it hard is between     *)
(* them: a UE task may be cancelled at any await, a handover has two       *)
(* sockets at once, an F1 link may break with requests on it and be        *)
(* replaced before the DU has noticed, and a uid may be spawned again      *)
(* while its cancelled task is still releasing.                            *)
(***************************************************************************)
EXTENDS Integers, Sequences, FiniteSets

CONSTANTS
  UEs, Cells, Links, TotalPrbs, Required, NoCoverage,   \* as in module DU
  Sites,        \* radio units
  SiteOf,       \* SiteOf[c]: the radio unit of cell c
  SiteOfLink,   \* SiteOfLink[k]: the radio unit that may open link k
  FirstLink,    \* FirstLink[s]: the link it begins with
  Tasks,        \* UE tasks of the simulator
  Uid,          \* Uid[t]: the ue_id a task runs
  Uus,          \* Uu sockets, numbered as they are opened, each of them once:
                \* bounds the sessions and handovers looked at
  None,         \* no socket, no link
  AttachFlow,   \* the kinds of the uplinks of ATTACH_FLOW, in order
  MaxLosses     \* bound on losses of F1 links and restarts of the DU

ASSUME SitesAssumption ==
  SiteOf \in [Cells -> Sites] /\ SiteOfLink \in [Links -> Sites]
ASSUME FirstLinkAssumption ==
  /\ FirstLink \in [Sites -> Links]
  /\ \A s \in Sites : SiteOfLink[FirstLink[s]] = s
ASSUME UusAssumption == Uus \subseteq Nat /\ None \notin Uus \cup Links
ASSUME LossesAssumption == MaxLosses \in Nat
ASSUME UidAssumption == Uid \in [Tasks -> UEs]

\* ATTACH_FLOW decides admission in exactly one of its steps, and not in the
\* first: the RU has heard of the UE by then.
ASSUME FlowAssumption ==
  /\ AttachFlow \in Seq({"other", "setup"})
  /\ \E i \in 2..Len(AttachFlow) :
       \A j \in 1..Len(AttachFlow) : AttachFlow[j] = "setup" <=> j = i

VARIABLES
  used, prbs, open, connCells,  \* the DU
  proc,         \* where each task is in run_ue and one_session
  step,         \* its position in the attach or release flow
  src,          \* its (reader, writer): the socket of the serving cell
  tgt,          \* its (n_reader, n_writer): the socket of a handover target
  uu,           \* the two ends of each Uu socket
  f1,           \* F1.writer of each radio unit, None while it reconnects
  queue,        \* requests waiting in F1.request for a connection, in order
  wire,         \* uplinks under way on each link
  back,         \* replies under way on each link
  losses        \* F1 links lost and DU restarts so far

duVars == <<used, prbs, open, connCells>>
ueVars == <<proc, step, src, tgt>>
f1Vars == <<f1, queue, wire, back>>
vars == <<duVars, ueVars, uu, f1Vars, losses>>

DU == INSTANCE DU WITH
  Carried <- [k \in Links |-> {c \in Cells : SiteOf[c] = SiteOfLink[k]}]

-----------------------------------------------------------------------------
(* A Uu socket: the UE's end is open or not, serve_ue is at one of its       *)
(* awaits, and messages are under way.  serve_ue waits for the first uplink  *)
(* ("new", ue_id unknown), for another one ("recv"), for the DU ("f1"), is   *)
(* about to find its request failed ("failed"), waits in its finally clause  *)
(* for the release it sends itself ("synthetic"), or has returned            *)
(* ("closed").                                                               *)

NoUu == [ue |-> None, cell |-> None, client |-> FALSE, ru |-> "unopened",
         up |-> <<>>, down |-> <<>>]

\* Both ends gone: nothing of the socket is left.
GoneUu == [NoUu EXCEPT !.ru = "closed"]
Reaped(s) == IF ~s.client /\ s.ru = "closed" THEN GoneUu ELSE s

NewUu(u, c) == [ue |-> u, cell |-> c, client |-> TRUE, ru |-> "new",
                up |-> <<AttachFlow[1]>>, down |-> <<>>]

\* The UE sends an uplink; to a socket the RU has closed it is lost.
Sent(s, kind) == IF s.ru = "closed" THEN s ELSE [s EXCEPT !.up = Append(@, kind)]

\* The UE reads one downlink.
Taken(s) == [s EXCEPT !.down = Tail(@)]

\* The UE closes its end, and never reads it again.
ClientClosed(s) == Reaped([s EXCEPT !.client = FALSE, !.down = <<>>])

\* serve_ue reads one uplink, and waits for the DU.
Passed(s) == [s EXCEPT !.up = Tail(@), !.ru = "f1"]

\* serve_ue reads no more, and waits for the release it asked for itself.
Ending(s) == [s EXCEPT !.up = <<>>, !.ru = "synthetic"]

\* serve_ue moves on; a reply to a UE that is gone is lost.
AtAwait(s, await) == Reaped([s EXCEPT !.ru = await])
Replied(s, r) == IF s.client
                 THEN [s EXCEPT !.down = Append(@, [kind |-> r.kind, ok |-> r.ok])]
                 ELSE s

\* The UE may find the socket at its end once serve_ue has closed it.
Broken(a) == uu[a].ru = "closed"

-----------------------------------------------------------------------------
(* UE tasks: run_ue, one_session, _attach and _release *)

\* A radio unit listens for UEs once F1.connect has succeeded, so what is
\* interesting begins with a link each.
Init ==
  /\ f1 = FirstLink
  /\ used = [c \in Cells |-> 0]
  /\ prbs = [c \in Cells |-> [u \in UEs |-> 0]]
  /\ open = {FirstLink[s] : s \in Sites}
  /\ connCells = [k \in Links |-> {}]
  /\ proc = [t \in Tasks |-> "out"]
  /\ step = [t \in Tasks |-> 0]
  /\ src = [t \in Tasks |-> None]
  /\ tgt = [t \in Tasks |-> None]
  /\ uu = [a \in Uus |-> NoUu]
  /\ queue = [s \in Sites |-> <<>>]
  /\ wire = [k \in Links |-> <<>>]
  /\ back = [k \in Links |-> <<>>]
  /\ losses = 0

\* asyncio.open_connection gives the next socket.
IsNext(a) ==
  /\ uu[a] = NoUu
  /\ \A b \in Uus : uu[b] = NoUu => a <= b

\* A task starts a session on its strongest cell.  reconcile spawns at most
\* one live task per uid, but forgets a task the moment it cancels it.
Start(t, a, c) ==
  /\ proc[t] = "out"
  /\ \A o \in Tasks \ {t} : Uid[o] = Uid[t] => proc[o] \in {"out", "cancel"}
  /\ IsNext(a)
  /\ uu' = [uu EXCEPT ![a] = NewUu(Uid[t], c)]
  /\ src' = [src EXCEPT ![t] = a]
  /\ proc' = [proc EXCEPT ![t] = "attach"]
  /\ step' = [step EXCEPT ![t] = 1]
  /\ UNCHANGED <<tgt, duVars, f1Vars, losses>>

\* A connected UE finds a stronger cell and attaches there on a new socket.
Handover(t, a, c) ==
  /\ proc[t] = "connected"
  /\ c # uu[src[t]].cell
  /\ IsNext(a)
  /\ uu' = [uu EXCEPT ![a] = NewUu(Uid[t], c)]
  /\ tgt' = [tgt EXCEPT ![t] = a]
  /\ proc' = [proc EXCEPT ![t] = "handover"]
  /\ step' = [step EXCEPT ![t] = 1]
  /\ UNCHANGED <<src, duVars, f1Vars, losses>>

\* The task gives up the session and every socket in cs.
Leave(t, cs) ==
  /\ proc' = [proc EXCEPT ![t] = "out"]
  /\ step' = [step EXCEPT ![t] = 0]
  /\ src' = [src EXCEPT ![t] = None]
  /\ tgt' = [tgt EXCEPT ![t] = None]
  /\ uu' = [a \in Uus |-> IF a \in cs THEN ClientClosed(uu[a]) ELSE uu[a]]

\* Mutant: the target's socket is closed but not forgotten.
StayKeepingTarget(t) ==
  /\ proc' = [proc EXCEPT ![t] = "connected"]
  /\ step' = [step EXCEPT ![t] = 0]
  /\ uu' = [uu EXCEPT ![tgt[t]] = ClientClosed(@)]
  /\ UNCHANGED <<src, tgt>>

\* The handover did not happen: the UE goes on with the socket it has.
Stay(t) ==
  /\ proc' = [proc EXCEPT ![t] = "connected"]
  /\ step' = [step EXCEPT ![t] = 0]
  /\ tgt' = [tgt EXCEPT ![t] = None]
  /\ uu' = [uu EXCEPT ![tgt[t]] = ClientClosed(@)]
  /\ UNCHANGED src

\* The socket _attach works on.
Attaching(t) == IF proc[t] = "attach" THEN src[t] ELSE tgt[t]

InAttach(t) == proc[t] \in {"attach", "handover"}

\* Only the reply of the admission step is looked at.
Rejected(t, r) == AttachFlow[step[t]] = "setup" /\ ~r.ok

\* _attach goes on to its next step ...
AttachOn(t) ==
  LET a == Attaching(t)
  IN /\ InAttach(t)
     /\ uu[a].down # <<>>
     /\ ~Rejected(t, Head(uu[a].down))
     /\ step[t] < Len(AttachFlow)
     /\ step' = [step EXCEPT ![t] = @ + 1]
     /\ uu' = [uu EXCEPT ![a] = Sent(Taken(@), AttachFlow[step[t] + 1])]
     /\ UNCHANGED <<proc, src, tgt, duVars, f1Vars, losses>>

\* ... or is complete: connected, or the target has admitted us and _release
\* of the old cell begins (make before break) ...
AttachDone(t) ==
  LET a == Attaching(t)
  IN /\ InAttach(t)
     /\ uu[a].down # <<>>
     /\ ~Rejected(t, Head(uu[a].down))
     /\ step[t] = Len(AttachFlow)
     /\ IF proc[t] = "attach"
        THEN /\ proc' = [proc EXCEPT ![t] = "connected"]
             /\ step' = [step EXCEPT ![t] = 0]
             /\ uu' = [uu EXCEPT ![a] = Taken(@)]
        ELSE /\ proc' = [proc EXCEPT ![t] = "leave"]
             /\ step' = [step EXCEPT ![t] = 1]
             /\ uu' = [uu EXCEPT ![a] = Taken(@), ![src[t]] = Sent(@, "release")]
     /\ UNCHANGED <<src, tgt, duVars, f1Vars, losses>>

\* ... or is refused, or finds its socket dead.
AttachFailed(t) ==
  LET a == Attaching(t)
  IN /\ InAttach(t)
     /\ \/ Broken(a)
        \/ uu[a].down # <<>> /\ Rejected(t, Head(uu[a].down))
     /\ IF proc[t] = "attach" THEN Leave(t, {a}) ELSE Stay(t)
     /\ UNCHANGED <<duVars, f1Vars, losses>>

\* Mutant: data is sent without waiting for the acknowledgement.
ReportNoWait(t, kind) ==
  /\ proc[t] = "connected"
  /\ proc' = [proc EXCEPT ![t] = IF kind = "data" THEN "connected" ELSE kind]
  /\ uu[src[t]].up = <<>>
  /\ uu' = [uu EXCEPT ![src[t]] = Sent(@, kind)]
  /\ UNCHANGED <<step, src, tgt, duVars, f1Vars, losses>>

\* A measurement report, or data, on the serving socket.
Report(t, kind) ==
  /\ proc[t] = "connected"
  /\ proc' = [proc EXCEPT ![t] = kind]
  /\ uu' = [uu EXCEPT ![src[t]] = Sent(@, kind)]
  /\ UNCHANGED <<step, src, tgt, duVars, f1Vars, losses>>

\* Mutant: a refused report is taken for an answer like any other.
ReportAnsweredIgnored(t) ==
  /\ proc[t] \in {"measure", "data"}
  /\ uu[src[t]].down # <<>>
  /\ proc' = [proc EXCEPT ![t] = "connected"]
  /\ uu' = [uu EXCEPT ![src[t]] = Taken(@)]
  /\ UNCHANGED <<step, src, tgt, duVars, f1Vars, losses>>

\* A refused report ends the session, a refused data transfer is not noticed.
ReportAnswered(t) ==
  LET a == src[t]
  IN /\ proc[t] \in {"measure", "data"}
     /\ uu[a].down # <<>>
     /\ IF proc[t] = "measure" /\ ~Head(uu[a].down).ok
        THEN Leave(t, {a})
        ELSE /\ proc' = [proc EXCEPT ![t] = "connected"]
             /\ uu' = [uu EXCEPT ![a] = Taken(@)]
             /\ UNCHANGED <<step, src, tgt>>
     /\ UNCHANGED <<duVars, f1Vars, losses>>

ReportBroken(t) ==
  /\ proc[t] \in {"measure", "data"}
  /\ Broken(src[t])
  /\ Leave(t, {src[t]})
  /\ UNCHANGED <<duVars, f1Vars, losses>>

\* The session's time is up: _release.
End(t) ==
  /\ proc[t] = "connected"
  /\ proc' = [proc EXCEPT ![t] = "release"]
  /\ step' = [step EXCEPT ![t] = 1]
  /\ uu' = [uu EXCEPT ![src[t]] = Sent(@, "release")]
  /\ UNCHANGED <<src, tgt, duVars, f1Vars, losses>>

\* task.cancel() from reconcile, at whatever await the task is.  Before it is
\* connected it just lets go of its sockets; later it drops the target's and
\* walks the release flow on the serving one, whatever reply is still due.
Cancel(t) ==
  /\ proc[t] \notin {"out", "cancel"}
  /\ IF proc[t] = "attach" THEN Leave(t, {src[t]})
     ELSE /\ proc' = [proc EXCEPT ![t] = "cancel"]
          /\ step' = [step EXCEPT ![t] = 1]
          /\ tgt' = [tgt EXCEPT ![t] = None]
          /\ uu' = [a \in Uus |-> IF a = src[t] THEN Sent(uu[a], "release")
                                  ELSE IF a = tgt[t] THEN ClientClosed(uu[a])
                                  ELSE uu[a]]
          /\ UNCHANGED src
  /\ UNCHANGED <<duVars, f1Vars, losses>>

Releasing(t) == proc[t] \in {"leave", "release", "cancel"}

\* _release reads any one downlink per uplink.
ReleaseOn(t) ==
  /\ Releasing(t)
  /\ step[t] = 1
  /\ uu[src[t]].down # <<>>
  /\ step' = [step EXCEPT ![t] = 2]
  /\ uu' = [uu EXCEPT ![src[t]] = Sent(Taken(@), "complete")]
  /\ UNCHANGED <<proc, src, tgt, duVars, f1Vars, losses>>

\* _release is over, by its last reply or by an error it swallows.
ReleaseDone(t) ==
  /\ Releasing(t)
  /\ Broken(src[t]) \/ (step[t] = 2 /\ uu[src[t]].down # <<>>)
  /\ IF proc[t] = "leave"
     THEN /\ proc' = [proc EXCEPT ![t] = "connected"]
          /\ step' = [step EXCEPT ![t] = 0]
          /\ src' = [src EXCEPT ![t] = tgt[t]]
          /\ tgt' = [tgt EXCEPT ![t] = None]
          /\ uu' = [uu EXCEPT ![src[t]] = ClientClosed(@)]
     ELSE Leave(t, {src[t]})
  /\ UNCHANGED <<duVars, f1Vars, losses>>

-----------------------------------------------------------------------------
(* Radio units: serve_ue and the F1 link *)

Message(a, kind) == [uu |-> a, ue |-> uu[a].ue, cell |-> uu[a].cell, kind |-> kind]

\* F1.request: straight to the link, or wait for one.
Request(a, kind) ==
  LET s == SiteOf[uu[a].cell]
  IN IF f1[s] # None
     THEN /\ wire' = [wire EXCEPT ![f1[s]] = Append(@, Message(a, kind))]
          /\ UNCHANGED queue
     ELSE /\ queue' = [queue EXCEPT ![s] = Append(@, Message(a, kind))]
          /\ UNCHANGED wire

\* serve_ue passes an uplink on.
Uplink(a) ==
  /\ uu[a].ru \in {"new", "recv"}
  /\ uu[a].up # <<>>
  /\ Request(a, Head(uu[a].up))
  /\ uu' = [uu EXCEPT ![a] = Passed(@)]
  /\ UNCHANGED <<duVars, ueVars, f1, back, losses>>

\* Mutant: a UE that vanishes is forgotten without a release.
FinallySilent(a) ==
  /\ uu' = [uu EXCEPT ![a] = [@ EXCEPT !.ru = "closed", !.up = <<>>]]
  /\ UNCHANGED <<queue, wire>>

\* serve_ue's finally clause: it asks for the release itself.
Finally(a) ==
  /\ Request(a, "release")
  /\ uu' = [uu EXCEPT ![a] = Ending(@)]

\* The UE is gone.  A reset may overtake what it had sent; an RU that does not
\* know the ue_id yet has nothing to release.
Hangup(a) ==
  /\ ~uu[a].client
  /\ \/ uu[a].ru = "recv" /\ Finally(a)
     \/ /\ uu[a].ru = "new"
        /\ uu' = [uu EXCEPT ![a] = GoneUu]
        /\ UNCHANGED <<queue, wire>>
  /\ UNCHANGED <<duVars, ueVars, f1, back, losses>>

\* The request of this serve_ue has failed with a ConnectionError.
RequestFailed(a) ==
  /\ uu[a].ru = "failed"
  /\ Finally(a)
  /\ UNCHANGED <<duVars, ueVars, f1, back, losses>>

\* A reply arrives: serve_ue relays it and goes on, or is done, or finds the
\* UE gone when it writes.
Reply(s) ==
  LET k == f1[s]
      r == Head(back[k])
      a == r.uu
  IN /\ k # None
     /\ back[k] # <<>>
     /\ back' = [back EXCEPT ![k] = Tail(@)]
     /\ \/ /\ uu[a].ru = "f1"
           /\ uu' = [uu EXCEPT ![a] = AtAwait(Replied(@, r),
                                  IF r.kind = "complete" THEN "closed" ELSE "recv")]
           /\ UNCHANGED <<queue, wire>>
        \/ /\ uu[a].ru = "f1"
           /\ ~uu[a].client
           /\ Finally(a)
        \/ /\ uu[a].ru = "synthetic"
           /\ uu' = [uu EXCEPT ![a] = AtAwait(@, "closed")]
           /\ UNCHANGED <<queue, wire>>
     /\ UNCHANGED <<duVars, ueVars, f1, losses>>

\* What the DU may still read from a link the radio unit has given up: nobody
\* waits for the replies.
Orphaned(ms) == [i \in 1..Len(ms) |-> [ms[i] EXCEPT !.uu = None]]

\* Mutant: the link is given up without failing what is pending on it.
PendingForgotten(s) == {a \in {} : SiteOf[uu[a].cell] = s}

\* The sockets of the site with a request under way.
Pending(s) == {a \in Uus : uu[a].ru \in {"f1", "synthetic"} /\ SiteOf[uu[a].cell] = s}

\* The radio unit sees the end of its link: the DU has ended it, or it breaks.
\* What is pending fails, and so does what the connection has woken and has not
\* written yet: it finds no writer (an AttributeError, with the effect of a
\* ConnectionError).  A serve_ue in its finally clause is done either way.
LinkLost(s) ==
  LET k == f1[s]
  IN /\ k # None
     /\ \/ k \notin open /\ UNCHANGED losses
        \/ k \in open /\ losses < MaxLosses /\ losses' = losses + 1
     /\ f1' = [f1 EXCEPT ![s] = None]
     /\ back' = [back EXCEPT ![k] = <<>>]
     /\ wire' = [wire EXCEPT ![k] = IF k \in open THEN Orphaned(@) ELSE <<>>]
     /\ queue' = [queue EXCEPT ![s] = <<>>]
     /\ uu' = [a \in Uus |->
                 IF a \notin Pending(s) THEN uu[a]
                 ELSE AtAwait(uu[a], IF uu[a].ru = "f1" THEN "failed" ELSE "closed")]
     /\ UNCHANGED <<duVars, ueVars>>

\* It connects again, and the DU accepts: not before every request that failed
\* with the old link has been told, as asyncio wakes those first.
Connect(s, k) ==
  /\ f1[s] = None
  /\ SiteOfLink[k] = s
  /\ \A a \in Uus : uu[a].ru = "failed" => SiteOf[uu[a].cell] # s
  /\ DU!Accept(k)
  /\ f1' = [f1 EXCEPT ![s] = k]
  /\ UNCHANGED <<ueVars, uu, queue, wire, back, losses>>

\* The next request that waited for the connection goes out.
Resume(s) ==
  /\ f1[s] # None
  /\ queue[s] # <<>>
  /\ queue' = [queue EXCEPT ![s] = Tail(@)]
  /\ wire' = [wire EXCEPT ![f1[s]] = Append(@, Head(queue[s]))]
  /\ UNCHANGED <<duVars, ueVars, uu, f1, back, losses>>

-----------------------------------------------------------------------------
(* The DU, driven by what arrives *)

\* Whether the reply of the DU is anything but an RRC reject.
Accepted(m) ==
  CASE m.kind \in {"setup", "measure"} -> prbs'[m.cell][m.ue] > 0
    [] m.kind = "data" -> DU!HasSession(m.ue, m.cell)
    [] OTHER -> TRUE

\* One turn of serve_f1's loop; a reply to a radio unit that has given the
\* link up is lost.
Handle(k) ==
  LET m == Head(wire[k])
  IN /\ wire[k] # <<>>
     /\ CASE m.kind = "setup"   -> DU!Setup(k, m.ue, m.cell)
          [] m.kind = "measure" -> DU!Measurement(k, m.ue, m.cell)
          [] m.kind = "release" -> DU!Release(k, m.ue, m.cell)
          [] OTHER              -> DU!Other(k, m.cell)
     /\ wire' = [wire EXCEPT ![k] = Tail(@)]
     /\ back' = IF f1[SiteOfLink[k]] # k THEN back
                ELSE [back EXCEPT ![k] =
                        Append(@, [uu |-> m.uu, kind |-> m.kind, ok |-> Accepted(m)])]
     /\ UNCHANGED <<ueVars, uu, f1, queue, losses>>

\* serve_f1 sees its link end, after the radio unit or before it.
LinkEnd(k) ==
  /\ \/ f1[SiteOfLink[k]] # k /\ UNCHANGED losses
     \/ f1[SiteOfLink[k]] = k /\ losses < MaxLosses /\ losses' = losses + 1
  /\ DU!LinkEnd(k)
  /\ wire' = [wire EXCEPT ![k] = <<>>]
  /\ UNCHANGED <<ueVars, uu, f1, queue, back>>

Restart ==
  /\ losses < MaxLosses
  /\ losses' = losses + 1
  /\ DU!Restart
  /\ wire' = [k \in Links |-> <<>>]
  /\ UNCHANGED <<ueVars, uu, f1, queue, back>>

-----------------------------------------------------------------------------
\* The bound on sockets is used up and everything has come to rest.
Spent == (\A a \in Uus : uu[a] = GoneUu) /\ UNCHANGED vars

TaskStep(t) ==
  \/ AttachOn(t) \/ AttachDone(t) \/ AttachFailed(t)
  \/ ReportAnswered(t) \/ ReportBroken(t)
  \/ ReleaseOn(t) \/ ReleaseDone(t)

SocketStep(a) == Uplink(a) \/ Hangup(a) \/ RequestFailed(a)

SiteStep(s) == Reply(s) \/ Resume(s) \/ \E k \in Links : Connect(s, k)

Next ==
  \/ \E t \in Tasks : TaskStep(t) \/ End(t) \/ Cancel(t)
  \/ \E t \in Tasks, kind \in {"measure", "data"} : Report(t, kind)
  \/ \E t \in Tasks, a \in Uus, c \in Cells : Start(t, a, c) \/ Handover(t, a, c)
  \/ \E a \in Uus : SocketStep(a)
  \/ \E s \in Sites : SiteStep(s) \/ LinkLost(s)
  \/ \E k \in Links : Handle(k) \/ LinkEnd(k)
  \/ Restart
  \/ Spent

Spec == Init /\ [][Next]_vars

\* Everything but Start, Handover, End, Cancel and the losses goes on by
\* itself: sockets deliver, coroutines that can run do, timers expire.  A
\* connected UE comes to its next measurement report, whatever else it does in
\* between, because the session loop compares the clock with REPORT_INTERVAL.
Fairness ==
  /\ \A t \in Tasks : WF_vars(TaskStep(t)) /\ SF_vars(Report(t, "measure"))
  /\ \A a \in Uus : WF_vars(SocketStep(a))
  /\ \A s \in Sites : /\ WF_vars(Reply(s)) /\ WF_vars(Resume(s))
                      /\ WF_vars(\E k \in Links : Connect(s, k))
                      /\ WF_vars(LinkLost(s) /\ UNCHANGED losses)
  /\ \A k \in Links : /\ WF_vars(Handle(k))
                      /\ WF_vars(LinkEnd(k) /\ UNCHANGED losses)

FairSpec == Spec /\ Fairness

-----------------------------------------------------------------------------
(* Properties *)

Kinds == {"other", "setup", "measure", "data", "release", "complete"}

SocketStates ==
  [ue : UEs \cup {None}, cell : Cells \cup {None}, client : BOOLEAN,
   ru : {"unopened", "new", "recv", "f1", "failed", "synthetic", "closed"},
   up : Seq(Kinds), down : Seq([kind : Kinds, ok : BOOLEAN])]
Messages == [uu : Uus \cup {None}, ue : UEs, cell : Cells, kind : Kinds]
Replies == [uu : Uus \cup {None}, kind : Kinds, ok : BOOLEAN]

\* Types, and which of its sockets a task has in which state.
TypeOK ==
  /\ proc \in [Tasks -> {"out", "attach", "connected", "handover", "measure",
                         "data", "leave", "release", "cancel"}]
  /\ step \in [Tasks -> 0..Len(AttachFlow)]
  /\ src \in [Tasks -> Uus \cup {None}]
  /\ tgt \in [Tasks -> Uus \cup {None}]
  /\ \A t \in Tasks : /\ src[t] = None <=> proc[t] = "out"
                      /\ tgt[t] # None <=> proc[t] \in {"handover", "leave"}
  /\ uu \in [Uus -> SocketStates]
  /\ f1 \in [Sites -> Links \cup {None}]
  /\ queue \in [Sites -> Seq(Messages)]
  /\ wire \in [Links -> Seq(Messages)]
  /\ back \in [Links -> Seq(Replies)]
  /\ losses \in 0..MaxLosses

\* The messages the DU may still get.
Underway ==
  (UNION {{wire[k][i] : i \in 1..Len(wire[k])} : k \in open})
    \cup (UNION {{queue[s][i] : i \in 1..Len(queue[s])} : s \in Sites})

\* What will give the session of u on c back, if nothing else does: the
\* serve_ue it came through, or that one's release request on its way, or the
\* cleanup of a link the radio unit has already given up.
ReleaseDue(u, c) ==
  \/ \E a \in Uus : /\ uu[a].ue = u /\ uu[a].cell = c
                    /\ uu[a].ru \in {"new", "recv", "f1", "failed"}
  \/ \E m \in Underway : m.ue = u /\ m.cell = c /\ m.kind = "release"
  \/ \E k \in open : c \in connCells[k] /\ f1[SiteOfLink[k]] # k

\* PRBs are never leaked under churn (ru_server.py:15-16): at any moment every
\* session of the DU has somebody left who is bound to release it.
NoLeak ==
  \A u \in UEs, c \in Cells : DU!HasSession(u, c) => ReleaseDue(u, c)

\* The kind of reply a task that has not been cancelled waits for, and where.
Expected(t) ==
  CASE InAttach(t) -> AttachFlow[step[t]]
    [] proc[t] \in {"measure", "data"} -> proc[t]
    [] proc[t] \in {"leave", "release"} -> <<"release", "complete">>[step[t]]
    [] OTHER -> "none"
Reading(t) == IF proc[t] = "handover" THEN tgt[t] ELSE src[t]

\* The next downlink a UE reads is the answer to the uplink it sent last, over
\* handovers, F1 losses and other UEs' requests; only after a cancellation may
\* one be left over, which _release then reads in place of its own.
RepliesInStep ==
  \A t \in Tasks : proc[t] \notin {"out", "cancel"} =>
    LET down == uu[Reading(t)].down
    IN Len(down) <= 1 /\ \A i \in 1..Len(down) : down[i].kind = Expected(t)

\* A session no UE is behind any more is given back in the end, whichever of
\* the radio unit, the link and the DU failed in between: time and again the
\* DU holds no such session at all.
Abandoned(u, c) ==
  /\ DU!HasSession(u, c)
  /\ \A a \in Uus : uu[a].client => uu[a].ue # u \/ uu[a].cell # c
AbandonedIsReclaimed ==
  []<>(\A u \in UEs, c \in Cells : ~Abandoned(u, c))

\* Whatever a task waits for comes, or its socket breaks: attaching, handing
\* over, reporting and releasing end, also after the link they used is lost.
Busy(t) == proc[t] \notin {"out", "connected"}
NothingHangs == \A t \in Tasks : Busy(t) ~> ~Busy(t)

\* A UE in session that the DU does not know, or not any more: its handover was
\* refused, or its session reclaimed behind its back.
Unserved(t) ==
  /\ proc[t] \in {"connected", "measure", "data"}
  /\ \A c \in Cells : ~DU!HasSession(Uid[t], c)
=============================================================================
