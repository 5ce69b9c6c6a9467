--------------------------------- MODULE F1Link ---------------------------------
(***************************************************************************)
(* The radio unit's side of its F1 link: class F1Link of                   *)
(* poc_StressTest/ru/ru_server.py, one multiplexed connection shared by    *)
(* every serve_ue, with a reader task, a reconnect task and a write lock.  *)
(* Module Stack takes the link as a whole; here it is taken apart.         *)
(*                                                                         *)
(* One step is what a task does between two awaits.  asyncio runs a task   *)
(* that has been woken before it looks at the sockets again, so no new     *)
(* connection is established while one is woken (Quiet); waiters for the   *)
(* lock are woken one per turn of the loop and are not bound by that.      *)
(***************************************************************************)
EXTENDS Integers, Sequences, FiniteSets

CONSTANTS
  Reqs,         \* serve_ue coroutines, each with one request at a time
  Conns,        \* identities of connections, used again when forgotten
  None,
  MaxLosses     \* bound on the connections the network or the DU breaks

ASSUME NoneAssumption == None \notin Conns
ASSUME LossesAssumption == MaxLosses \in Nat

VARIABLES
  conn,         \* what became of each connection
  link,         \* self.reader and self.writer: always set and cleared together
  readerOn,     \* the reader the reader task awaits, None when it is done
  reconnecting, \* whether the reconnect task is running
  pc,           \* the await each request is at
  fut,          \* its future in self.pending
  sentOn,       \* the connection it has been written to
  lockq,        \* the waiters of wlock, in order
  late,         \* whether a reply nobody waits for may still be read on readerOn
  losses

vars == <<conn, link, readerOn, reconnecting, pc, fut, sentOn, lockq, late, losses>>

-----------------------------------------------------------------------------
\* The holder of wlock is the request suspended in drain().
LockFree == \A r \in Reqs : pc[r] # "drain"

\* A connection nobody refers to any more, or not used yet.
Unused(c) ==
  /\ conn[c] \in {"none", "lost"}
  /\ c # link /\ c # readerOn
  /\ \A r \in Reqs : sentOn[r] # c

\* Woken tasks: their future is done, or what they read or drain has ended.
Woken(r) ==
  \/ pc[r] = "wait" /\ fut[r] # "pending"
  \/ pc[r] = "drain" /\ conn[sentOn[r]] = "lost"
  \/ pc[r] = "connected"

Quiet ==
  /\ \A r \in Reqs : ~Woken(r)
  /\ readerOn # None => conn[readerOn] # "lost"

-----------------------------------------------------------------------------
Init ==
  /\ \E c \in Conns : /\ conn = [d \in Conns |-> IF d = c THEN "up" ELSE "none"]
                      /\ link = c
                      /\ readerOn = c
  /\ reconnecting = FALSE
  /\ pc = [r \in Reqs |-> "idle"]
  /\ fut = [r \in Reqs |-> "none"]
  /\ sentOn = [r \in Reqs |-> None]
  /\ lockq = <<>>
  /\ late = FALSE
  /\ losses = 0

\* async_send_msg on self.writer as it is now.  With no writer the request dies
\* of an AttributeError, which request does not catch; drain() returns at once
\* or suspends, as it does under back pressure and on a connection that ended.
Write(r) ==
  \/ /\ link = None
     /\ pc' = [pc EXCEPT ![r] = "idle"]
     /\ fut' = [fut EXCEPT ![r] = "none"]
     /\ UNCHANGED sentOn
  \/ /\ link # None
     /\ \/ conn[link] = "up" /\ pc' = [pc EXCEPT ![r] = "wait"]
        \/ pc' = [pc EXCEPT ![r] = "drain"]
     /\ sentOn' = [sentOn EXCEPT ![r] = link]
     /\ fut' = [fut EXCEPT ![r] = IF @ = "none" THEN "pending" ELSE @]

\* request past _ensure_connected: its future is in pending, then the lock.
Enter(r) ==
  \/ /\ LockFree /\ lockq = <<>>
     /\ Write(r)
     /\ UNCHANGED lockq
  \/ /\ ~(LockFree /\ lockq = <<>>)
     /\ pc' = [pc EXCEPT ![r] = "lock"]
     /\ fut' = [fut EXCEPT ![r] = "pending"]
     /\ lockq' = Append(lockq, r)
     /\ UNCHANGED sentOn

\* A request comes: it goes on, or waits for the reconnect task.  (That this
\* task is there to be waited for is the property DownMeansReconnecting.)
Begin(r) ==
  /\ pc[r] = "idle"
  /\ \/ link # None /\ Enter(r)
     \/ /\ link = None
        /\ pc' = [pc EXCEPT ![r] = "ensure"]
        /\ UNCHANGED <<fut, sentOn, lockq>>
  /\ UNCHANGED <<conn, link, readerOn, reconnecting, late, losses>>

\* It finds the reconnect task done, and does not look at the link again.
Ensured(r) ==
  /\ pc[r] = "connected"
  /\ Enter(r)
  /\ UNCHANGED <<conn, link, readerOn, reconnecting, late, losses>>

\* The lock is free again and goes to its first waiter, whatever became of the
\* link, or of the waiter's future, in the meantime.
LockGranted(r) ==
  /\ LockFree
  /\ lockq # <<>> /\ Head(lockq) = r
  /\ lockq' = Tail(lockq)
  /\ Write(r)
  /\ UNCHANGED <<conn, link, readerOn, reconnecting, late, losses>>

DrainDone(r) ==
  /\ pc[r] = "drain"
  /\ conn[sentOn[r]] # "lost"
  /\ pc' = [pc EXCEPT ![r] = "wait"]
  /\ UNCHANGED <<conn, link, readerOn, reconnecting, fut, sentOn, lockq, late, losses>>

Answered(r) ==
  /\ pc[r] = "wait" /\ fut[r] = "answered"
  /\ pc' = [pc EXCEPT ![r] = "idle"]
  /\ fut' = [fut EXCEPT ![r] = "none"]
  /\ sentOn' = [sentOn EXCEPT ![r] = None]
  /\ UNCHANGED <<conn, link, readerOn, reconnecting, lockq, late, losses>>

\* Mutant: the link is given up, what is pending on it is left waiting.
FailPendingSkipped(f) == f

\* _fail_pending
FailPending(f) == [r \in Reqs |-> IF f[r] = "pending" THEN "failed" ELSE f[r]]

\* Mutant: the dropped connection is never closed.
DropLeaving == /\ link' = None
               /\ reconnecting' = TRUE
               /\ UNCHANGED conn

\* self.reader = self.writer = None, which closes whatever connection they were
\* (a StreamWriter nobody refers to closes its transport), and the reconnect
\* task is started unless it runs.
Drop ==
  /\ link' = None
  /\ reconnecting' = TRUE
  /\ conn' = IF link = None \/ conn[link] # "up" THEN conn
             ELSE [conn EXCEPT ![link] = "closing"]

\* The except clause of request, run by every request that fails.  The DU may
\* have replied to it, or to another that fails now, and the reader task be about
\* to read that.
RequestFails(r) ==
  /\ \/ pc[r] = "wait" /\ fut[r] = "failed"
     \/ pc[r] = "drain" /\ conn[sentOn[r]] = "lost"
  /\ pc' = [pc EXCEPT ![r] = "idle"]
  /\ fut' = [FailPending(fut) EXCEPT ![r] = "none"]
  /\ sentOn' = [sentOn EXCEPT ![r] = None]
  /\ Drop
  /\ late' = (late \/ \E q \in Reqs : /\ sentOn[q] = readerOn /\ readerOn # None
                                     /\ fut[q] # "answered")
  /\ UNCHANGED <<readerOn, lockq, losses>>

\* The reader task gets a reply, and awaits the next one from self.reader as
\* it is by then; from None it dies.
ReaderDelivers(r) ==
  /\ readerOn # None
  /\ sentOn[r] = readerOn
  /\ fut[r] = "pending"
  /\ fut' = [fut EXCEPT ![r] = "answered"]
  /\ readerOn' = link
  /\ UNCHANGED <<conn, link, reconnecting, pc, sentOn, lockq, late, losses>>

\* The reply is to a request that has failed: there is no future for it any more.
\* The reader task goes on with self.reader as for any other reply, be it the
\* next link's or None.
ReaderDropsReply ==
  /\ late
  /\ late' = FALSE
  /\ readerOn' = link
  /\ UNCHANGED <<conn, link, reconnecting, pc, fut, sentOn, lockq, losses>>

\* The reader task sees the end of what it reads, and gives up what is the
\* link by then.
ReaderEnds ==
  /\ readerOn # None
  /\ conn[readerOn] = "lost"
  /\ fut' = FailPending(fut)
  /\ readerOn' = None
  /\ late' = FALSE
  /\ Drop
  /\ UNCHANGED <<pc, sentOn, lockq, losses>>

\* Mutant: a reader task that has died is not started again.
ConnectedUnread(c) ==
  /\ reconnecting
  /\ Quiet
  /\ Unused(c)
  /\ conn' = [conn EXCEPT ![c] = "up"]
  /\ link' = c
  /\ reconnecting' = FALSE
  /\ pc' = [r \in Reqs |-> IF pc[r] = "ensure" THEN "connected" ELSE pc[r]]
  /\ UNCHANGED <<readerOn, fut, sentOn, lockq, late, losses>>

\* The reconnect task succeeds; it starts a reader task only if there is none.
Connected(c) ==
  /\ reconnecting
  /\ Quiet
  /\ Unused(c)
  /\ conn' = [conn EXCEPT ![c] = "up"]
  /\ link' = c
  /\ readerOn' = IF readerOn = None THEN c ELSE readerOn
  /\ reconnecting' = FALSE
  /\ pc' = [r \in Reqs |-> IF pc[r] = "ensure" THEN "connected" ELSE pc[r]]
  /\ UNCHANGED <<fut, sentOn, lockq, late, losses>>

\* The network or the DU ends a connection.
Lose(c) ==
  /\ conn[c] = "up"
  /\ losses < MaxLosses
  /\ losses' = losses + 1
  /\ conn' = [conn EXCEPT ![c] = "lost"]
  /\ UNCHANGED <<link, readerOn, reconnecting, pc, fut, sentOn, lockq, late>>

\* A connection that was closed is gone once its buffer is flushed.
Flushed(c) ==
  /\ conn[c] = "closing"
  /\ conn' = [conn EXCEPT ![c] = "lost"]
  /\ UNCHANGED <<link, readerOn, reconnecting, pc, fut, sentOn, lockq, late, losses>>

RequestStep(r) ==
  \/ Ensured(r) \/ LockGranted(r) \/ DrainDone(r)
  \/ Answered(r) \/ RequestFails(r) \/ ReaderDelivers(r)

Next ==
  \/ \E r \in Reqs : Begin(r) \/ RequestStep(r)
  \/ ReaderDropsReply \/ ReaderEnds
  \/ \E c \in Conns : Connected(c) \/ Lose(c) \/ Flushed(c)

\* Tasks that can run do, the DU answers or the connection breaks, and the DU
\* can be reached again.
Fairness ==
  /\ \A r \in Reqs : WF_vars(RequestStep(r))
  /\ WF_vars(ReaderEnds)
  /\ \A c \in Conns : WF_vars(Flushed(c))
  /\ WF_vars(\E c \in Conns : Connected(c))

Spec == Init /\ [][Next]_vars
FairSpec == Spec /\ Fairness

-----------------------------------------------------------------------------
\* The link is down exactly while the reconnect task runs, so a request that
\* comes never finds itself without both (_ensure_connected's last branch).
DownMeansReconnecting == link = None <=> reconnecting

\* "Single multiplexed F1 connection to the DU" (ru_server.py:97): whatever
\* teardowns cross each other, no second connection stays up beside the link.
SingleConnection == \A c \in Conns : conn[c] = "up" => c = link

\* One link, or one reconnect task at work on it.
OneLink == DownMeansReconnecting /\ SingleConnection

\* A request that waits for a reply has its connection read for it, or the end
\* of what is read instead is certain and fails it.
ReplyIsRead ==
  \A r \in Reqs : fut[r] = "pending" /\ sentOn[r] # None =>
    /\ sentOn[r] = link
    /\ readerOn # None
    /\ readerOn = sentOn[r] \/ conn[readerOn] \in {"closing", "lost"}

\* Every request comes back, with a reply or an exception, however often the
\* link is lost under it.
EveryRequestEnds == \A r \in Reqs : pc[r] # "idle" ~> pc[r] = "idle"
=============================================================================
