------------------------------ MODULE F1LinkProofs ------------------------------
(***************************************************************************)
(* Proofs about module F1Link, for any number of requests, connections and *)
(* losses: the link is either up or being re-established, there is one of  *)
(* it, and a request on it is never left without a reader.                 *)
(***************************************************************************)
EXTENDS F1Link, TLAPS

\* What the three properties need to know of the types.
LinkTypes ==
  /\ conn \in [Conns -> {"none", "up", "closing", "lost"}]
  /\ link \in Conns \cup {None}
  /\ readerOn \in Conns \cup {None}
  /\ reconnecting \in BOOLEAN
  /\ pc \in [Reqs -> {"idle", "ensure", "connected", "lock", "drain", "wait"}]
  /\ fut \in [Reqs -> {"none", "pending", "answered", "failed"}]
  /\ sentOn \in [Reqs -> Conns \cup {None}]

\* A link has a reader, or the reader task is about to give it up.
LinkIsRead ==
  link # None =>
    /\ readerOn # None
    /\ readerOn = link \/ conn[readerOn] \in {"closing", "lost"}

Opened == \A c \in {link, readerOn} \ {None} : conn[c] # "none"

\* A request that has not been written is on no connection, and what is
\* pending after it was written is on the link.
NotWritten ==
  \A r \in Reqs :
    /\ pc[r] \in {"idle", "ensure", "connected"} => fut[r] = "none"
    /\ pc[r] \in {"idle", "ensure", "connected", "lock"} => sentOn[r] = None
    /\ fut[r] = "pending" /\ sentOn[r] # None => sentOn[r] = link

\* The waiters of the lock, each once.
LockQueue ==
  /\ lockq \in Seq(Reqs)
  /\ \A i \in 1..Len(lockq) : pc[lockq[i]] = "lock"
  /\ \A i, j \in 1..Len(lockq) : lockq[i] = lockq[j] => i = j
  /\ \A r \in Reqs : pc[r] = "lock" => \E i \in 1..Len(lockq) : lockq[i] = r

IInv ==
  /\ LinkTypes
  /\ LockQueue
  /\ DownMeansReconnecting
  /\ SingleConnection
  /\ LinkIsRead
  /\ Opened
  /\ NotWritten

-----------------------------------------------------------------------------
LEMMA InitIInv == Init => IInv
<1> SUFFICES ASSUME Init PROVE IInv
  OBVIOUS
<1>1. PICK c \in Conns : /\ conn = [d \in Conns |-> IF d = c THEN "up" ELSE "none"]
                        /\ link = c
                        /\ readerOn = c
  BY DEF Init
<1>2. /\ reconnecting = FALSE
      /\ pc = [r \in Reqs |-> "idle"]
      /\ fut = [r \in Reqs |-> "none"]
      /\ sentOn = [r \in Reqs |-> None]
      /\ lockq = <<>>
  BY DEF Init
<1>3. LinkTypes
  BY <1>1, <1>2 DEF LinkTypes
<1>4. LockQueue
  BY <1>2 DEF LockQueue
<1>5. DownMeansReconnecting /\ SingleConnection /\ LinkIsRead /\ Opened
  BY <1>1, <1>2, NoneAssumption
     DEF DownMeansReconnecting, SingleConnection, LinkIsRead, Opened
<1>6. NotWritten
  BY <1>2 DEF NotWritten
<1>. QED  BY <1>3, <1>4, <1>5, <1>6 DEF IInv

\* The queue is left alone by steps of requests that are not in it.
LEMMA QueueKept ==
  ASSUME IInv, lockq' = lockq,
         pc' \in [Reqs -> {"idle", "ensure", "connected", "lock", "drain", "wait"}],
         \A r \in Reqs : pc'[r] = "lock" <=> pc[r] = "lock"
  PROVE  LockQueue'
<1>1. \A i \in 1..Len(lockq) : lockq[i] \in Reqs
  BY DEF IInv, LockQueue
<1>. QED  BY <1>1 DEF IInv, LockQueue

\* Writing, or failing to, is the business of the request alone.
LEMMA WritePreserves ==
  ASSUME IInv, NEW r \in Reqs, Write(r), sentOn[r] = None,
         UNCHANGED <<conn, link, readerOn, reconnecting>>, LockQueue'
  PROVE  IInv'
<1>1. CASE link = None
  <2>1. /\ pc' = [pc EXCEPT ![r] = "idle"]
        /\ fut' = [fut EXCEPT ![r] = "none"]
        /\ sentOn' = sentOn
    BY <1>1 DEF Write
  <2>2. LinkTypes'
    BY <2>1 DEF IInv, LinkTypes
  <2>3. NotWritten'
    BY <2>1 DEF IInv, LinkTypes, NotWritten
  <2>. QED
    BY <2>2, <2>3 DEF IInv, DownMeansReconnecting, SingleConnection, LinkIsRead, Opened
<1>2. CASE link # None
  <2>1. PICK at \in {"wait", "drain"} :
          /\ pc' = [pc EXCEPT ![r] = at]
          /\ sentOn' = [sentOn EXCEPT ![r] = link]
          /\ fut' = [fut EXCEPT ![r] = IF @ = "none" THEN "pending" ELSE @]
    BY <1>2 DEF Write
  <2>2. LinkTypes'
    BY <1>2, <2>1 DEF IInv, LinkTypes
  <2>3. NotWritten'
    BY <1>2, <2>1 DEF IInv, LinkTypes, NotWritten
  <2>. QED
    BY <2>2, <2>3 DEF IInv, DownMeansReconnecting, SingleConnection, LinkIsRead, Opened
<1>. QED  BY <1>1, <1>2

LEMMA EnterPreserves ==
  ASSUME IInv, NEW r \in Reqs, pc[r] \in {"idle", "connected"}, Enter(r),
         UNCHANGED <<conn, link, readerOn, reconnecting>>
  PROVE  IInv'
<1>1. sentOn[r] = None /\ fut[r] = "none"
  BY DEF IInv, NotWritten
<1>2. CASE LockFree /\ lockq = <<>>
  <2>1. Write(r) /\ lockq' = lockq
    BY <1>2 DEF Enter
  <2>2. LockQueue'
    BY <2>1, QueueKept DEF Write, IInv, LinkTypes
  <2>. QED  BY <1>1, <2>1, <2>2, WritePreserves
<1>3. CASE ~(LockFree /\ lockq = <<>>)
  <2>1. /\ pc' = [pc EXCEPT ![r] = "lock"]
        /\ fut' = [fut EXCEPT ![r] = "pending"]
        /\ lockq' = Append(lockq, r)
        /\ sentOn' = sentOn
    BY <1>3 DEF Enter
  <2>2. LinkTypes'
    BY <2>1 DEF IInv, LinkTypes
  <2>3. NotWritten'
    BY <1>1, <2>1 DEF IInv, LinkTypes, NotWritten
  <2>4. LockQueue'
    <3>1. /\ lockq' \in Seq(Reqs)
          /\ Len(lockq') = Len(lockq) + 1 /\ Len(lockq) \in Nat
          /\ \A i \in 1..Len(lockq) : lockq'[i] = lockq[i] /\ lockq[i] \in Reqs
          /\ lockq'[Len(lockq) + 1] = r
      BY <2>1 DEF IInv, LockQueue
    <3>2. \A i \in 1..Len(lockq) : lockq[i] # r
      BY DEF IInv, LockQueue
    <3>3. \A q \in Reqs : pc'[q] = IF q = r THEN "lock" ELSE pc[q]
      BY <2>1 DEF IInv, LinkTypes
    <3>4. \A i \in 1..Len(lockq') : i \in 1..Len(lockq) \/ i = Len(lockq) + 1
      BY <3>1
    <3>5. \A i \in 1..Len(lockq') : pc'[lockq'[i]] = "lock"
      BY <3>1, <3>2, <3>3, <3>4 DEF IInv, LockQueue
    <3>6. \A i, j \in 1..Len(lockq') : lockq'[i] = lockq'[j] => i = j
      BY <3>1, <3>2, <3>4 DEF IInv, LockQueue
    <3>7. ASSUME NEW q \in Reqs, pc'[q] = "lock"
          PROVE  \E i \in 1..Len(lockq') : lockq'[i] = q
      <4>1. CASE q = r
        BY <3>1, <4>1
      <4>2. CASE q # r
        <5>1. PICK i \in 1..Len(lockq) : lockq[i] = q
          BY <3>3, <3>7, <4>2 DEF IInv, LockQueue
        <5>2. i \in 1..Len(lockq') /\ lockq'[i] = q
          BY <3>1, <5>1
        <5>. QED  BY <5>2
      <4>. QED  BY <4>1, <4>2
    <3>. QED  BY <3>1, <3>5, <3>6, <3>7 DEF LockQueue
  <2>. QED
    BY <2>2, <2>3, <2>4
       DEF IInv, DownMeansReconnecting, SingleConnection, LinkIsRead, Opened
<1>. QED  BY <1>2, <1>3

LEMMA LockGrantedPreserves ==
  ASSUME IInv, NEW r \in Reqs, LockGranted(r)
  PROVE  IInv'
<1>1. /\ lockq \in Seq(Reqs) /\ lockq # <<>> /\ Head(lockq) = r
      /\ lockq' = Tail(lockq)
      /\ Write(r)
      /\ UNCHANGED <<conn, link, readerOn, reconnecting>>
  BY DEF LockGranted, IInv, LockQueue
<1>2. /\ Len(lockq) \in Nat /\ Len(lockq) > 0 /\ lockq[1] = r
      /\ Len(lockq') = Len(lockq) - 1
      /\ lockq' \in Seq(Reqs)
      /\ \A i \in 1..Len(lockq') : lockq'[i] = lockq[i + 1] /\ i + 1 \in 1..Len(lockq)
      /\ \A i \in 1..Len(lockq) : lockq[i] \in Reqs
  BY <1>1
<1>3. pc[r] = "lock" /\ sentOn[r] = None
  BY <1>2 DEF IInv, LockQueue, NotWritten
<1>4. \A q \in Reqs : pc'[q] = "lock" <=> pc[q] = "lock" /\ q # r
  BY <1>1, <1>3 DEF Write, IInv, LinkTypes
<1>5. LockQueue'
  <2>1. \A i \in 1..Len(lockq') : lockq'[i] # r
    BY <1>2 DEF IInv, LockQueue
  <2>2. \A i \in 1..Len(lockq') : pc'[lockq'[i]] = "lock"
    BY <1>2, <1>4, <2>1 DEF IInv, LockQueue
  <2>3. \A i, j \in 1..Len(lockq') : lockq'[i] = lockq'[j] => i = j
    <3> SUFFICES ASSUME NEW i \in 1..Len(lockq'), NEW j \in 1..Len(lockq'),
                        lockq'[i] = lockq'[j]
                 PROVE  i = j
      OBVIOUS
    <3>1. i + 1 = j + 1
      BY <1>2 DEF IInv, LockQueue
    <3>. QED  BY <1>2, <3>1
  <2>4. ASSUME NEW q \in Reqs, pc'[q] = "lock"
        PROVE  \E i \in 1..Len(lockq') : lockq'[i] = q
    <3>1. PICK i \in 1..Len(lockq) : lockq[i] = q
      BY <1>4, <2>4 DEF IInv, LockQueue
    <3>2. i # 1
      BY <1>2, <1>4, <2>4, <3>1
    <3>3. i - 1 \in 1..Len(lockq') /\ lockq'[i - 1] = q
      BY <1>2, <3>1, <3>2
    <3>. QED  BY <3>3
  <2>. QED  BY <1>2, <2>2, <2>3, <2>4 DEF LockQueue
<1>. QED  BY <1>1, <1>3, <1>5, WritePreserves

\* Giving the link up: no second connection, and nothing pending stays behind.
LEMMA DropPreserves ==
  ASSUME IInv, Drop, lockq' = lockq,
         readerOn' \in {readerOn, None},
         pc' \in [Reqs -> {"idle", "ensure", "connected", "lock", "drain", "wait"}],
         fut' \in [Reqs -> {"none", "pending", "answered", "failed"}],
         sentOn' \in [Reqs -> Conns \cup {None}],
         \A r \in Reqs :
           \/ /\ pc'[r] = pc[r] /\ sentOn'[r] = sentOn[r]
              /\ fut'[r] = IF fut[r] = "pending" THEN "failed" ELSE fut[r]
           \/ /\ pc[r] # "lock"
              /\ pc'[r] = "idle" /\ sentOn'[r] = None /\ fut'[r] = "none"
  PROVE  IInv'
<1>1. link' = None /\ reconnecting' = TRUE
  BY DEF Drop
<1>2. conn' \in [Conns -> {"none", "up", "closing", "lost"}]
  BY DEF Drop, IInv, LinkTypes
<1>3. \A c \in Conns : conn'[c] # "up" /\ (conn[c] # "none" => conn'[c] # "none")
  BY NoneAssumption DEF Drop, IInv, LinkTypes, SingleConnection
<1>4. LinkTypes'
  BY <1>1, <1>2 DEF IInv, LinkTypes
<1>5. SingleConnection' /\ DownMeansReconnecting' /\ LinkIsRead'
  BY <1>1, <1>3 DEF SingleConnection, DownMeansReconnecting, LinkIsRead
<1>6. Opened'
  BY <1>1, <1>3 DEF Opened, IInv, LinkTypes
<1>7. NotWritten'
  BY DEF NotWritten, IInv, LinkTypes
<1>8. LockQueue'
  BY QueueKept
<1>. QED  BY <1>4, <1>5, <1>6, <1>7, <1>8 DEF IInv

LEMMA NextIInv == IInv /\ [Next]_vars => IInv'
<1> SUFFICES ASSUME IInv, [Next]_vars PROVE IInv'
  OBVIOUS
<1> USE DEF IInv
<1>1. ASSUME NEW r \in Reqs, Begin(r) PROVE IInv'
  <2>1. CASE link # None
    BY <1>1, <2>1, EnterPreserves DEF Begin
  <2>2. CASE link = None
    <3>1. /\ pc[r] = "idle" /\ pc' = [pc EXCEPT ![r] = "ensure"]
          /\ UNCHANGED <<conn, link, readerOn, reconnecting, fut, sentOn, lockq>>
      BY <1>1, <2>2 DEF Begin
    <3>2. LinkTypes' /\ NotWritten'
      BY <3>1 DEF LinkTypes, NotWritten
    <3>3. LockQueue'
      BY <3>1, QueueKept DEF LinkTypes
    <3>. QED
      BY <3>1, <3>2, <3>3
         DEF DownMeansReconnecting, SingleConnection, LinkIsRead, Opened
  <2>. QED  BY <2>1, <2>2
<1>2. ASSUME NEW r \in Reqs, Ensured(r) PROVE IInv'
  BY <1>2, EnterPreserves DEF Ensured
<1>3. ASSUME NEW r \in Reqs, LockGranted(r) PROVE IInv'
  BY <1>3, LockGrantedPreserves
<1>4. ASSUME NEW r \in Reqs, DrainDone(r) \/ Answered(r) PROVE IInv'
  <2>1. /\ pc[r] \in {"drain", "wait"}
        /\ pc' \in [Reqs -> {"idle", "ensure", "connected", "lock", "drain", "wait"}]
        /\ \A q \in Reqs : pc'[q] = "lock" <=> pc[q] = "lock"
        /\ UNCHANGED <<conn, link, readerOn, reconnecting, lockq>>
    BY <1>4 DEF DrainDone, Answered, LinkTypes
  <2>2. LinkTypes' /\ NotWritten'
    BY <1>4 DEF DrainDone, Answered, LinkTypes, NotWritten
  <2>3. LockQueue'
    BY <2>1, QueueKept
  <2>. QED
    BY <2>1, <2>2, <2>3
       DEF DownMeansReconnecting, SingleConnection, LinkIsRead, Opened
<1>5. ASSUME NEW r \in Reqs, RequestFails(r) PROVE IInv'
  <2>1. pc[r] \in {"wait", "drain"}
    BY <1>5 DEF RequestFails
  <2>2. /\ pc' = [pc EXCEPT ![r] = "idle"]
        /\ fut' = [FailPending(fut) EXCEPT ![r] = "none"]
        /\ sentOn' = [sentOn EXCEPT ![r] = None]
        /\ Drop /\ readerOn' = readerOn /\ lockq' = lockq
    BY <1>5 DEF RequestFails
  <2>3. FailPending(fut) \in [Reqs -> {"none", "pending", "answered", "failed"}]
    BY DEF FailPending, LinkTypes
  <2>. QED
    BY <2>1, <2>2, <2>3, DropPreserves DEF FailPending, LinkTypes
<1>6. ASSUME NEW r \in Reqs, ReaderDelivers(r) PROVE IInv'
  <2>1. /\ readerOn # None /\ sentOn[r] = readerOn /\ fut[r] = "pending"
        /\ fut' = [fut EXCEPT ![r] = "answered"]
        /\ readerOn' = link
        /\ UNCHANGED <<conn, link, reconnecting, pc, sentOn, lockq>>
    BY <1>6 DEF ReaderDelivers
  <2>2. readerOn = link
    BY <2>1 DEF NotWritten
  <2>3. LinkTypes' /\ NotWritten'
    BY <2>1 DEF LinkTypes, NotWritten
  <2>4. LockQueue'
    BY <2>1, QueueKept DEF LinkTypes
  <2>. QED
    BY <2>1, <2>2, <2>3, <2>4
       DEF DownMeansReconnecting, SingleConnection, LinkIsRead, Opened
<1>6a. ASSUME ReaderDropsReply PROVE IInv'
  <2>1. readerOn' = link /\ UNCHANGED <<conn, link, reconnecting, pc, fut, sentOn, lockq>>
    BY <1>6a DEF ReaderDropsReply
  <2>2. LockQueue'
    BY <2>1, QueueKept DEF LinkTypes
  <2>. QED
    BY <2>1, <2>2
       DEF LinkTypes, NotWritten, DownMeansReconnecting, SingleConnection, LinkIsRead, Opened
<1>7. ASSUME ReaderEnds PROVE IInv'
  <2>1. /\ fut' = FailPending(fut) /\ readerOn' = None /\ Drop
        /\ UNCHANGED <<pc, sentOn, lockq>>
    BY <1>7 DEF ReaderEnds
  <2>. QED
    BY <2>1, DropPreserves DEF FailPending, LinkTypes
<1>8. ASSUME NEW c \in Conns, Connected(c) PROVE IInv'
  <2>1. /\ reconnecting /\ Unused(c)
        /\ conn' = [conn EXCEPT ![c] = "up"]
        /\ link' = c
        /\ readerOn' = IF readerOn = None THEN c ELSE readerOn
        /\ reconnecting' = FALSE
        /\ pc' = [r \in Reqs |-> IF pc[r] = "ensure" THEN "connected" ELSE pc[r]]
        /\ UNCHANGED <<fut, sentOn, lockq>>
    BY <1>8 DEF Connected
  <2>2. link = None /\ c # None /\ c # readerOn
    BY <2>1, NoneAssumption DEF DownMeansReconnecting, Unused
  <2>3. LinkTypes'
    BY <2>1 DEF LinkTypes
  <2>4. SingleConnection' /\ DownMeansReconnecting'
    BY <2>1, <2>2, NoneAssumption DEF SingleConnection, DownMeansReconnecting, LinkTypes
  <2>5. LinkIsRead' /\ Opened'
    BY <2>1, <2>2, NoneAssumption
       DEF LinkIsRead, Opened, SingleConnection, LinkTypes
  <2>6. NotWritten'
    <3>1. \A r \in Reqs : ~(fut[r] = "pending" /\ sentOn[r] # None)
      BY <2>2 DEF NotWritten
    <3>. QED  BY <2>1, <3>1 DEF NotWritten, LinkTypes
  <2>7. LockQueue'
    BY <2>1, QueueKept DEF LinkTypes
  <2>. QED  BY <2>3, <2>4, <2>5, <2>6, <2>7
<1>9. ASSUME NEW c \in Conns, Lose(c) \/ Flushed(c) PROVE IInv'
  <2>1. /\ conn[c] \in {"up", "closing"}
        /\ conn' = [conn EXCEPT ![c] = "lost"]
        /\ UNCHANGED <<link, readerOn, reconnecting, pc, fut, sentOn, lockq>>
    BY <1>9 DEF Lose, Flushed
  <2>. QED
    BY <2>1, QueueKept
       DEF LinkTypes, NotWritten, DownMeansReconnecting, SingleConnection, LinkIsRead,
           Opened, LockQueue
<1>10. CASE UNCHANGED vars
  BY <1>10
     DEF vars, LinkTypes, LockQueue, NotWritten, DownMeansReconnecting,
         SingleConnection, LinkIsRead, Opened
<1>. QED
  BY <1>1, <1>2, <1>3, <1>4, <1>5, <1>6, <1>6a, <1>7, <1>8, <1>9, <1>10
     DEF Next, RequestStep

\* The inductive invariant: the link, its reader, what is pending and the lock's queue
\* fit together in every state: IInv.
THEOREM Invariance == Spec => []IInv
<1>. QED  BY InitIInv, NextIInv, PTL DEF Spec

\* The link is down exactly while the reconnect task runs, and there is never a
\* second connection beside it.
THEOREM OneLinkHolds == Spec => []OneLink
<1>1. IInv => OneLink
  BY DEF IInv, OneLink
<1>. QED  BY <1>1, Invariance, PTL

\* A written request that waits for a reply is on the link, and the link has a
\* reader, or one that is about to fail the request.
THEOREM WaitingIsRead == Spec => []ReplyIsRead
<1>1. IInv => ReplyIsRead
  <2> SUFFICES ASSUME IInv, NEW r \in Reqs, fut[r] = "pending", sentOn[r] # None
               PROVE  /\ sentOn[r] = link
                      /\ readerOn # None
                      /\ readerOn = sentOn[r] \/ conn[readerOn] \in {"closing", "lost"}
    BY DEF ReplyIsRead
  <2>. QED  BY DEF IInv, NotWritten, LinkIsRead
<1>. QED  BY <1>1, Invariance, PTL
=============================================================================
