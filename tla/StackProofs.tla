------------------------------ MODULE StackProofs ------------------------------
(***************************************************************************)
(* No PRBs are leaked and replies stay in step with requests, for any      *)
(* number of UE tasks, sockets, radio units, cells and links, any attach   *)
(* flow with one admission, and any number of lost links and restarts; and *)
(* no radio unit keeps a row of a UE that has left it for good.            *)
(***************************************************************************)
EXTENDS Dictionary, Functions, TLAPS

-----------------------------------------------------------------------------
(* What is outstanding between serve_ue and the DU.  A link the radio unit   *)
(* has given up does not count: nobody waits for what is on it.              *)

Going(s) == IF f1[s] = None THEN <<>> ELSE wire[f1[s]]
Replying(s) == IF f1[s] = None THEN <<>> ELSE back[f1[s]]

\* The sockets whose messages are in a sequence, and that each has one there.
By(q) == {m.uu : m \in Range(q)}
Once(q) == \A i, j \in 1..Len(q) : q[i].uu = q[j].uu => i = j

\* The requests of a socket the DU has not handled, and the replies to it.
Waiting(s) == Range(Going(s)) \cup Range(queue[s])
Ahead(a) == {m \in UNION {Waiting(s) : s \in Sites} : m.uu = a}
Answers(a) == {r \in UNION {Range(Replying(s)) : s \in Sites} : r.uu = a}

-----------------------------------------------------------------------------
(* The inductive invariant *)

\* The DU: a session is on a cell that an open link has carried, and a link
\* carries cells of its radio unit only.
Grants == prbs = [c \in Cells |-> [u \in UEs |-> prbs[c][u]]]
Carrying ==
  /\ open \subseteq Links
  /\ connCells \in [Links -> SUBSET Cells]
  /\ \A k \in Links : \A c \in connCells[k] : SiteOf[c] = SiteOfLink[k]
  /\ \A c \in Cells, u \in UEs :
       DU!HasSession(u, c) => \E k \in open : c \in connCells[k]
DuOK == Grants /\ Carrying

\* The tasks share no socket, and have closed none of theirs.
Sockets(t) == {src[t], tgt[t]} \ {None}
TasksApart ==
  \A t \in Tasks : /\ src[t] # None => src[t] # tgt[t]
                   /\ \A o \in Tasks \ {t} : Sockets(t) \cap Sockets(o) = {}
                   /\ \A a \in Sockets(t) : uu[a].client

\* A socket in use has a UE and a cell.
SocketsFit ==
  \A a \in Uus :
    /\ uu[a].client \/ uu[a].ru \notin {"unopened", "closed"} =>
         uu[a].ue \in UEs /\ uu[a].cell \in Cells
    /\ uu[a].ru = "unopened" => uu[a] = NoUu

\* A radio unit uses links of its own, and one that nobody uses is empty.
Linked ==
  \A k \in Links :
    /\ \A s \in Sites : f1[s] = k => SiteOfLink[k] = s
    /\ back[k] # <<>> => f1[SiteOfLink[k]] = k
    /\ wire[k] # <<>> => k \in open \/ f1[SiteOfLink[k]] = k

\* What is outstanding is what a serve_ue of that radio unit waits for.
From(a, s) == a \in Uus /\ uu[a].ru \in {"f1", "synthetic"} /\ SiteOf[uu[a].cell] = s
MessagesFit ==
  \A s \in Sites :
    /\ \A m \in Waiting(s) : /\ From(m.uu, s)
                             /\ m.ue = uu[m.uu].ue /\ m.cell = uu[m.uu].cell
                             /\ uu[m.uu].ru = "synthetic" => m.kind = "release"
    /\ \A r \in Range(Replying(s)) : From(r.uu, s)

\* One request at a time: a serve_ue has one message outstanding at most.
OnceEach ==
  \A s \in Sites :
    /\ Once(Going(s)) /\ Once(Replying(s)) /\ Once(queue[s])
    /\ By(Going(s)) \cap By(Replying(s)) = {}
    /\ By(Going(s)) \cap By(queue[s]) = {}
    /\ By(Replying(s)) \cap By(queue[s]) = {}

\* The uplinks of a socket, unhandled ones first: none but release and complete
\* follow one of these, and complete follows on the others.
Ends == {"release", "complete"}
Live(a) == uu[a].ru \in {"new", "recv", "f1"}
InOrder(a) ==
  LET up == uu[a].up
  IN /\ \A i \in 1..Len(up), j \in 1..Len(up) : j = i + 1 =>
          /\ up[i] \in Ends => up[j] \in Ends
          /\ up[j] = "complete" => up[i] \in Ends
     /\ up # <<>> => \A m \in Ahead(a) : /\ m.kind \in Ends => up[1] \in Ends
                                         /\ up[1] = "complete" => m.kind \in Ends
StreamsInOrder == \A a \in Uus : Live(a) => InOrder(a)

\* A task that is releasing has sent nothing else since, one that is not has
\* sent nothing of it.
ReleasingOn(t, a) == src[t] = a /\ Releasing(t)
EndsFit(t, a) ==
  IF ReleasingOn(t, a)
  THEN IF uu[a].up # <<>> THEN uu[a].up[Len(uu[a].up)] \in Ends
       ELSE \A m \in Ahead(a) : m.kind \in Ends
  ELSE Range(uu[a].up) \cap Ends = {} /\ \A m \in Ahead(a) : m.kind \notin Ends
TasksInOrder ==
  \A t \in Tasks : \A a \in Sockets(t) : Live(a) => EndsFit(t, a)

\* A serve_ue that is bound to release what its UE holds: its release request
\* is not behind it, so it cannot end without one.
Finished(a) ==
  \/ \E r \in Answers(a) : r.kind = "complete"
  \/ \E m \in Ahead(a) : m.kind = "complete"
  \/ Ahead(a) = {} /\ uu[a].up # <<>> /\ uu[a].up[1] = "complete"
  \/ Ahead(a) = {} /\ uu[a].up = <<>> /\ \E t \in Tasks : ReleasingOn(t, a)
Bound(a) == uu[a].ru = "failed" \/ (uu[a].ru \in {"recv", "f1"} /\ ~Finished(a))

\* Who will give a session back: such a serve_ue, a release request the DU is
\* to get, or the cleanup of a link the radio unit has given up.
HasOwner(u, c) == \E a \in Uus : uu[a].ue = u /\ uu[a].cell = c /\ Bound(a)
ReleaseSent(u, c) ==
  \E s \in Sites : \E m \in Waiting(s) : m.ue = u /\ m.cell = c /\ m.kind = "release"
GivenUp(c) == \E k \in open : c \in connCells[k] /\ f1[SiteOfLink[k]] # k
ReleaseAssured ==
  \A u \in UEs, c \in Cells :
    DU!HasSession(u, c) => HasOwner(u, c) \/ ReleaseSent(u, c) \/ GivenUp(c)

IInv ==
  /\ TypeOK /\ DuOK /\ TasksApart /\ SocketsFit
  /\ Linked /\ MessagesFit /\ OnceEach
  /\ StreamsInOrder /\ TasksInOrder /\ ReleaseAssured

-----------------------------------------------------------------------------
(* Sequences *)

LEMMA Appended ==
  ASSUME NEW S, NEW q \in Seq(S), NEW m \in S
  PROVE  /\ Append(q, m) \in Seq(S)
         /\ Append(q, m) # <<>>
         /\ Range(Append(q, m)) = Range(q) \cup {m}
         /\ By(Append(q, m)) = By(q) \cup {m.uu}
         /\ Once(q) /\ m.uu \notin By(q) => Once(Append(q, m))
<1> DEFINE p == Append(q, m)
<1>1. /\ p \in Seq(S) /\ Len(p) = Len(q) + 1 /\ Len(q) \in Nat
      /\ DOMAIN p = 1..Len(q)+1 /\ DOMAIN q = 1..Len(q)
      /\ \A i \in 1..Len(q) : p[i] = q[i]
      /\ p[Len(q)+1] = m
  OBVIOUS
<1> HIDE DEF p
<1>2. Range(p) = Range(q) \cup {m}
  <2>1. Range(p) \subseteq Range(q) \cup {m}
    BY <1>1 DEF Range
  <2>2. ASSUME NEW x \in Range(q) PROVE x \in Range(p)
    <3>1. PICK i \in 1..Len(q) : x = q[i]
      BY <1>1 DEF Range
    <3>2. x = p[i] /\ i \in DOMAIN p
      BY <1>1, <3>1
    <3> QED  BY <3>2 DEF Range
  <2>3. m \in Range(p)
    <3>1. Len(q)+1 \in DOMAIN p
      BY <1>1
    <3> QED  BY <1>1, <3>1 DEF Range
  <2> QED  BY <2>1, <2>2, <2>3
<1>3. By(p) = By(q) \cup {m.uu}
  BY <1>2 DEF By
<1>4. ASSUME Once(q), m.uu \notin By(q) PROVE Once(p)
  <2>1. \A i \in 1..Len(q) : q[i].uu # m.uu
    BY <1>1, <1>4 DEF By, Range
  <2>2. \A i \in 1..Len(p) : i = Len(q)+1 \/ i \in 1..Len(q)
    BY <1>1
  <2> QED  BY <1>1, <1>4, <2>1, <2>2 DEF Once
<1>5. p # <<>>
  BY <1>1
<1> QED  BY <1>1, <1>2, <1>3, <1>4, <1>5 DEF p

LEMMA HeadTail ==
  ASSUME NEW S, NEW q \in Seq(S), q # <<>>
  PROVE  /\ Tail(q) \in Seq(S) /\ Head(q) \in S /\ Head(q) \in Range(q)
         /\ Head(q).uu \in By(q)
         /\ Range(q) = {Head(q)} \cup Range(Tail(q))
         /\ By(Tail(q)) \subseteq By(q)
         /\ Once(q) => /\ Once(Tail(q))
                       /\ By(Tail(q)) = By(q) \ {Head(q).uu}
                       /\ Range(Tail(q)) = {m \in Range(q) : m.uu # Head(q).uu}
<1> DEFINE p == Tail(q)
<1>1. /\ p \in Seq(S) /\ Len(q) \in Nat \ {0} /\ Len(p) = Len(q) - 1
      /\ DOMAIN p = 1..Len(q)-1 /\ DOMAIN q = 1..Len(q)
      /\ \A i \in 1..Len(q)-1 : p[i] = q[i+1]
      /\ Head(q) = q[1] /\ Head(q) \in S /\ 1 \in DOMAIN q
  OBVIOUS
<1> HIDE DEF p
<1>2. Range(q) = {Head(q)} \cup Range(p)
  <2>1. ASSUME NEW x \in Range(q) PROVE x \in {Head(q)} \cup Range(p)
    <3>1. PICK i \in 1..Len(q) : x = q[i]
      BY <1>1 DEF Range
    <3>2. i = 1 \/ (i-1 \in 1..Len(q)-1 /\ p[i-1] = q[i])
      BY <1>1
    <3> QED  BY <1>1, <3>1, <3>2 DEF Range
  <2>2. ASSUME NEW x \in Range(p) PROVE x \in Range(q)
    <3>1. PICK i \in 1..Len(q)-1 : x = p[i]
      BY <1>1 DEF Range
    <3>2. x = q[i+1] /\ i+1 \in DOMAIN q
      BY <1>1, <3>1
    <3> QED  BY <3>2 DEF Range
  <2>3. Head(q) \in Range(q)
    BY <1>1 DEF Range
  <2> QED  BY <2>1, <2>2, <2>3
<1>3. ASSUME Once(q)
      PROVE  Once(p) /\ \A m \in Range(p) : m.uu # Head(q).uu
  <2>1. \A i \in 1..Len(p) : i+1 \in 1..Len(q) /\ p[i] = q[i+1] /\ i \in Int
    BY <1>1
  <2>2. \A m \in Range(p) : m.uu # Head(q).uu
    <3> SUFFICES ASSUME NEW i \in 1..Len(p) PROVE p[i].uu # Head(q).uu
      BY <1>1 DEF Range
    <3>1. i+1 # 1
      BY <1>1
    <3> QED  BY <1>1, <1>3, <2>1, <3>1 DEF Once
  <2>3. Once(p)
    <3> SUFFICES ASSUME NEW i \in 1..Len(p), NEW j \in 1..Len(p), p[i].uu = p[j].uu
                 PROVE  i = j
      BY DEF Once
    <3>1. i+1 = j+1
      BY <1>3, <2>1 DEF Once
    <3> QED  BY <1>1, <3>1
  <2> QED  BY <2>2, <2>3
<1> QED  BY <1>1, <1>2, <1>3 DEF p, By

LEMMA NothingInEmpty == Range(<<>>) = {} /\ By(<<>>) = {} /\ Once(<<>>)
  BY DEF Range, By, Once

-----------------------------------------------------------------------------
(* Sockets *)

LEMMA FlowKinds ==
  /\ AttachFlow \in Seq({"other", "setup"}) /\ Len(AttachFlow) \in Nat
  /\ Len(AttachFlow) >= 2
  /\ \A i \in 1..Len(AttachFlow) : AttachFlow[i] \in Kinds \ Ends
<1>1. AttachFlow \in Seq({"other", "setup"}) /\ Len(AttachFlow) \in Nat
  BY FlowAssumption
<1>2. \A i \in 1..Len(AttachFlow) : AttachFlow[i] \in {"other", "setup"}
  BY <1>1
<1>3. Len(AttachFlow) >= 2
  <2>1. PICK i \in 2..Len(AttachFlow) : TRUE
    BY FlowAssumption
  <2> QED  BY <1>1, <2>1
<1> QED  BY <1>1, <1>2, <1>3 DEF Kinds, Ends

LEMMA SocketTypes ==
  NoUu \in SocketStates /\ GoneUu \in SocketStates
<1>1. <<>> \in Seq(Kinds) /\ <<>> \in Seq([kind : Kinds, ok : BOOLEAN])
  OBVIOUS
<1> QED  BY <1>1 DEF NoUu, GoneUu, SocketStates

\* What the operations of the UE's end do to a socket.
LEMMA SentSocket ==
  ASSUME NEW s \in SocketStates, NEW kind \in Kinds
  PROVE  /\ Sent(s, kind) \in SocketStates
         /\ Sent(s, kind).ru = s.ru /\ Sent(s, kind).ue = s.ue
         /\ Sent(s, kind).cell = s.cell /\ Sent(s, kind).client = s.client
         /\ s.ru = "closed" \/ Sent(s, kind).up = Append(s.up, kind)
<1>1. s.up \in Seq(Kinds)
  BY DEF SocketStates
<1>2. Append(s.up, kind) \in Seq(Kinds)
  BY <1>1
<1> QED  BY <1>2 DEF Sent, SocketStates

LEMMA TakenSocket ==
  ASSUME NEW s \in SocketStates, s.down # <<>>
  PROVE  /\ Taken(s) \in SocketStates
         /\ Taken(s).ru = s.ru /\ Taken(s).ue = s.ue /\ Taken(s).up = s.up
         /\ Taken(s).cell = s.cell /\ Taken(s).client = s.client
<1>1. Tail(s.down) \in Seq([kind : Kinds, ok : BOOLEAN])
  BY DEF SocketStates
<1> QED  BY <1>1 DEF Taken, SocketStates

LEMMA ClosedSocket ==
  ASSUME NEW s \in SocketStates
  PROVE  /\ ClientClosed(s) \in SocketStates
         /\ ClientClosed(s).ru = s.ru /\ ~ClientClosed(s).client
         /\ \/ s.ru = "closed"
            \/ /\ ClientClosed(s).ue = s.ue /\ ClientClosed(s).cell = s.cell
               /\ ClientClosed(s).up = s.up
<1> DEFINE r == [s EXCEPT !.client = FALSE, !.down = <<>>]
<1>1. r \in SocketStates /\ r.ru = s.ru /\ ~r.client /\ r.ue = s.ue /\ r.cell = s.cell
      /\ r.up = s.up
  <2>1. <<>> \in Seq([kind : Kinds, ok : BOOLEAN])
    OBVIOUS
  <2> QED  BY <2>1 DEF SocketStates
<1>2. ClientClosed(s) = IF s.ru = "closed" THEN GoneUu ELSE r
  BY <1>1 DEF ClientClosed, Reaped
<1>3. GoneUu.ru = "closed" /\ ~GoneUu.client
  BY DEF GoneUu, NoUu
<1> HIDE DEF r
<1> QED  BY <1>1, <1>2, <1>3, SocketTypes

-----------------------------------------------------------------------------
(* The shape of a step of a UE task: it keeps, extends or lets go of its     *)
(* sockets, and what it sends fits where it is in the release.               *)

Suits(t, a, kind) ==
  \/ kind \notin Ends /\ ~ReleasingOn(t, a) /\ ~ReleasingOn(t, a)'
  \/ kind = "release" /\ ReleasingOn(t, a)'
  \/ kind = "complete" /\ ReleasingOn(t, a) /\ ReleasingOn(t, a)'

KeepsOrSends(t, a) ==
  /\ uu'[a].ru = uu[a].ru /\ uu'[a].ue = uu[a].ue
  /\ uu'[a].cell = uu[a].cell /\ uu'[a].client = uu[a].client
  /\ \/ uu'[a].up = uu[a].up /\ (ReleasingOn(t, a)' <=> ReleasingOn(t, a))
     \/ uu[a].ru = "closed"
     \/ \E kind \in Kinds : uu'[a].up = Append(uu[a].up, kind) /\ Suits(t, a, kind)

TaskChange(t) ==
  /\ UNCHANGED <<duVars, f1Vars>>
  /\ \A o \in Tasks \ {t} : proc'[o] = proc[o] /\ src'[o] = src[o] /\ tgt'[o] = tgt[o]
  /\ Sockets(t)' \subseteq Sockets(t)
  /\ src'[t] # None => src'[t] # tgt'[t]
  /\ \A a \in Uus \ Sockets(t) : uu'[a] = uu[a]
  /\ \A a \in Sockets(t) : IF a \in Sockets(t)' THEN KeepsOrSends(t, a)
                           ELSE uu'[a] = ClientClosed(uu[a])

LEMMA OthersReleaseAsBefore ==
  ASSUME NEW t \in Tasks, TaskChange(t), NEW o \in Tasks \ {t}, NEW a
  PROVE  ReleasingOn(o, a)' <=> ReleasingOn(o, a)
  BY DEF TaskChange, ReleasingOn, Releasing

\* A socket as the radio unit sees it.
LEMMA TaskChangeSockets ==
  ASSUME IInv, TypeOK', NEW t \in Tasks, TaskChange(t), NEW a \in Uus
  PROVE  /\ uu'[a].ru = uu[a].ru
         /\ uu'[a].client => uu[a].client
         /\ uu'[a].ru # "closed" \/ uu'[a].client
              => uu'[a].ue = uu[a].ue /\ uu'[a].cell = uu[a].cell
         /\ a \notin Sockets(t)' /\ uu[a].ru # "closed" => uu'[a].up = uu[a].up
<1>1. uu[a] \in SocketStates
  BY DEF IInv, TypeOK
<1> QED  BY <1>1, ClosedSocket DEF TaskChange, KeepsOrSends

LEMMA TaskChangeMessages ==
  ASSUME NEW t \in Tasks, TaskChange(t)
  PROVE  /\ \A s : Going(s)' = Going(s) /\ Replying(s)' = Replying(s)
                   /\ Waiting(s)' = Waiting(s)
         /\ \A a : Ahead(a)' = Ahead(a) /\ Answers(a)' = Answers(a)
  BY DEF TaskChange, f1Vars, Going, Replying, Waiting, Ahead, Answers

\* The DU and the links are not touched, and who waits for them still does.
LEMMA TaskChangeKeepsLinks ==
  ASSUME IInv, TypeOK', NEW t \in Tasks, TaskChange(t)
  PROVE  DuOK' /\ Linked' /\ OnceEach' /\ MessagesFit' /\ SocketsFit' /\ TasksApart'
<1>1. UNCHANGED <<used, prbs, open, connCells, f1, queue, wire, back>>
  BY DEF TaskChange, duVars, f1Vars
<1>2. DuOK'
  BY <1>1 DEF IInv, DuOK, Grants, Carrying, DU!HasSession
<1>3. Linked'
  BY <1>1 DEF IInv, Linked
<1>4. OnceEach'
  BY <1>1, TaskChangeMessages DEF IInv, OnceEach, By
<1>5. MessagesFit'
  <2>1. ASSUME NEW s \in Sites, NEW a, From(a, s)
        PROVE  From(a, s)' /\ uu'[a].ru = uu[a].ru /\ uu'[a].ue = uu[a].ue
               /\ uu'[a].cell = uu[a].cell
    BY <2>1, TaskChangeSockets DEF From
  <2> QED  BY <2>1, TaskChangeMessages DEF IInv, MessagesFit
<1>6. SocketsFit'
  <2> SUFFICES ASSUME NEW a \in Uus
               PROVE  /\ uu'[a].client \/ uu'[a].ru \notin {"unopened", "closed"} =>
                           uu'[a].ue \in UEs /\ uu'[a].cell \in Cells
                      /\ uu'[a].ru = "unopened" => uu'[a] = NoUu
    BY DEF SocketsFit
  <2>1. uu'[a].client \/ uu'[a].ru \notin {"unopened", "closed"} =>
          uu'[a].ue \in UEs /\ uu'[a].cell \in Cells
    BY TaskChangeSockets DEF IInv, SocketsFit
  <2>2. CASE uu'[a].ru = "unopened"
    <3>1. uu[a] = NoUu
      BY <2>2, TaskChangeSockets DEF IInv, SocketsFit
    <3>2. ~uu[a].client
      BY <3>1 DEF NoUu
    <3>3. a \notin Sockets(t)
      BY <3>2 DEF IInv, TasksApart
    <3> QED  BY <2>1, <3>1, <3>3 DEF TaskChange
  <2> QED  BY <2>1, <2>2
<1>7. TasksApart'
  <2>1. ASSUME NEW o \in Tasks \ {t}
        PROVE  Sockets(o)' = Sockets(o) /\ \A a \in Sockets(o) : a \notin Sockets(t)
    BY <2>1 DEF TaskChange, Sockets, IInv, TasksApart
  <2>2. \A o \in Tasks : Sockets(o) \subseteq Uus
    BY DEF IInv, TypeOK, Sockets
  <2>3. ASSUME NEW o \in Tasks, NEW a \in Sockets(o)' PROVE uu'[a].client
    <3>1. CASE o = t
      BY <2>3, <3>1 DEF TaskChange, KeepsOrSends, IInv, TasksApart
    <3>2. CASE o # t
      BY <2>1, <2>2, <2>3, <3>2 DEF TaskChange, IInv, TasksApart
    <3> QED  BY <3>1, <3>2
  <2>4. \A o \in Tasks : src'[o] # None => src'[o] # tgt'[o]
    BY DEF TaskChange, IInv, TasksApart
  <2>5. ASSUME NEW o \in Tasks, NEW p \in Tasks \ {o}
        PROVE  Sockets(o)' \cap Sockets(p)' = {}
    <3>1. Sockets(o)' \subseteq Sockets(o) /\ Sockets(p)' \subseteq Sockets(p)
      BY <2>1 DEF TaskChange
    <3> QED  BY <3>1 DEF IInv, TasksApart
  <2> QED  BY <2>3, <2>4, <2>5 DEF TasksApart
<1> QED  BY <1>2, <1>3, <1>4, <1>5, <1>6, <1>7

LEMMA ExtendedUp ==
  ASSUME NEW up \in Seq(Kinds), NEW kind \in Kinds, NEW more, more = Append(up, kind)
  PROVE  /\ Len(more) = Len(up) + 1 /\ Len(up) \in Nat /\ more # <<>>
         /\ more[Len(more)] = kind
         /\ \A i \in 1..Len(up) : more[i] = up[i]
         /\ \A i \in 1..Len(more) : i \in 1..Len(up) \/ i = Len(more)
         /\ Range(more) = Range(up) \cup {kind}
         /\ (up = <<>> <=> Len(up) = 0)
  BY Appended

\* What a task sends is in order behind what it has sent.
LEMMA TaskChangeInOrder ==
  ASSUME IInv, TypeOK', NEW t \in Tasks, TaskChange(t)
  PROVE  StreamsInOrder' /\ TasksInOrder'
<1>1. \A a \in Uus : uu[a].up \in Seq(Kinds)
  BY DEF IInv, TypeOK, SocketStates
<1>2. \A o \in Tasks : Sockets(o) \subseteq Uus
  BY DEF IInv, TypeOK, Sockets
<1>3. ASSUME NEW a \in Uus, Live(a)', uu'[a].up = uu[a].up
      PROVE  InOrder(a)'
  <2>1. Live(a)
    BY <1>3, TaskChangeSockets DEF Live
  <2> QED  BY <1>3, <2>1, TaskChangeMessages DEF IInv, StreamsInOrder, InOrder
<1>4. ASSUME NEW a \in Sockets(t)', Live(a)', NEW kind \in Kinds,
             uu'[a].up = Append(uu[a].up, kind), Suits(t, a, kind)
      PROVE  InOrder(a)' /\ EndsFit(t, a)'
  <2> DEFINE up == uu[a].up
             more == uu'[a].up
  <2>1. a \in Sockets(t) /\ a \in Uus /\ Live(a)
    BY <1>2, <1>4, TaskChangeSockets DEF TaskChange, Live
  <2>2. InOrder(a) /\ EndsFit(t, a) /\ Ahead(a)' = Ahead(a)
    BY <2>1, TaskChangeMessages DEF IInv, StreamsInOrder, TasksInOrder
  <2>3. /\ Len(more) = Len(up) + 1 /\ Len(up) \in Nat /\ more # <<>>
        /\ more[Len(more)] = kind
        /\ \A i \in 1..Len(up) : more[i] = up[i]
        /\ \A i \in 1..Len(more) : i \in 1..Len(up) \/ i = Len(more)
        /\ Range(more) = Range(up) \cup {kind}
        /\ (up = <<>> <=> Len(up) = 0)
    BY <1>1, <1>4, <2>1, ExtendedUp
  <2>4. /\ kind \notin Ends => Range(up) \cap Ends = {} /\ \A m \in Ahead(a) : m.kind \notin Ends
        /\ kind = "complete" => IF up # <<>> THEN up[Len(up)] \in Ends
                                ELSE \A m \in Ahead(a) : m.kind \in Ends
    BY <1>4, <2>2 DEF Suits, EndsFit, Ends
  <2>5. \A i \in 1..Len(up) : up[i] \in Range(up)
    BY <1>1, <2>1 DEF Range
  <2>6. EndsFit(t, a)'
    BY <1>4, <2>2, <2>3, <2>4 DEF EndsFit, Suits, Ends
  <2>7. InOrder(a)'
    <3>1. ASSUME NEW i \in 1..Len(more), NEW j \in 1..Len(more), j = i + 1
          PROVE  /\ more[i] \in Ends => more[j] \in Ends
                 /\ more[j] = "complete" => more[i] \in Ends
      <4>1. i \in 1..Len(up)
        BY <2>3, <3>1
      <4>2. CASE j \in 1..Len(up)
        <5>1. more[i] = up[i] /\ more[j] = up[j]
          BY <2>3, <4>1, <4>2
        <5>2. /\ up[i] \in Ends => up[j] \in Ends
              /\ up[j] = "complete" => up[i] \in Ends
          BY <2>1, <2>2, <3>1, <4>1, <4>2 DEF InOrder
        <5> QED  BY <5>1, <5>2
      <4>3. CASE j = Len(more)
        <5>1. i = Len(up) /\ more[j] = kind /\ more[i] = up[i] /\ up # <<>>
          BY <2>3, <3>1, <4>1, <4>3
        <5> QED  BY <2>4, <2>5, <4>1, <5>1 DEF Ends
      <4> QED  BY <2>3, <4>2, <4>3
    <3>2. \A m \in Ahead(a) : /\ m.kind \in Ends => more[1] \in Ends
                              /\ more[1] = "complete" => m.kind \in Ends
      <4>1. CASE up = <<>>
        <5>1. more[1] = kind
          BY <2>3, <4>1
        <5> QED  BY <2>4, <4>1, <5>1 DEF Ends
      <4>2. CASE up # <<>>
        <5>1. more[1] = up[1]
          BY <2>3, <4>2
        <5> QED  BY <2>2, <4>2, <5>1 DEF InOrder
      <4> QED  BY <4>1, <4>2
    <3> QED  BY <2>2, <3>1, <3>2 DEF InOrder
  <2> QED  BY <2>6, <2>7
<1>5. StreamsInOrder'
  <2> SUFFICES ASSUME NEW a \in Uus, Live(a)' PROVE InOrder(a)'
    BY DEF StreamsInOrder
  <2>1. CASE a \notin Sockets(t)'
    BY <1>3, <2>1, TaskChangeSockets DEF Live
  <2>2. CASE a \in Sockets(t)'
    BY <1>3, <1>4, <2>2, TaskChangeSockets DEF TaskChange, KeepsOrSends, Live
  <2> QED  BY <2>1, <2>2
<1>6. TasksInOrder'
  <2> SUFFICES ASSUME NEW o \in Tasks, NEW a \in Sockets(o)', Live(a)' PROVE EndsFit(o, a)'
    BY DEF TasksInOrder
  <2>1. CASE o # t
    <3>1. Sockets(o)' = Sockets(o) /\ a \notin Sockets(t) /\ a \in Uus
      BY <1>2, <2>1 DEF TaskChange, Sockets, IInv, TasksApart
    <3>2. uu'[a] = uu[a] /\ Live(a)
      BY <3>1 DEF TaskChange, Live
    <3>3. EndsFit(o, a)
      BY <3>1, <3>2 DEF IInv, TasksInOrder
    <3> QED  BY <2>1, <3>2, <3>3, OthersReleaseAsBefore, TaskChangeMessages DEF EndsFit
  <2>2. CASE o = t
    <3>1. a \in Sockets(t) /\ a \in Uus /\ Live(a)
      BY <1>2, <2>2, TaskChangeSockets DEF TaskChange, Live
    <3>2. EndsFit(t, a) /\ KeepsOrSends(t, a) /\ uu[a].ru # "closed"
      BY <2>2, <3>1 DEF IInv, TasksInOrder, TaskChange, Live
    <3>3. CASE uu'[a].up = uu[a].up /\ (ReleasingOn(t, a)' <=> ReleasingOn(t, a))
      BY <2>2, <3>2, <3>3, TaskChangeMessages DEF EndsFit
    <3> QED  BY <1>4, <2>2, <3>2, <3>3 DEF KeepsOrSends
  <2> QED  BY <2>1, <2>2
<1> QED  BY <1>5, <1>6

\* Nobody's release falls behind: who was bound to give a session back still is.
LEMMA TaskChangeKeepsBound ==
  ASSUME IInv, TypeOK', NEW t \in Tasks, TaskChange(t), NEW a \in Uus, Bound(a)
  PROVE  Bound(a)'
<1>1. uu'[a].ru = uu[a].ru /\ uu[a].ru \in {"recv", "f1", "failed"}
  BY TaskChangeSockets DEF Bound
<1>2. Ahead(a)' = Ahead(a) /\ Answers(a)' = Answers(a)
  BY TaskChangeMessages
<1>3. SUFFICES ASSUME uu[a].ru # "failed", Finished(a)' PROVE Finished(a)
  BY <1>1 DEF Bound
<1>4. CASE uu'[a].up = uu[a].up /\ \A o \in Tasks : ReleasingOn(o, a)' => ReleasingOn(o, a)
  BY <1>2, <1>3, <1>4 DEF Finished
<1>5. ASSUME NEW kind \in Kinds, uu'[a].up = Append(uu[a].up, kind), Suits(t, a, kind)
      PROVE  Finished(a)
  <2>1. uu[a].up \in Seq(Kinds)
    BY DEF IInv, TypeOK, SocketStates
  <2>2. /\ uu'[a].up # <<>>
        /\ uu[a].up = <<>> => uu'[a].up[1] = kind
        /\ uu[a].up # <<>> => uu'[a].up[1] = uu[a].up[1]
    <3>1. /\ Len(uu'[a].up) = Len(uu[a].up) + 1 /\ Len(uu[a].up) \in Nat
          /\ uu'[a].up # <<>> /\ uu'[a].up[Len(uu'[a].up)] = kind
          /\ \A i \in 1..Len(uu[a].up) : uu'[a].up[i] = uu[a].up[i]
          /\ (uu[a].up = <<>> <=> Len(uu[a].up) = 0)
      BY <1>5, <2>1, ExtendedUp
    <3> QED  BY <3>1
  <2>3. kind = "complete" => ReleasingOn(t, a)
    BY <1>5 DEF Suits, Ends
  <2> QED  BY <1>2, <1>3, <2>2, <2>3 DEF Finished
<1>6. CASE a \in Sockets(t) /\ a \in Sockets(t)'
  <2>1. KeepsOrSends(t, a)
    BY <1>6 DEF TaskChange
  <2>2. CASE uu'[a].up = uu[a].up /\ (ReleasingOn(t, a)' <=> ReleasingOn(t, a))
    BY <1>4, <2>2, OthersReleaseAsBefore
  <2> QED  BY <1>1, <1>5, <2>1, <2>2 DEF KeepsOrSends
<1>7. CASE a \notin Sockets(t)'
  <2>1. uu'[a].up = uu[a].up
    BY <1>1, <1>7, TaskChangeSockets
  <2>2. ~ReleasingOn(t, a)'
    BY <1>7, UusAssumption DEF ReleasingOn, Sockets
  <2> QED  BY <1>4, <2>1, <2>2, OthersReleaseAsBefore
<1> QED  BY <1>6, <1>7 DEF TaskChange

LEMMA TaskChangePreserves ==
  ASSUME IInv, TypeOK', NEW t \in Tasks, TaskChange(t)
  PROVE  IInv'
<1>1. ReleaseAssured'
  <2> SUFFICES ASSUME NEW u \in UEs, NEW c \in Cells, DU!HasSession(u, c)'
               PROVE  HasOwner(u, c)' \/ ReleaseSent(u, c)' \/ GivenUp(c)'
    BY DEF ReleaseAssured
  <2>1. UNCHANGED <<prbs, open, connCells, f1>>
    BY DEF TaskChange, duVars, f1Vars
  <2>2. HasOwner(u, c) \/ ReleaseSent(u, c) \/ GivenUp(c)
    BY <2>1 DEF IInv, ReleaseAssured, DU!HasSession
  <2>3. CASE HasOwner(u, c)
    <3>1. PICK a \in Uus : uu[a].ue = u /\ uu[a].cell = c /\ Bound(a)
      BY <2>3 DEF HasOwner
    <3>2. Bound(a)' /\ uu'[a].ru # "closed"
      BY <3>1, TaskChangeKeepsBound, TaskChangeSockets DEF Bound
    <3>3. uu'[a].ue = u /\ uu'[a].cell = c
      BY <3>1, <3>2, TaskChangeSockets
    <3> QED  BY <3>2, <3>3 DEF HasOwner
  <2>4. CASE ReleaseSent(u, c)
    BY <2>4, TaskChangeMessages DEF ReleaseSent
  <2>5. CASE GivenUp(c)
    BY <2>1, <2>5 DEF GivenUp
  <2> QED  BY <2>2, <2>3, <2>4, <2>5
<1> QED  BY <1>1, TaskChangeKeepsLinks, TaskChangeInOrder DEF IInv

-----------------------------------------------------------------------------
(* The steps of a task have this shape. *)

LEMMA OwnSockets ==
  ASSUME IInv, NEW t \in Tasks
  PROVE  /\ proc[t] # "out" => src[t] \in Uus /\ src[t] # None
         /\ proc[t] \in {"handover", "leave"} =>
              tgt[t] \in Uus /\ tgt[t] # None /\ src[t] # tgt[t]
         /\ proc[t] \notin {"handover", "leave"} => tgt[t] = None
         /\ \A a \in Uus : uu[a] \in SocketStates
         /\ \A a \in Sockets(t) : a \in Uus
         /\ Sockets(t) = {src[t], tgt[t]} \ {None}
         /\ None \notin Uus
  BY UusAssumption DEF IInv, TypeOK, TasksApart, Sockets

LEMMA AttachOnChange ==
  ASSUME IInv, NEW t \in Tasks, AttachOn(t)
  PROVE  TypeOK' /\ TaskChange(t)
<1> DEFINE a == Attaching(t)
           kind == AttachFlow[step[t] + 1]
<1>1. /\ InAttach(t) /\ uu[a].down # <<>> /\ step[t] < Len(AttachFlow)
      /\ step' = [step EXCEPT ![t] = @ + 1]
      /\ uu' = [uu EXCEPT ![a] = Sent(Taken(@), kind)]
      /\ UNCHANGED <<proc, src, tgt, duVars, f1Vars, losses>>
  BY DEF AttachOn
<1>2. a \in Uus /\ a \in Sockets(t) /\ a \in {src[t], tgt[t]}
  BY <1>1, OwnSockets DEF Attaching, InAttach
<1>3. step[t] \in 0..Len(AttachFlow) /\ step[t] + 1 \in 1..Len(AttachFlow)
  BY <1>1, FlowKinds DEF IInv, TypeOK
<1>4. kind \in Kinds \ Ends
  BY <1>3, FlowKinds
<1> HIDE DEF a, kind
<1>5. /\ Taken(uu[a]) \in SocketStates
      /\ Taken(uu[a]).ru = uu[a].ru /\ Taken(uu[a]).ue = uu[a].ue
      /\ Taken(uu[a]).up = uu[a].up /\ Taken(uu[a]).cell = uu[a].cell
      /\ Taken(uu[a]).client = uu[a].client
  BY <1>1, <1>2, TakenSocket, OwnSockets
<1>6. /\ uu'[a] \in SocketStates
      /\ uu'[a].ru = uu[a].ru /\ uu'[a].ue = uu[a].ue
      /\ uu'[a].cell = uu[a].cell /\ uu'[a].client = uu[a].client
      /\ uu[a].ru = "closed" \/ uu'[a].up = Append(uu[a].up, kind)
  <2>1. uu'[a] = Sent(Taken(uu[a]), kind)
    BY <1>1, <1>2 DEF IInv, TypeOK
  <2> QED  BY <1>4, <1>5, <2>1, SentSocket
<1>7. \A b \in Uus \ {a} : uu'[b] = uu[b]
  BY <1>1 DEF IInv, TypeOK
<1>8. TypeOK'
  <2>1. uu' \in [Uus -> SocketStates]
    BY <1>1, <1>6, <1>7 DEF IInv, TypeOK
  <2>2. step' \in [Tasks -> 0..Len(AttachFlow)]
    BY <1>1, <1>3, FlowKinds DEF IInv, TypeOK
  <2> QED  BY <1>1, <2>1, <2>2 DEF IInv, TypeOK, f1Vars
<1>9. TaskChange(t)
  <2>1. ~Releasing(t) /\ ~Releasing(t)'
    BY <1>1 DEF InAttach, Releasing
  <2>2. KeepsOrSends(t, a)
    BY <1>4, <1>6, <2>1 DEF KeepsOrSends, Suits, ReleasingOn
  <2>3. \A b \in Sockets(t) \ {a} : KeepsOrSends(t, b)
    BY <1>7, <2>1, OwnSockets DEF KeepsOrSends, ReleasingOn
  <2> QED  BY <1>1, <1>2, <1>7, <2>2, <2>3 DEF TaskChange, Sockets, IInv, TasksApart
<1> QED  BY <1>8, <1>9

LEMMA AttachDoneChange ==
  ASSUME IInv, NEW t \in Tasks, AttachDone(t)
  PROVE  TypeOK' /\ TaskChange(t)
<1> DEFINE a == Attaching(t)
<1>1. /\ InAttach(t) /\ uu[a].down # <<>> /\ UNCHANGED <<src, tgt, duVars, f1Vars, losses>>
      /\ IF proc[t] = "attach"
         THEN /\ proc' = [proc EXCEPT ![t] = "connected"]
              /\ step' = [step EXCEPT ![t] = 0]
              /\ uu' = [uu EXCEPT ![a] = Taken(@)]
         ELSE /\ proc' = [proc EXCEPT ![t] = "leave"]
              /\ step' = [step EXCEPT ![t] = 1]
              /\ uu' = [uu EXCEPT ![a] = Taken(@), ![src[t]] = Sent(@, "release")]
  BY DEF AttachDone
<1>2. a \in Uus /\ a \in Sockets(t) /\ src[t] \in Uus /\ src[t] \in Sockets(t)
  BY <1>1, OwnSockets DEF Attaching, InAttach
<1>3. /\ Taken(uu[a]) \in SocketStates
      /\ Taken(uu[a]).ru = uu[a].ru /\ Taken(uu[a]).ue = uu[a].ue
      /\ Taken(uu[a]).up = uu[a].up /\ Taken(uu[a]).cell = uu[a].cell
      /\ Taken(uu[a]).client = uu[a].client
  BY <1>1, <1>2, TakenSocket, OwnSockets
<1>4. ~Releasing(t) /\ step[t] \in 0..Len(AttachFlow) /\ 1 \in 0..Len(AttachFlow)
      /\ 0 \in 0..Len(AttachFlow)
  BY <1>1, FlowKinds DEF InAttach, Releasing, IInv, TypeOK
<1>5. CASE proc[t] = "attach"
  <2>1. /\ a = src[t] /\ uu'[a] = Taken(uu[a]) /\ \A b \in Uus \ {a} : uu'[b] = uu[b]
        /\ ~Releasing(t)'
    BY <1>1, <1>2, <1>5 DEF Attaching, Releasing, IInv, TypeOK
  <2>2. TypeOK'
    <3>1. uu' \in [Uus -> SocketStates]
      BY <1>1, <1>3, <1>5 DEF IInv, TypeOK
    <3> QED  BY <1>1, <1>4, <1>5, <3>1 DEF IInv, TypeOK, f1Vars
  <2>3. \A b \in Sockets(t) : KeepsOrSends(t, b)
    BY <1>3, <1>4, <2>1, OwnSockets DEF KeepsOrSends, ReleasingOn
  <2> QED  BY <1>1, <1>2, <1>5, <2>1, <2>2, <2>3 DEF TaskChange, Sockets, IInv, TypeOK, TasksApart
<1>6. CASE proc[t] = "handover"
  <2> DEFINE o == src[t]
  <2>1. /\ a = tgt[t] /\ a # o /\ uu'[a] = Taken(uu[a]) /\ uu'[o] = Sent(uu[o], "release")
        /\ \A b \in Uus \ {a, o} : uu'[b] = uu[b]
    <3>1. a = tgt[t] /\ a # o
      BY <1>6, OwnSockets DEF Attaching
    <3> QED  BY <1>1, <1>2, <1>6, <3>1 DEF IInv, TypeOK
  <2>2. Releasing(t)'
    BY <1>1, <1>6 DEF Releasing, IInv, TypeOK
  <2>3. /\ uu'[o] \in SocketStates
        /\ uu'[o].ru = uu[o].ru /\ uu'[o].ue = uu[o].ue
        /\ uu'[o].cell = uu[o].cell /\ uu'[o].client = uu[o].client
        /\ uu[o].ru = "closed" \/ uu'[o].up = Append(uu[o].up, "release")
        /\ "release" \in Kinds
    BY <1>2, <2>1, SentSocket, OwnSockets DEF Kinds
  <2> HIDE DEF a
  <2>4. TypeOK'
    <3>1. uu' \in [Uus -> SocketStates]
      BY <1>1, <1>3, <1>6, <2>1, <2>3 DEF IInv, TypeOK
    <3> QED  BY <1>1, <1>4, <1>6, <3>1 DEF IInv, TypeOK, f1Vars
  <2>5. ASSUME NEW b \in Sockets(t) PROVE KeepsOrSends(t, b)
    <3>1. CASE b = a
      <4>1. ~ReleasingOn(t, b) /\ ~ReleasingOn(t, b)'
        BY <1>1, <1>4, <2>1, <3>1 DEF ReleasingOn
      <4> QED  BY <1>3, <2>1, <3>1, <4>1 DEF KeepsOrSends
    <3>2. CASE b = o
      <4>1. ReleasingOn(t, b)'
        BY <1>1, <2>2, <3>2 DEF ReleasingOn
      <4> QED  BY <2>3, <3>2, <4>1 DEF KeepsOrSends, Suits
    <3> QED  BY <2>1, <3>1, <3>2 DEF Sockets
  <2> QED  BY <1>1, <1>2, <1>6, <2>1, <2>4, <2>5 DEF TaskChange, Sockets, IInv, TypeOK, TasksApart
<1> QED  BY <1>1, <1>5, <1>6 DEF InAttach

\* Giving the session and all sockets up.
LEMMA LeaveChange ==
  ASSUME IInv, NEW t \in Tasks, Leave(t, Sockets(t)), UNCHANGED <<duVars, f1Vars, losses>>
  PROVE  TypeOK' /\ TaskChange(t)
<1>1. /\ proc' = [proc EXCEPT ![t] = "out"] /\ step' = [step EXCEPT ![t] = 0]
      /\ src' = [src EXCEPT ![t] = None] /\ tgt' = [tgt EXCEPT ![t] = None]
      /\ uu' = [a \in Uus |-> IF a \in Sockets(t) THEN ClientClosed(uu[a]) ELSE uu[a]]
  BY DEF Leave
<1>2. TypeOK'
  <2>1. uu' \in [Uus -> SocketStates]
    BY <1>1, ClosedSocket, OwnSockets
  <2>2. 0 \in 0..Len(AttachFlow)
    BY FlowKinds
  <2> QED  BY <1>1, <2>1, <2>2 DEF IInv, TypeOK, f1Vars
<1>3. Sockets(t)' = {}
  BY <1>1 DEF Sockets, IInv, TypeOK
<1>4. \A o \in Tasks \ {t} : proc'[o] = proc[o] /\ src'[o] = src[o] /\ tgt'[o] = tgt[o]
  BY <1>1 DEF IInv, TypeOK
<1> QED  BY <1>1, <1>2, <1>3, <1>4, OwnSockets DEF TaskChange, IInv, TypeOK

LEMMA AttachFailedChange ==
  ASSUME IInv, NEW t \in Tasks, AttachFailed(t)
  PROVE  TypeOK' /\ TaskChange(t)
<1>1. CASE proc[t] = "attach"
  <2>1. Sockets(t) = {src[t]}
    BY <1>1, OwnSockets
  <2> QED  BY <1>1, <2>1, LeaveChange DEF AttachFailed, Attaching
<1>2. CASE proc[t] = "handover"
  <2> DEFINE a == tgt[t]
  <2>1. /\ proc' = [proc EXCEPT ![t] = "connected"] /\ step' = [step EXCEPT ![t] = 0]
        /\ tgt' = [tgt EXCEPT ![t] = None] /\ uu' = [uu EXCEPT ![a] = ClientClosed(@)]
        /\ UNCHANGED <<src, duVars, f1Vars, losses>>
    BY <1>2 DEF AttachFailed, Stay
  <2>2. a \in Uus /\ a # src[t] /\ Sockets(t) = {src[t], a} /\ src[t] \in Uus /\ src[t] # None
    BY <1>2, OwnSockets
  <2>3. uu'[a] = ClientClosed(uu[a]) /\ \A b \in Uus \ {a} : uu'[b] = uu[b]
    BY <2>1, <2>2 DEF IInv, TypeOK
  <2>4. TypeOK'
    <3>1. uu' \in [Uus -> SocketStates]
      BY <2>1, <2>2, ClosedSocket, OwnSockets DEF IInv, TypeOK
    <3>2. 0 \in 0..Len(AttachFlow)
      BY FlowKinds
    <3> QED  BY <1>2, <2>1, <3>1, <3>2 DEF IInv, TypeOK, f1Vars
  <2>5. Sockets(t)' = {src[t]}
    BY <2>1, <2>2 DEF Sockets, IInv, TypeOK
  <2>6. KeepsOrSends(t, src[t])
    BY <1>2, <2>1, <2>2, <2>3 DEF KeepsOrSends, ReleasingOn, Releasing, IInv, TypeOK
  <2> QED  BY <2>1, <2>2, <2>3, <2>4, <2>5, <2>6 DEF TaskChange, IInv, TypeOK
<1> QED  BY <1>1, <1>2 DEF AttachFailed, InAttach

\* A connected task says something on its socket.
LEMMA SaysOnServing ==
  ASSUME IInv, NEW t \in Tasks, proc[t] # "out", NEW kind \in Kinds,
         NEW at \in {"measure", "data", "release"}, NEW n \in 0..Len(AttachFlow),
         proc[t] = "connected", kind = at,
         proc' = [proc EXCEPT ![t] = at],
         uu' = [uu EXCEPT ![src[t]] = Sent(@, kind)],
         step' = step \/ step' = [step EXCEPT ![t] = n],
         UNCHANGED <<src, tgt, duVars, f1Vars, losses>>
  PROVE  TypeOK' /\ TaskChange(t)
<1>1. PICK a \in Uus : a = src[t] /\ Sockets(t) = {a}
  BY OwnSockets
<1>2. uu'[a] = Sent(uu[a], kind) /\ \A b \in Uus \ {a} : uu'[b] = uu[b]
  BY <1>1 DEF IInv, TypeOK
<1>3. /\ uu'[a] \in SocketStates
      /\ uu'[a].ru = uu[a].ru /\ uu'[a].ue = uu[a].ue
      /\ uu'[a].cell = uu[a].cell /\ uu'[a].client = uu[a].client
      /\ uu[a].ru = "closed" \/ uu'[a].up = Append(uu[a].up, kind)
  BY <1>1, <1>2, SentSocket, OwnSockets
<1>4. TypeOK'
  <2>1. uu' \in [Uus -> SocketStates]
    BY <1>1, <1>2, <1>3 DEF IInv, TypeOK
  <2> QED  BY <2>1 DEF IInv, TypeOK, f1Vars
<1>5. ~ReleasingOn(t, a) /\ (ReleasingOn(t, a)' <=> kind = "release")
  BY <1>1 DEF ReleasingOn, Releasing, IInv, TypeOK
<1>6. KeepsOrSends(t, a)
  BY <1>3, <1>5 DEF KeepsOrSends, Suits, Ends
<1> QED  BY <1>1, <1>2, <1>4, <1>6 DEF TaskChange, Sockets, IInv, TypeOK, TasksApart

LEMMA ReportChange ==
  ASSUME IInv, NEW t \in Tasks, NEW kind \in {"measure", "data"}, Report(t, kind)
  PROVE  TypeOK' /\ TaskChange(t)
<1>1. kind \in Kinds /\ 0 \in 0..Len(AttachFlow)
  BY FlowKinds DEF Kinds
<1> QED  BY <1>1, SaysOnServing DEF Report

LEMMA EndChange ==
  ASSUME IInv, NEW t \in Tasks, End(t)
  PROVE  TypeOK' /\ TaskChange(t)
<1>1. "release" \in Kinds /\ 1 \in 0..Len(AttachFlow)
  BY FlowKinds DEF Kinds
<1> QED  BY <1>1, SaysOnServing DEF End

LEMMA ReportAnsweredChange ==
  ASSUME IInv, NEW t \in Tasks, ReportAnswered(t)
  PROVE  TypeOK' /\ TaskChange(t)
<1>1. PICK a \in Uus : a = src[t] /\ Sockets(t) = {a} /\ uu[a] \in SocketStates
  BY OwnSockets DEF ReportAnswered
<1>2. CASE proc[t] = "measure" /\ ~Head(uu[src[t]].down).ok
  BY <1>1, <1>2, LeaveChange DEF ReportAnswered
<1>3. CASE ~(proc[t] = "measure" /\ ~Head(uu[src[t]].down).ok)
  <2>1. /\ proc[t] \in {"measure", "data"} /\ uu[a].down # <<>>
        /\ proc' = [proc EXCEPT ![t] = "connected"] /\ uu' = [uu EXCEPT ![a] = Taken(@)]
        /\ UNCHANGED <<step, src, tgt, duVars, f1Vars, losses>>
    BY <1>1, <1>3 DEF ReportAnswered
  <2>2. uu'[a] = Taken(uu[a]) /\ \A b \in Uus \ {a} : uu'[b] = uu[b]
    BY <2>1 DEF IInv, TypeOK
  <2>3. /\ uu'[a] \in SocketStates
        /\ uu'[a].ru = uu[a].ru /\ uu'[a].ue = uu[a].ue /\ uu'[a].up = uu[a].up
        /\ uu'[a].cell = uu[a].cell /\ uu'[a].client = uu[a].client
    BY <1>1, <2>1, <2>2, TakenSocket
  <2>4. TypeOK'
    <3>1. uu' \in [Uus -> SocketStates]
      BY <2>1, <2>2, <2>3 DEF IInv, TypeOK
    <3> QED  BY <2>1, <3>1 DEF IInv, TypeOK, f1Vars
  <2>5. ~ReleasingOn(t, a) /\ ~ReleasingOn(t, a)'
    BY <2>1 DEF ReleasingOn, Releasing, IInv, TypeOK
  <2>6. KeepsOrSends(t, a)
    BY <2>3, <2>5 DEF KeepsOrSends
  <2> QED  BY <1>1, <2>1, <2>2, <2>4, <2>6 DEF TaskChange, Sockets, IInv, TypeOK, TasksApart
<1> QED  BY <1>2, <1>3

LEMMA ReportBrokenChange ==
  ASSUME IInv, NEW t \in Tasks, ReportBroken(t)
  PROVE  TypeOK' /\ TaskChange(t)
<1>1. Sockets(t) = {src[t]}
  BY OwnSockets DEF ReportBroken
<1> QED  BY <1>1, LeaveChange DEF ReportBroken

LEMMA CancelChange ==
  ASSUME IInv, NEW t \in Tasks, Cancel(t)
  PROVE  TypeOK' /\ TaskChange(t)
<1>1. CASE proc[t] = "attach"
  <2>1. Sockets(t) = {src[t]}
    BY <1>1, OwnSockets
  <2> QED  BY <1>1, <2>1, LeaveChange DEF Cancel
<1>2. CASE proc[t] # "attach"
  <2>1. PICK a \in Uus : a = src[t] /\ a # None
    BY OwnSockets DEF Cancel
  <2>2. /\ proc' = [proc EXCEPT ![t] = "cancel"] /\ step' = [step EXCEPT ![t] = 1]
        /\ tgt' = [tgt EXCEPT ![t] = None]
        /\ uu' = [b \in Uus |-> IF b = a THEN Sent(uu[b], "release")
                                ELSE IF b = tgt[t] THEN ClientClosed(uu[b]) ELSE uu[b]]
        /\ UNCHANGED <<src, duVars, f1Vars, losses>>
    BY <1>2, <2>1 DEF Cancel
  <2>3. /\ uu'[a] \in SocketStates
        /\ uu'[a].ru = uu[a].ru /\ uu'[a].ue = uu[a].ue
        /\ uu'[a].cell = uu[a].cell /\ uu'[a].client = uu[a].client
        /\ uu[a].ru = "closed" \/ uu'[a].up = Append(uu[a].up, "release")
        /\ "release" \in Kinds
    BY <2>1, <2>2, SentSocket, OwnSockets DEF Kinds
  <2>4. TypeOK'
    <3>1. uu' \in [Uus -> SocketStates]
      BY <2>2, <2>3, ClosedSocket, OwnSockets
    <3>2. 1 \in 0..Len(AttachFlow)
      BY FlowKinds
    <3>3. src[t] # None
      BY <2>1
    <3> QED  BY <2>2, <3>1, <3>2, <3>3 DEF IInv, TypeOK, f1Vars
  <2>5. ReleasingOn(t, a)'
    BY <2>1, <2>2 DEF ReleasingOn, Releasing, IInv, TypeOK
  <2>6. KeepsOrSends(t, a)
    BY <2>3, <2>5 DEF KeepsOrSends, Suits
  <2>7. Sockets(t)' = {a}
    BY <2>1, <2>2 DEF Sockets, IInv, TypeOK
  <2>8. \A b \in Sockets(t) : b # a => b = tgt[t]
    BY <2>1 DEF Sockets
  <2>9. \A b \in Uus : b # a => uu'[b] = IF b \in Sockets(t) THEN ClientClosed(uu[b]) ELSE uu[b]
    BY <2>1, <2>2, <2>8, OwnSockets DEF Sockets
  <2>10. a \in Sockets(t) /\ \A b \in Sockets(t) : b \in Uus
    BY <2>1, OwnSockets
  <2> QED  BY <2>1, <2>2, <2>4, <2>6, <2>7, <2>9, <2>10 DEF TaskChange, IInv, TypeOK
<1> QED  BY <1>1, <1>2

LEMMA ReleaseOnChange ==
  ASSUME IInv, NEW t \in Tasks, ReleaseOn(t)
  PROVE  TypeOK' /\ TaskChange(t)
<1>1. PICK a \in Uus : a = src[t] /\ a # None /\ uu[a] \in SocketStates
  BY OwnSockets DEF ReleaseOn, Releasing
<1>2. /\ Releasing(t) /\ uu[a].down # <<>> /\ step' = [step EXCEPT ![t] = 2]
      /\ uu' = [uu EXCEPT ![a] = Sent(Taken(@), "complete")]
      /\ UNCHANGED <<proc, src, tgt, duVars, f1Vars, losses>>
  BY <1>1 DEF ReleaseOn
<1>3. uu'[a] = Sent(Taken(uu[a]), "complete") /\ \A b \in Uus \ {a} : uu'[b] = uu[b]
  BY <1>2 DEF IInv, TypeOK
<1>4. /\ Taken(uu[a]) \in SocketStates
      /\ Taken(uu[a]).ru = uu[a].ru /\ Taken(uu[a]).ue = uu[a].ue
      /\ Taken(uu[a]).up = uu[a].up /\ Taken(uu[a]).cell = uu[a].cell
      /\ Taken(uu[a]).client = uu[a].client
  BY <1>1, <1>2, TakenSocket
<1>5. /\ uu'[a] \in SocketStates
      /\ uu'[a].ru = uu[a].ru /\ uu'[a].ue = uu[a].ue
      /\ uu'[a].cell = uu[a].cell /\ uu'[a].client = uu[a].client
      /\ uu[a].ru = "closed" \/ uu'[a].up = Append(uu[a].up, "complete")
      /\ "complete" \in Kinds
  BY <1>3, <1>4, SentSocket DEF Kinds
<1>6. TypeOK'
  <2>1. uu' \in [Uus -> SocketStates]
    BY <1>2, <1>3, <1>5 DEF IInv, TypeOK
  <2>2. 2 \in 0..Len(AttachFlow)
    BY FlowKinds
  <2> QED  BY <1>2, <2>1, <2>2 DEF IInv, TypeOK, f1Vars
<1>7. ReleasingOn(t, a) /\ ReleasingOn(t, a)'
  BY <1>1, <1>2 DEF ReleasingOn, Releasing
<1>8. KeepsOrSends(t, a)
  BY <1>5, <1>7 DEF KeepsOrSends, Suits
<1>9. \A b \in Sockets(t) \ {a} : KeepsOrSends(t, b)
  BY <1>1, <1>2, <1>3, OwnSockets DEF KeepsOrSends, ReleasingOn
<1>10. Sockets(t)' = Sockets(t) /\ a \in Sockets(t)
  BY <1>1, <1>2 DEF Sockets
<1> QED  BY <1>2, <1>3, <1>6, <1>8, <1>9, <1>10 DEF TaskChange, IInv, TasksApart

LEMMA ReleaseDoneChange ==
  ASSUME IInv, NEW t \in Tasks, ReleaseDone(t)
  PROVE  TypeOK' /\ TaskChange(t)
<1>1. CASE proc[t] # "leave"
  <2>1. Sockets(t) = {src[t]}
    BY <1>1, OwnSockets DEF ReleaseDone, Releasing
  <2> QED  BY <1>1, <2>1, LeaveChange DEF ReleaseDone
<1>2. CASE proc[t] = "leave"
  <2>1. PICK a \in Uus, b \in Uus : a = src[t] /\ b = tgt[t] /\ a # b /\ a # None /\ b # None
    BY <1>2, OwnSockets
  <2>2. /\ proc' = [proc EXCEPT ![t] = "connected"] /\ step' = [step EXCEPT ![t] = 0]
        /\ src' = [src EXCEPT ![t] = b] /\ tgt' = [tgt EXCEPT ![t] = None]
        /\ uu' = [uu EXCEPT ![a] = ClientClosed(@)]
        /\ UNCHANGED <<duVars, f1Vars, losses>>
    BY <1>2, <2>1 DEF ReleaseDone
  <2>3. uu'[a] = ClientClosed(uu[a]) /\ \A d \in Uus \ {a} : uu'[d] = uu[d]
    BY <2>2 DEF IInv, TypeOK
  <2>4. TypeOK'
    <3>1. uu' \in [Uus -> SocketStates]
      BY <2>2, <2>3, ClosedSocket, OwnSockets DEF IInv, TypeOK
    <3>2. 0 \in 0..Len(AttachFlow)
      BY FlowKinds
    <3>3. b # None
      BY <2>1
    <3> QED  BY <2>2, <3>1, <3>2, <3>3 DEF IInv, TypeOK, f1Vars
  <2>5. Sockets(t) = {a, b} /\ Sockets(t)' = {b}
    BY <2>1, <2>2 DEF Sockets, IInv, TypeOK
  <2>6. ~ReleasingOn(t, b) /\ ~ReleasingOn(t, b)'
    BY <2>1, <2>2 DEF ReleasingOn, Releasing, IInv, TypeOK
  <2>7. KeepsOrSends(t, b)
    BY <2>1, <2>3, <2>6 DEF KeepsOrSends
  <2>8. src'[t] # tgt'[t]
    BY <2>1, <2>2 DEF IInv, TypeOK
  <2> QED  BY <2>1, <2>2, <2>3, <2>4, <2>5, <2>7, <2>8 DEF TaskChange, IInv, TypeOK
<1> QED  BY <1>1, <1>2

LEMMA TaskStepsPreserve ==
  ASSUME IInv, NEW t \in Tasks,
         TaskStep(t) \/ End(t) \/ Cancel(t) \/ \E kind \in {"measure", "data"} : Report(t, kind)
  PROVE  IInv'
<1>1. TypeOK' /\ TaskChange(t)
  BY AttachOnChange, AttachDoneChange, AttachFailedChange, ReportAnsweredChange,
     ReportBrokenChange, ReleaseOnChange, ReleaseDoneChange, EndChange, CancelChange,
     ReportChange DEF TaskStep
<1> QED  BY <1>1, TaskChangePreserves

-----------------------------------------------------------------------------
(* A new socket *)

LEMMA NewSocket ==
  ASSUME NEW u \in UEs, NEW c \in Cells
  PROVE  /\ NewUu(u, c) \in SocketStates
         /\ NewUu(u, c).ue = u /\ NewUu(u, c).cell = c /\ NewUu(u, c).client
         /\ NewUu(u, c).ru = "new" /\ NewUu(u, c).up = <<AttachFlow[1]>>
         /\ Range(<<AttachFlow[1]>>) \cap Ends = {}
<1>1. AttachFlow[1] \in Kinds \ Ends
  BY FlowKinds
<1>2. <<AttachFlow[1]>> \in Seq(Kinds) /\ <<>> \in Seq([kind : Kinds, ok : BOOLEAN])
  BY <1>1
<1>3. Range(<<AttachFlow[1]>>) = {AttachFlow[1]}
  BY DEF Range
<1> QED  BY <1>1, <1>2, <1>3 DEF NewUu, SocketStates

LEMMA OpenPreserves ==
  ASSUME IInv, TypeOK', NEW t \in Tasks, NEW a \in Uus, NEW u \in UEs, NEW c \in Cells,
         uu[a] = NoUu, uu' = [uu EXCEPT ![a] = NewUu(u, c)],
         UNCHANGED <<duVars, f1Vars>>,
         \A o \in Tasks \ {t} : proc'[o] = proc[o] /\ src'[o] = src[o] /\ tgt'[o] = tgt[o],
         Sockets(t)' = Sockets(t) \cup {a}, src'[t] # None => src'[t] # tgt'[t],
         ~Releasing(t), ~Releasing(t)'
  PROVE  IInv'
<1>1. /\ uu'[a].ue = u /\ uu'[a].cell = c /\ uu'[a].client
      /\ uu'[a].ru = "new" /\ uu'[a].up = <<AttachFlow[1]>>
      /\ Range(uu'[a].up) \cap Ends = {} /\ uu'[a] \in SocketStates
  <2>1. uu'[a] = NewUu(u, c)
    BY DEF IInv, TypeOK
  <2> QED  BY <2>1, NewSocket
<1>2. \A b \in Uus \ {a} : uu'[b] = uu[b]
  BY DEF IInv, TypeOK
<1>3. ~uu[a].client /\ uu[a].ru = "unopened"
  BY DEF NoUu
<1>4. \A o \in Tasks : a \notin Sockets(o) /\ Sockets(o) \subseteq Uus
  BY <1>3 DEF IInv, TasksApart, TypeOK, Sockets
<1>5. /\ \A s : Going(s)' = Going(s) /\ Replying(s)' = Replying(s) /\ Waiting(s)' = Waiting(s)
      /\ \A b : Ahead(b)' = Ahead(b) /\ Answers(b)' = Answers(b)
  BY DEF f1Vars, Going, Replying, Waiting, Ahead, Answers
<1>6. UNCHANGED <<used, prbs, open, connCells, f1, queue, wire, back>>
  BY DEF duVars, f1Vars
<1>7. Ahead(a) = {}
  BY <1>3 DEF Ahead, IInv, MessagesFit, From
<1>8. \A o \in Tasks, b \in Uus : ReleasingOn(o, b)' <=> ReleasingOn(o, b)
  BY DEF ReleasingOn, Releasing
<1>9. DuOK' /\ Linked' /\ OnceEach'
  <2>1. DuOK'
    BY <1>6 DEF IInv, DuOK, Grants, Carrying, DU!HasSession
  <2>2. Linked'
    BY <1>6 DEF IInv, Linked
  <2>3. OnceEach'
    BY <1>5, <1>6 DEF IInv, OnceEach, By
  <2> QED  BY <2>1, <2>2, <2>3
<1>10. MessagesFit'
  <2>1. ASSUME NEW s \in Sites, NEW b, From(b, s) PROVE b \in Uus \ {a} /\ From(b, s)'
    BY <1>2, <1>3, <2>1 DEF From
  <2> QED  BY <1>2, <1>5, <2>1 DEF IInv, MessagesFit
<1>11. SocketsFit'
  BY <1>1, <1>2 DEF IInv, SocketsFit
<1>12. TasksApart'
  <2>1. \A o \in Tasks \ {t} : Sockets(o)' = Sockets(o)
    BY DEF Sockets
  <2>2. \A o \in Tasks : \A b \in Sockets(o)' : uu'[b].client
    BY <1>1, <1>2, <1>4, <2>1 DEF IInv, TasksApart
  <2>3. \A o \in Tasks : src'[o] # None => src'[o] # tgt'[o]
    BY DEF IInv, TasksApart
  <2>4. \A o \in Tasks : \A p \in Tasks \ {o} : Sockets(o)' \cap Sockets(p)' = {}
    BY <1>4, <2>1 DEF IInv, TasksApart
  <2> QED  BY <2>2, <2>3, <2>4 DEF TasksApart
<1>13. StreamsInOrder'
  <2> SUFFICES ASSUME NEW b \in Uus, Live(b)' PROVE InOrder(b)'
    BY DEF StreamsInOrder
  <2>1. CASE b = a
    BY <1>1, <1>5, <1>7, <2>1 DEF InOrder
  <2>2. CASE b # a
    BY <1>2, <1>5, <2>2 DEF IInv, StreamsInOrder, Live, InOrder
  <2> QED  BY <2>1, <2>2
<1>14. TasksInOrder'
  <2> SUFFICES ASSUME NEW o \in Tasks, NEW b \in Sockets(o)', Live(b)' PROVE EndsFit(o, b)'
    BY DEF TasksInOrder
  <2>1. CASE b = a
    <3>1. o = t
      BY <1>4, <2>1 DEF Sockets
    <3>2. ~ReleasingOn(o, b)'
      BY <3>1 DEF ReleasingOn
    <3> QED  BY <1>1, <1>5, <1>7, <2>1, <3>2 DEF EndsFit
  <2>2. CASE b # a
    <3>1. b \in Sockets(o) /\ b \in Uus
      BY <1>4, <2>2 DEF Sockets
    <3>2. Live(b) /\ uu'[b] = uu[b]
      BY <1>2, <2>2, <3>1 DEF Live
    <3>3. EndsFit(o, b)
      BY <3>1, <3>2 DEF IInv, TasksInOrder
    <3> QED  BY <1>5, <1>8, <3>1, <3>2, <3>3 DEF EndsFit
  <2> QED  BY <2>1, <2>2
<1>15. ReleaseAssured'
  <2>1. ASSUME NEW b \in Uus, Bound(b) PROVE Bound(b)' /\ uu'[b] = uu[b]
    <3>1. b # a
      BY <1>3, <2>1 DEF Bound
    <3>2. \A o \in Tasks : ReleasingOn(o, b)' <=> ReleasingOn(o, b)
      BY <1>8
    <3> QED  BY <1>2, <1>5, <2>1, <3>1, <3>2 DEF Bound, Finished
  <2>2. \A v \in UEs, d \in Cells : HasOwner(v, d) => HasOwner(v, d)'
    BY <2>1 DEF HasOwner
  <2>3. \A v \in UEs, d \in Cells : ReleaseSent(v, d) => ReleaseSent(v, d)'
    BY <1>5 DEF ReleaseSent
  <2>4. \A d \in Cells : GivenUp(d) => GivenUp(d)'
    BY <1>6 DEF GivenUp
  <2> QED  BY <1>6, <2>2, <2>3, <2>4 DEF IInv, ReleaseAssured, DU!HasSession
<1> QED  BY <1>9, <1>10, <1>11, <1>12, <1>13, <1>14, <1>15 DEF IInv

LEMMA StartPreserves ==
  ASSUME IInv, NEW t \in Tasks, NEW a \in Uus, NEW c \in Cells, Start(t, a, c)
  PROVE  IInv'
<1>1. /\ proc[t] = "out" /\ uu[a] = NoUu
      /\ uu' = [uu EXCEPT ![a] = NewUu(Uid[t], c)] /\ src' = [src EXCEPT ![t] = a]
      /\ proc' = [proc EXCEPT ![t] = "attach"] /\ step' = [step EXCEPT ![t] = 1]
      /\ UNCHANGED <<tgt, duVars, f1Vars, losses>>
  BY DEF Start, IsNext
<1>2. Uid[t] \in UEs /\ 1 \in 0..Len(AttachFlow) /\ a # None
  BY UidAssumption, FlowKinds, UusAssumption
<1>3. src[t] = None /\ tgt[t] = None
  BY <1>1 DEF IInv, TypeOK
<1>4. TypeOK'
  <2>1. uu' \in [Uus -> SocketStates]
    BY <1>1, <1>2, NewSocket DEF IInv, TypeOK
  <2> QED  BY <1>1, <1>2, <1>3, <2>1 DEF IInv, TypeOK, f1Vars
<1>5. Sockets(t)' = Sockets(t) \cup {a} /\ src'[t] # tgt'[t]
  BY <1>1, <1>2, <1>3 DEF Sockets, IInv, TypeOK
<1>6. ~Releasing(t) /\ ~Releasing(t)'
  BY <1>1 DEF Releasing, IInv, TypeOK
<1> QED  BY <1>1, <1>2, <1>4, <1>5, <1>6, OpenPreserves DEF IInv, TypeOK

LEMMA HandoverPreserves ==
  ASSUME IInv, NEW t \in Tasks, NEW a \in Uus, NEW c \in Cells, Handover(t, a, c)
  PROVE  IInv'
<1>1. /\ proc[t] = "connected" /\ uu[a] = NoUu
      /\ uu' = [uu EXCEPT ![a] = NewUu(Uid[t], c)] /\ tgt' = [tgt EXCEPT ![t] = a]
      /\ proc' = [proc EXCEPT ![t] = "handover"] /\ step' = [step EXCEPT ![t] = 1]
      /\ UNCHANGED <<src, duVars, f1Vars, losses>>
  BY DEF Handover, IsNext
<1>2. Uid[t] \in UEs /\ 1 \in 0..Len(AttachFlow) /\ a # None
  BY UidAssumption, FlowKinds, UusAssumption
<1>3. src[t] \in Sockets(t) /\ tgt[t] = None /\ uu[src[t]].client
  BY <1>1, OwnSockets DEF IInv, TasksApart
<1>4. src[t] # a
  BY <1>1, <1>3 DEF NoUu
<1>5. TypeOK'
  <2>1. uu' \in [Uus -> SocketStates]
    BY <1>1, <1>2, NewSocket DEF IInv, TypeOK
  <2> QED  BY <1>1, <1>2, <1>3, <2>1 DEF IInv, TypeOK, f1Vars
<1>6. Sockets(t)' = Sockets(t) \cup {a} /\ src'[t] # tgt'[t]
  BY <1>1, <1>2, <1>3, <1>4 DEF Sockets, IInv, TypeOK
<1>7. ~Releasing(t) /\ ~Releasing(t)'
  BY <1>1 DEF Releasing, IInv, TypeOK
<1> QED  BY <1>1, <1>2, <1>5, <1>6, <1>7, OpenPreserves DEF IInv, TypeOK

-----------------------------------------------------------------------------
(* Messages *)

LEMMA SequenceTypes ==
  ASSUME IInv, NEW s \in Sites
  PROVE  /\ Going(s) \in Seq(Messages) /\ Replying(s) \in Seq(Replies)
         /\ queue[s] \in Seq(Messages)
<1>1. <<>> \in Seq(Messages) /\ <<>> \in Seq(Replies)
  OBVIOUS
<1> QED  BY <1>1 DEF IInv, TypeOK, Going, Replying

\* Radio units use links of their own.
LEMMA OwnLinks ==
  ASSUME IInv, NEW s \in Sites, f1[s] # None
  PROVE  /\ f1[s] \in Links /\ SiteOfLink[f1[s]] = s
         /\ Going(s) = wire[f1[s]] /\ Replying(s) = back[f1[s]]
         /\ \A o \in Sites \ {s} : f1[o] # f1[s]
  BY DEF IInv, TypeOK, Linked, Going, Replying

\* Everything outstanding of a socket is at its radio unit.
LEMMA AheadOf ==
  ASSUME IInv, NEW a
  PROVE  /\ \A m \in Ahead(a) : \E s \in Sites : m \in Waiting(s) /\ From(a, s)
         /\ \A r \in Answers(a) : \E s \in Sites : r \in Range(Replying(s)) /\ From(a, s)
  BY DEF IInv, MessagesFit, Ahead, Answers

LEMMA AheadAt ==
  ASSUME IInv, NEW s \in Sites, NEW a, From(a, s)
  PROVE  /\ Ahead(a) = {m \in Waiting(s) : m.uu = a}
         /\ Answers(a) = {r \in Range(Replying(s)) : r.uu = a}
<1>1. \A o \in Sites : From(a, o) => o = s
  BY DEF From
<1>2. \A m \in Ahead(a) : m \in Waiting(s)
  BY <1>1, AheadOf
<1>3. \A r \in Answers(a) : r \in Range(Replying(s))
  BY <1>1, AheadOf
<1> QED  BY <1>2, <1>3 DEF Ahead, Answers

LEMMA NothingAhead ==
  ASSUME IInv, NEW a, a \in Uus => uu[a].ru \notin {"f1", "synthetic"}
  PROVE  Ahead(a) = {} /\ Answers(a) = {}
         /\ \A s \in Sites : a \notin By(Going(s)) /\ a \notin By(queue[s])
                             /\ a \notin By(Replying(s))
<1>1. Ahead(a) = {} /\ Answers(a) = {}
  BY AheadOf DEF From
<1>2. \A s \in Sites : \A m \in Waiting(s) \cup Range(Replying(s)) : m.uu # a
  BY DEF IInv, MessagesFit, From
<1> QED  BY <1>1, <1>2 DEF By, Waiting

\* A socket that a step of the radio unit, the link or the DU does not concern.
LEMMA Unaffected ==
  ASSUME UNCHANGED ueVars, NEW b, uu'[b] = uu[b],
         Ahead(b)' = Ahead(b), Answers(b)' = Answers(b)
  PROVE  /\ Live(b)' <=> Live(b)
         /\ InOrder(b)' <=> InOrder(b)
         /\ Bound(b)' <=> Bound(b)
         /\ \A t \in Tasks : EndsFit(t, b)' <=> EndsFit(t, b)
<1>1. \A t : ReleasingOn(t, b)' <=> ReleasingOn(t, b)
  BY DEF ueVars, ReleasingOn, Releasing
<1> QED  BY <1>1 DEF Live, InOrder, Bound, Finished, EndsFit

\* F1.request puts the message behind what goes out on the link, or behind what
\* waits for one.
LEMMA RequestEffect ==
  ASSUME IInv, NEW a \in Uus, NEW kind \in Kinds, NEW s \in Sites, NEW m,
         uu[a].ue \in UEs, uu[a].cell \in Cells, s = SiteOf[uu[a].cell],
         m = Message(a, kind), Request(a, kind), UNCHANGED f1
  PROVE  /\ m \in Messages /\ m.uu = a /\ m.kind = kind
         /\ m.ue = uu[a].ue /\ m.cell = uu[a].cell
         /\ wire' \in [Links -> Seq(Messages)] /\ queue' \in [Sites -> Seq(Messages)]
         /\ \A o \in Sites \ {s} : Going(o)' = Going(o) /\ queue'[o] = queue[o]
         /\ \/ Going(s)' = Append(Going(s), m) /\ queue'[s] = queue[s]
            \/ Going(s)' = Going(s) /\ queue'[s] = Append(queue[s], m)
         /\ \A k \in Links : wire'[k] # <<>> => k \in open \/ f1[SiteOfLink[k]] = k
<1>1. /\ m \in Messages /\ m.uu = a /\ m.kind = kind
      /\ m.ue = uu[a].ue /\ m.cell = uu[a].cell
  BY DEF Message, Messages
<1>2. \A o \in Sites : f1'[o] = f1[o]
  OBVIOUS
<1>3. CASE f1[s] # None
  <2>1. wire' = [wire EXCEPT ![f1[s]] = Append(@, m)] /\ queue' = queue
    BY <1>3 DEF Request
  <2>2. /\ f1[s] \in Links /\ SiteOfLink[f1[s]] = s /\ Going(s) = wire[f1[s]]
        /\ \A o \in Sites \ {s} : f1[o] # f1[s]
    BY <1>3, OwnLinks
  <2>3. Append(wire[f1[s]], m) \in Seq(Messages)
    BY <1>1, <2>2, Appended DEF IInv, TypeOK
  <2>4. wire' \in [Links -> Seq(Messages)] /\ wire'[f1[s]] = Append(wire[f1[s]], m)
        /\ \A k \in Links \ {f1[s]} : wire'[k] = wire[k]
    BY <2>1, <2>2, <2>3 DEF IInv, TypeOK
  <2>5. \A o \in Sites : f1[o] # None => f1[o] \in Links
    BY DEF IInv, TypeOK
  <2>6. Going(s)' = Append(Going(s), m)
    BY <1>2, <1>3, <2>2, <2>4 DEF Going
  <2>7. \A o \in Sites \ {s} : Going(o)' = Going(o)
    BY <1>2, <2>2, <2>4, <2>5 DEF Going
  <2>8. ASSUME NEW k \in Links, wire'[k] # <<>>
        PROVE  k \in open \/ f1[SiteOfLink[k]] = k
    <3>1. CASE k = f1[s]
      BY <2>2, <3>1
    <3>2. CASE k # f1[s]
      BY <2>4, <2>8, <3>2 DEF IInv, Linked
    <3> QED  BY <3>1, <3>2
  <2>9. queue' \in [Sites -> Seq(Messages)]
    BY <2>1 DEF IInv, TypeOK
  <2> QED  BY <1>1, <2>1, <2>4, <2>6, <2>7, <2>8, <2>9
<1>4. CASE f1[s] = None
  <2>1. queue' = [queue EXCEPT ![s] = Append(@, m)] /\ wire' = wire
    BY <1>4 DEF Request
  <2>2. Append(queue[s], m) \in Seq(Messages)
    BY <1>1, Appended DEF IInv, TypeOK
  <2>3. queue' \in [Sites -> Seq(Messages)] /\ queue'[s] = Append(queue[s], m)
        /\ \A o \in Sites \ {s} : queue'[o] = queue[o]
    BY <2>1, <2>2 DEF IInv, TypeOK
  <2>4. \A o \in Sites : Going(o)' = Going(o)
    BY <1>2, <2>1 DEF Going
  <2> QED  BY <1>1, <2>1, <2>3, <2>4 DEF IInv, TypeOK, Linked
<1> QED  BY <1>3, <1>4

\* serve_ue makes a request, with nothing else outstanding; it may just have
\* taken the reply to the one before.
LEMMA RequestPreserves ==
  ASSUME IInv, TypeOK', NEW a \in Uus, NEW kind \in Kinds, NEW s \in Sites,
         uu[a].ue \in UEs, uu[a].cell \in Cells, s = SiteOf[uu[a].cell],
         Request(a, kind), UNCHANGED <<duVars, ueVars, f1>>,
         a \notin By(Going(s)), a \notin By(queue[s]),
         \A o \in Sites : /\ Once(Replying(o)')
                          /\ Range(Replying(o)') = {r \in Range(Replying(o)) : r.uu # a},
         \A k \in Links : back'[k] # <<>> => back[k] # <<>>,
         \A b \in Uus \ {a} : uu'[b] = uu[b],
         uu'[a].ue = uu[a].ue, uu'[a].cell = uu[a].cell, uu'[a].client = uu[a].client,
         uu'[a].ru = "f1" \/ (uu'[a].ru = "synthetic" /\ kind = "release"),
         Live(a)' => InOrder(a)' /\ \A t \in Tasks : a \in Sockets(t) => EndsFit(t, a)',
         Bound(a) => kind = "release" \/ Bound(a)'
  PROVE  IInv'
<1> DEFINE m == Message(a, kind)
<1>1. /\ m \in Messages /\ m.uu = a /\ m.kind = kind
      /\ m.ue = uu[a].ue /\ m.cell = uu[a].cell
      /\ \A o \in Sites \ {s} : Going(o)' = Going(o) /\ queue'[o] = queue[o]
      /\ \/ Going(s)' = Append(Going(s), m) /\ queue'[s] = queue[s]
         \/ Going(s)' = Going(s) /\ queue'[s] = Append(queue[s], m)
      /\ \A k \in Links : wire'[k] # <<>> => k \in open \/ f1[SiteOfLink[k]] = k
  BY RequestEffect
<1> HIDE DEF m
<1>2. UNCHANGED <<used, prbs, open, connCells, proc, step, src, tgt, f1>>
  BY DEF duVars, ueVars
<1>3. /\ Range(Append(Going(s), m)) = Range(Going(s)) \cup {m}
      /\ By(Append(Going(s), m)) = By(Going(s)) \cup {a}
      /\ Once(Append(Going(s), m))
      /\ Range(Append(queue[s], m)) = Range(queue[s]) \cup {m}
      /\ By(Append(queue[s], m)) = By(queue[s]) \cup {a}
      /\ Once(Append(queue[s], m))
  <2>1. Going(s) \in Seq(Messages) /\ queue[s] \in Seq(Messages)
    BY SequenceTypes
  <2>2. Once(Going(s)) /\ Once(queue[s])
    BY DEF IInv, OnceEach
  <2>3. ASSUME NEW q \in Seq(Messages), Once(q), a \notin By(q)
        PROVE  /\ Range(Append(q, m)) = Range(q) \cup {m}
               /\ By(Append(q, m)) = By(q) \cup {a}
               /\ Once(Append(q, m))
    <3>1. m \in Messages /\ m.uu = a
      BY <1>1
    <3> QED  BY <2>3, <3>1, Appended
  <2>4. a \notin By(Going(s)) /\ a \notin By(queue[s])
    OBVIOUS
  <2>5. /\ Range(Append(Going(s), m)) = Range(Going(s)) \cup {m}
        /\ By(Append(Going(s), m)) = By(Going(s)) \cup {a}
        /\ Once(Append(Going(s), m))
    BY <2>1, <2>2, <2>3, <2>4
  <2>6. /\ Range(Append(queue[s], m)) = Range(queue[s]) \cup {m}
        /\ By(Append(queue[s], m)) = By(queue[s]) \cup {a}
        /\ Once(Append(queue[s], m))
    BY <2>1, <2>2, <2>3, <2>4
  <2> QED  BY <2>5, <2>6
<1>4. \A o \in Sites : By(Replying(o)') = By(Replying(o)) \ {a}
  BY DEF By
<1>5. /\ Waiting(s)' = Waiting(s) \cup {m}
      /\ \A o \in Sites \ {s} : Waiting(o)' = Waiting(o)
  BY <1>1, <1>3 DEF Waiting
<1>6. OnceEach'
  <2> SUFFICES ASSUME NEW o \in Sites
               PROVE  /\ Once(Going(o)') /\ Once(Replying(o)') /\ Once(queue'[o])
                      /\ By(Going(o)') \cap By(Replying(o)') = {}
                      /\ By(Going(o)') \cap By(queue'[o]) = {}
                      /\ By(Replying(o)') \cap By(queue'[o]) = {}
    BY DEF OnceEach
  <2>1. /\ Once(Going(o)) /\ Once(Replying(o)) /\ Once(queue[o])
        /\ By(Going(o)) \cap By(Replying(o)) = {}
        /\ By(Going(o)) \cap By(queue[o]) = {}
        /\ By(Replying(o)) \cap By(queue[o]) = {}
    BY DEF IInv, OnceEach
  <2>2. By(Replying(o)') = By(Replying(o)) \ {a}
    BY <1>4
  <2>3. CASE o # s
    BY <1>1, <2>1, <2>2, <2>3
  <2>4. CASE o = s
    <3>1. /\ a \notin By(Replying(s)') /\ Once(Replying(s)')
          /\ By(Replying(s)') \cap By(Going(s)) = {}
          /\ By(Replying(s)') \cap By(queue[s]) = {}
      BY <2>1, <2>2, <2>4
    <3>2. /\ By(Going(s)) \cap By(queue[s]) = {} /\ Once(Going(s)) /\ Once(queue[s])
      BY <2>1, <2>4
    <3>3. CASE Going(s)' = Append(Going(s), m) /\ queue'[s] = queue[s]
      <4>1. By(Going(s)') = By(Going(s)) \cup {a} /\ Once(Going(s)')
        BY <1>3, <3>3
      <4>2. /\ By(Going(s)') \cap By(Replying(s)') = {}
            /\ By(Going(s)') \cap By(queue'[s]) = {}
        BY <3>1, <3>2, <3>3, <4>1
      <4> QED  BY <2>4, <3>1, <3>2, <3>3, <4>1, <4>2
    <3>4. CASE Going(s)' = Going(s) /\ queue'[s] = Append(queue[s], m)
      <4>1. By(queue'[s]) = By(queue[s]) \cup {a} /\ Once(queue'[s])
        BY <1>3, <3>4
      <4>2. /\ By(Going(s)') \cap By(queue'[s]) = {}
            /\ By(Replying(s)') \cap By(queue'[s]) = {}
        BY <3>1, <3>2, <3>4, <4>1
      <4> QED  BY <2>4, <3>1, <3>2, <3>4, <4>1, <4>2
    <3> QED  BY <1>1, <3>3, <3>4
  <2> QED  BY <2>3, <2>4
<1>7. MessagesFit'
  <2>1. ASSUME NEW o \in Sites, NEW b, b # a, From(b, o) PROVE From(b, o)' /\ uu'[b] = uu[b]
    BY <2>1 DEF From
  <2>2. \A o \in Sites : \A n \in Waiting(o) : n.uu # a
    <3>1. \A o \in Sites : \A n : n \in Waiting(o) /\ n.uu = a => o = s
      BY DEF IInv, MessagesFit, From
    <3> QED  BY <3>1 DEF Waiting, By
  <2>3. From(a, s)'
    BY DEF From
  <2>4. ASSUME NEW o \in Sites, NEW n \in Waiting(o)'
        PROVE  /\ From(n.uu, o)' /\ n.ue = uu'[n.uu].ue /\ n.cell = uu'[n.uu].cell
               /\ uu'[n.uu].ru = "synthetic" => n.kind = "release"
    <3>1. CASE n = m /\ o = s
      BY <1>1, <2>3, <3>1
    <3>2. CASE n \in Waiting(o)
      BY <2>1, <2>2, <3>2 DEF IInv, MessagesFit
    <3> QED  BY <1>5, <2>4, <3>1, <3>2
  <2>5. ASSUME NEW o \in Sites, NEW r \in Range(Replying(o)') PROVE From(r.uu, o)'
    <3>1. r \in Range(Replying(o)) /\ r.uu # a
      OBVIOUS
    <3> QED  BY <2>1, <3>1 DEF IInv, MessagesFit
  <2> QED  BY <2>4, <2>5 DEF MessagesFit
<1>8. \A b \in Uus \ {a} : Ahead(b)' = Ahead(b) /\ Answers(b)' = Answers(b)
  <2> SUFFICES ASSUME NEW b \in Uus \ {a}
               PROVE  Ahead(b)' = Ahead(b) /\ Answers(b)' = Answers(b)
    OBVIOUS
  <2>1. \A o \in Sites : \A n : n.uu = b => (n \in Waiting(o)' <=> n \in Waiting(o))
    BY <1>1, <1>5
  <2>2. \A o \in Sites : \A r : r.uu = b => (r \in Range(Replying(o)') <=> r \in Range(Replying(o)))
    OBVIOUS
  <2> QED  BY <2>1, <2>2 DEF Ahead, Answers
<1>9. \A o \in Tasks : Sockets(o)' = Sockets(o) /\ Sockets(o) \subseteq Uus
  BY <1>2 DEF Sockets, IInv, TypeOK
<1>10. DuOK'
  BY <1>2 DEF IInv, DuOK, Grants, Carrying, DU!HasSession
<1>11. TasksApart'
  BY <1>2, <1>9 DEF IInv, TasksApart
<1>12. SocketsFit'
  BY DEF IInv, SocketsFit
<1>13. Linked'
  <2>1. \A k \in Links : back'[k] # <<>> => f1'[SiteOfLink[k]] = k
    BY <1>2 DEF IInv, Linked
  <2>2. \A k \in Links : \A o \in Sites : f1'[o] = k => SiteOfLink[k] = o
    BY <1>2 DEF IInv, Linked
  <2> QED  BY <1>1, <1>2, <2>1, <2>2 DEF Linked
<1>14. StreamsInOrder'
  BY <1>8, Unaffected DEF IInv, StreamsInOrder
<1>15. TasksInOrder'
  BY <1>8, <1>9, Unaffected DEF IInv, TasksInOrder
<1>16. ReleaseAssured'
  <2> SUFFICES ASSUME NEW u \in UEs, NEW c \in Cells, DU!HasSession(u, c)'
               PROVE  HasOwner(u, c)' \/ ReleaseSent(u, c)' \/ GivenUp(c)'
    BY DEF ReleaseAssured
  <2>1. HasOwner(u, c) \/ ReleaseSent(u, c) \/ GivenUp(c)
    BY <1>2 DEF IInv, ReleaseAssured, DU!HasSession
  <2>2. CASE HasOwner(u, c)
    <3>1. PICK b \in Uus : uu[b].ue = u /\ uu[b].cell = c /\ Bound(b)
      BY <2>2 DEF HasOwner
    <3>2. CASE b # a
      BY <1>8, <3>1, <3>2, Unaffected DEF HasOwner
    <3>3. CASE b = a /\ kind = "release"
      <4>1. m.ue = u /\ m.cell = c /\ m.kind = "release" /\ m \in Waiting(s)'
        BY <1>1, <1>5, <3>1, <3>3
      <4> QED  BY <4>1 DEF ReleaseSent
    <3>4. CASE b = a /\ Bound(a)'
      BY <3>1, <3>4 DEF HasOwner
    <3> QED  BY <3>1, <3>2, <3>3, <3>4
  <2>3. CASE ReleaseSent(u, c)
    BY <1>5, <2>3 DEF ReleaseSent
  <2>4. CASE GivenUp(c)
    BY <1>2, <2>4 DEF GivenUp
  <2> QED  BY <2>1, <2>2, <2>3, <2>4
<1> QED  BY <1>6, <1>7, <1>10, <1>11, <1>12, <1>13, <1>14, <1>15, <1>16 DEF IInv

LEMMA ShortenedUp ==
  ASSUME NEW up \in Seq(Kinds), up # <<>>, NEW rest, rest = Tail(up)
  PROVE  /\ rest \in Seq(Kinds) /\ Head(up) \in Kinds /\ Head(up) = up[1]
         /\ Len(rest) = Len(up) - 1 /\ Len(up) \in Nat \ {0}
         /\ \A i \in 1..Len(rest) : rest[i] = up[i+1] /\ i+1 \in 1..Len(up)
         /\ rest # <<>> => rest[Len(rest)] = up[Len(up)]
         /\ rest = <<>> => Len(up) = 1
         /\ rest # <<>> => 2 \in 1..Len(up) /\ rest[1] = up[2]
         /\ Range(rest) \subseteq Range(up) /\ up[1] \in Range(up)
<1>1. /\ rest \in Seq(Kinds) /\ Head(up) \in Kinds /\ Head(up) = up[1]
      /\ Len(rest) = Len(up) - 1 /\ Len(up) \in Nat \ {0} /\ DOMAIN up = 1..Len(up)
      /\ \A i \in 1..Len(rest) : rest[i] = up[i+1] /\ i+1 \in 1..Len(up)
      /\ rest = <<>> <=> Len(rest) = 0
  <2> DEFINE p == Tail(up)
  <2>1. /\ p \in Seq(Kinds) /\ Head(up) \in Kinds /\ Head(up) = up[1]
        /\ Len(p) = Len(up) - 1 /\ Len(up) \in Nat \ {0} /\ DOMAIN up = 1..Len(up)
        /\ \A i \in 1..Len(up)-1 : p[i] = up[i+1] /\ i+1 \in 1..Len(up)
    OBVIOUS
  <2> HIDE DEF p
  <2>2. p = <<>> <=> Len(p) = 0
    BY <2>1
  <2>3. rest = p
    BY DEF p
  <2> QED  BY <2>1, <2>2, <2>3
<1>2. Range(rest) \subseteq Range(up) /\ up[1] \in Range(up)
  <2>1. DOMAIN rest = 1..Len(rest)
    BY <1>1
  <2> QED  BY <1>1, <2>1 DEF Range
<1> QED  BY <1>1, <1>2

LEMMA PassedSocket ==
  ASSUME NEW s \in SocketStates, Tail(s.up) \in Seq(Kinds)
  PROVE  /\ Passed(s) \in SocketStates
         /\ Passed(s).up = Tail(s.up) /\ Passed(s).ru = "f1"
         /\ Passed(s).ue = s.ue /\ Passed(s).cell = s.cell /\ Passed(s).client = s.client
  BY DEF SocketStates, Passed

LEMMA UplinkPreserves ==
  ASSUME IInv, NEW a \in Uus, Uplink(a)
  PROVE  IInv'
<1>1. uu[a] \in SocketStates /\ uu[a].up \in Seq(Kinds)
  BY DEF IInv, TypeOK, SocketStates
<1>2. PICK up, kind, rest, m :
        /\ up = uu[a].up /\ kind = Head(up) /\ rest = Tail(up) /\ m = Message(a, kind)
  OBVIOUS
<1>3. /\ uu[a].ru \in {"new", "recv"} /\ up # <<>> /\ Request(a, kind)
      /\ uu' = [uu EXCEPT ![a] = Passed(@)]
      /\ UNCHANGED <<duVars, ueVars, f1, back, losses>>
  BY <1>2 DEF Uplink
<1>4. /\ rest \in Seq(Kinds) /\ kind \in Kinds /\ kind = up[1]
      /\ Len(rest) = Len(up) - 1 /\ Len(up) \in Nat \ {0}
      /\ \A i \in 1..Len(rest) : rest[i] = up[i+1] /\ i+1 \in 1..Len(up)
      /\ rest # <<>> => rest[Len(rest)] = up[Len(up)]
      /\ rest = <<>> => Len(up) = 1
      /\ rest # <<>> => 2 \in 1..Len(up) /\ rest[1] = up[2]
      /\ Range(rest) \subseteq Range(up) /\ up[1] \in Range(up)
  BY <1>1, <1>2, <1>3, ShortenedUp
<1>5. /\ uu'[a].up = rest /\ uu'[a].ru = "f1" /\ uu'[a].ue = uu[a].ue
      /\ uu'[a].cell = uu[a].cell /\ uu'[a].client = uu[a].client
      /\ uu'[a] \in SocketStates
      /\ \A b \in Uus \ {a} : uu'[b] = uu[b]
  <2>1. Tail(uu[a].up) \in Seq(Kinds) /\ rest = Tail(uu[a].up)
    BY <1>2, <1>4
  <2> QED  BY <1>1, <1>3, <2>1, PassedSocket DEF IInv, TypeOK
<1>6. uu[a].ue \in UEs /\ uu[a].cell \in Cells
  BY <1>2, <1>3 DEF IInv, SocketsFit
<1>7. PICK s \in Sites : s = SiteOf[uu[a].cell]
  BY <1>2, <1>6, SitesAssumption
<1>8. /\ m \in Messages /\ m.uu = a /\ m.kind = kind
      /\ wire' \in [Links -> Seq(Messages)] /\ queue' \in [Sites -> Seq(Messages)]
      /\ \A o \in Sites \ {s} : Going(o)' = Going(o) /\ queue'[o] = queue[o]
      /\ \/ Going(s)' = Append(Going(s), m) /\ queue'[s] = queue[s]
         \/ Going(s)' = Going(s) /\ queue'[s] = Append(queue[s], m)
  <2>1. kind \in Kinds /\ Request(a, kind) /\ UNCHANGED f1
    BY <1>2, <1>3, <1>4
  <2>2. m = Message(a, kind)
    BY <1>2
  <2> QED  BY <1>2, <1>6, <1>7, <2>1, <2>2, RequestEffect
<1>9. /\ Ahead(a) = {} /\ Answers(a) = {}
      /\ \A o \in Sites : a \notin By(Going(o)) /\ a \notin By(queue[o])
                          /\ a \notin By(Replying(o))
  BY <1>2, <1>3, NothingAhead
<1>10. TypeOK'
  <2>1. uu' \in [Uus -> SocketStates]
    BY <1>2, <1>3, <1>5 DEF IInv, TypeOK
  <2> QED  BY <1>2, <1>3, <1>8, <2>1 DEF IInv, TypeOK, ueVars
<1>11. Ahead(a)' = {m} /\ Answers(a)' = {}
  <2>1. Going(s) \in Seq(Messages) /\ queue[s] \in Seq(Messages)
    BY SequenceTypes
  <2>2. /\ Range(Append(Going(s), m)) = Range(Going(s)) \cup {m}
        /\ Range(Append(queue[s], m)) = Range(queue[s]) \cup {m}
    BY <1>8, <2>1, Appended
  <2>3. Waiting(s)' = Waiting(s) \cup {m} /\ \A o \in Sites \ {s} : Waiting(o)' = Waiting(o)
    BY <1>8, <2>2 DEF Waiting
  <2>4. \A o \in Sites : \A n \in Waiting(o) : n.uu # a
    BY <1>9 DEF Waiting, By
  <2>5. \A o \in Sites : Replying(o)' = Replying(o)
    BY <1>3 DEF Replying
  <2>6. \A o \in Sites : \A n \in Waiting(o)' : n.uu = a => n = m
    BY <2>3, <2>4
  <2>7. m \in Waiting(s)' /\ m.uu = a
    BY <1>8, <2>3
  <2>8. Ahead(a)' = {m}
    BY <2>6, <2>7 DEF Ahead
  <2>9. Answers(a)' = Answers(a)
    BY <2>5 DEF Answers
  <2> QED  BY <1>9, <2>8, <2>9
<1>12. InOrder(a)'
  <2>1. InOrder(a)
    BY <1>2, <1>3 DEF IInv, StreamsInOrder, Live
  <2>2. ASSUME NEW i \in 1..Len(rest), NEW j \in 1..Len(rest), j = i + 1
        PROVE  /\ rest[i] \in Ends => rest[j] \in Ends
               /\ rest[j] = "complete" => rest[i] \in Ends
    <3>1. /\ rest[i] = up[i+1] /\ rest[j] = up[j+1] /\ i+1 \in 1..Len(up)
          /\ j+1 \in 1..Len(up) /\ j+1 = (i+1)+1
      BY <1>2, <1>4, <2>2
    <3> QED  BY <1>2, <2>1, <3>1 DEF InOrder
  <2>3. rest # <<>> => /\ kind \in Ends => rest[1] \in Ends
                       /\ rest[1] = "complete" => kind \in Ends
    <3> SUFFICES ASSUME rest # <<>> PROVE /\ up[1] \in Ends => up[2] \in Ends
                                          /\ up[2] = "complete" => up[1] \in Ends
      BY <1>2, <1>4
    <3>1. 1 \in 1..Len(up) /\ 2 \in 1..Len(up) /\ 2 = 1 + 1
      BY <1>2, <1>4
    <3> QED  BY <1>2, <2>1, <3>1 DEF InOrder
  <2>4. uu'[a].up = rest /\ \A n \in Ahead(a)' : n.kind = kind
    BY <1>2, <1>5, <1>8, <1>11
  <2> QED  BY <1>2, <2>2, <2>3, <2>4 DEF InOrder
<1>13. ASSUME NEW t \in Tasks, a \in Sockets(t) PROVE EndsFit(t, a)'
  <2>1. EndsFit(t, a)
    BY <1>2, <1>3, <1>13 DEF IInv, TasksInOrder, Live
  <2>2. ReleasingOn(t, a)' <=> ReleasingOn(t, a)
    BY <1>2, <1>3 DEF ueVars, ReleasingOn, Releasing
  <2>3. CASE ReleasingOn(t, a)
    <3>1. up[Len(up)] \in Ends
      BY <1>2, <1>3, <2>1, <2>3 DEF EndsFit
    <3>2. rest # <<>> => rest[Len(rest)] \in Ends
      BY <1>2, <1>4, <3>1
    <3>3. rest = <<>> => kind \in Ends
      BY <1>2, <1>4, <3>1
    <3> QED  BY <1>2, <1>5, <1>8, <1>11, <2>2, <2>3, <3>2, <3>3 DEF EndsFit
  <2>4. CASE ~ReleasingOn(t, a)
    BY <1>2, <1>4, <1>5, <1>8, <1>11, <2>1, <2>2, <2>4 DEF EndsFit
  <2> QED  BY <1>2, <2>3, <2>4
<1>14. Bound(a) => Bound(a)'
  BY <1>2, <1>3, <1>4, <1>5, <1>8, <1>9, <1>11 DEF Bound, Finished
<1>15. \A o \in Sites : /\ Once(Replying(o)')
                        /\ Range(Replying(o)') = {r \in Range(Replying(o)) : r.uu # a}
  <2>1. \A o \in Sites : Replying(o)' = Replying(o)
    BY <1>2, <1>3 DEF Replying
  <2> QED  BY <1>2, <1>9, <2>1 DEF IInv, OnceEach, By
<1> QED  BY <1>3, <1>4, <1>5, <1>6, <1>7, <1>9, <1>10, <1>12, <1>13, <1>14, <1>15,
            RequestPreserves

\* serve_ue asks for the release itself.
LEMMA EndingSocket ==
  ASSUME NEW s \in SocketStates
  PROVE  /\ Ending(s) \in SocketStates /\ Ending(s).ru = "synthetic"
         /\ Ending(s).ue = s.ue /\ Ending(s).cell = s.cell /\ Ending(s).client = s.client
<1>1. <<>> \in Seq(Kinds)
  OBVIOUS
<1> QED  BY <1>1 DEF SocketStates, Ending

LEMMA FinallyPreserves ==
  ASSUME IInv, NEW a \in Uus, NEW s \in Sites,
         uu[a].ue \in UEs, uu[a].cell \in Cells, s = SiteOf[uu[a].cell],
         Finally(a), UNCHANGED <<duVars, ueVars, f1, losses>>,
         a \notin By(Going(s)), a \notin By(queue[s]),
         back' \in [Links -> Seq(Replies)],
         \A o \in Sites : /\ Once(Replying(o)')
                          /\ Range(Replying(o)') = {r \in Range(Replying(o)) : r.uu # a},
         \A k \in Links : back'[k] # <<>> => back[k] # <<>>
  PROVE  IInv'
<1>1. uu[a] \in SocketStates /\ "release" \in Kinds
  BY DEF IInv, TypeOK, Kinds
<1>2. Request(a, "release") /\ uu' = [uu EXCEPT ![a] = Ending(@)]
  BY DEF Finally
<1>3. /\ uu'[a].ru = "synthetic" /\ uu'[a].ue = uu[a].ue /\ uu'[a].cell = uu[a].cell
      /\ uu'[a].client = uu[a].client
      /\ uu' \in [Uus -> SocketStates]
      /\ \A b \in Uus \ {a} : uu'[b] = uu[b]
  BY <1>1, <1>2, EndingSocket DEF IInv, TypeOK
<1>4. wire' \in [Links -> Seq(Messages)] /\ queue' \in [Sites -> Seq(Messages)]
  BY <1>1, <1>2, RequestEffect
<1>5. TypeOK'
  BY <1>3, <1>4 DEF IInv, TypeOK, ueVars
<1>6. ~Live(a)'
  BY <1>3 DEF Live
<1> QED  BY <1>1, <1>2, <1>3, <1>5, <1>6, RequestPreserves

\* serve_ue moves on without a request: what was outstanding of it is no more.
LEMMA AwaitPreserves ==
  ASSUME IInv, TypeOK', NEW a \in Uus,
         UNCHANGED <<duVars, ueVars, f1, queue, wire>>,
         \A b \in Uus \ {a} : uu'[b] = uu[b], Ahead(a) = {},
         \A o \in Sites : /\ Once(Replying(o)')
                          /\ Range(Replying(o)') = {r \in Range(Replying(o)) : r.uu # a},
         \A k \in Links : back'[k] # <<>> => back[k] # <<>>,
         uu'[a].ru # "unopened", uu'[a].client <=> uu[a].client,
         uu'[a].client \/ uu'[a].ru # "closed" =>
           uu'[a].ue \in UEs /\ uu'[a].cell \in Cells,
         Live(a)' => InOrder(a)' /\ \A t \in Tasks : a \in Sockets(t) => EndsFit(t, a)',
         Bound(a) => Bound(a)' /\ uu'[a].ue = uu[a].ue /\ uu'[a].cell = uu[a].cell
  PROVE  IInv'
<1>1. UNCHANGED <<used, prbs, open, connCells, proc, step, src, tgt, f1, queue, wire>>
  BY DEF duVars, ueVars
<1>2. \A o : Going(o)' = Going(o) /\ Waiting(o)' = Waiting(o)
  BY <1>1 DEF Going, Waiting
<1>3. \A b : Ahead(b)' = Ahead(b)
  BY <1>2 DEF Ahead
<1>4. ASSUME NEW b \in Uus \ {a} PROVE Answers(b)' = Answers(b)
  BY <1>4 DEF Answers
<1>5. \A o \in Sites : By(Replying(o)') \subseteq By(Replying(o))
  BY DEF By
<1>6. OnceEach'
  BY <1>1, <1>2, <1>5 DEF IInv, OnceEach, By
<1>7. MessagesFit'
  <2>1. ASSUME NEW o \in Sites, NEW b, b # a, From(b, o) PROVE From(b, o)' /\ uu'[b] = uu[b]
    BY <2>1 DEF From
  <2>2. \A o \in Sites : \A n \in Waiting(o) : n.uu # a
    BY DEF Ahead
  <2>3. ASSUME NEW o \in Sites, NEW n \in Waiting(o)'
        PROVE  /\ From(n.uu, o)' /\ n.ue = uu'[n.uu].ue /\ n.cell = uu'[n.uu].cell
               /\ uu'[n.uu].ru = "synthetic" => n.kind = "release"
    BY <1>2, <2>1, <2>2, <2>3 DEF IInv, MessagesFit
  <2>4. ASSUME NEW o \in Sites, NEW r \in Range(Replying(o)') PROVE From(r.uu, o)'
    <3>1. r \in Range(Replying(o)) /\ r.uu # a
      OBVIOUS
    <3> QED  BY <2>1, <3>1 DEF IInv, MessagesFit
  <2> QED  BY <2>3, <2>4 DEF MessagesFit
<1>8. \A o \in Tasks : Sockets(o)' = Sockets(o) /\ Sockets(o) \subseteq Uus
  BY <1>1 DEF Sockets, IInv, TypeOK
<1>9. DuOK'
  BY <1>1 DEF IInv, DuOK, Grants, Carrying, DU!HasSession
<1>10. TasksApart'
  BY <1>1, <1>8 DEF IInv, TasksApart
<1>11. SocketsFit'
  BY DEF IInv, SocketsFit
<1>12. Linked'
  BY <1>1 DEF IInv, Linked
<1>13. StreamsInOrder'
  BY <1>3, <1>4, Unaffected DEF IInv, StreamsInOrder
<1>14. TasksInOrder'
  BY <1>3, <1>4, <1>8, Unaffected DEF IInv, TasksInOrder
<1>15. ReleaseAssured'
  <2> SUFFICES ASSUME NEW u \in UEs, NEW c \in Cells, DU!HasSession(u, c)'
               PROVE  HasOwner(u, c)' \/ ReleaseSent(u, c)' \/ GivenUp(c)'
    BY DEF ReleaseAssured
  <2>1. HasOwner(u, c) \/ ReleaseSent(u, c) \/ GivenUp(c)
    BY <1>1 DEF IInv, ReleaseAssured, DU!HasSession
  <2>2. CASE HasOwner(u, c)
    <3>1. PICK b \in Uus : uu[b].ue = u /\ uu[b].cell = c /\ Bound(b)
      BY <2>2 DEF HasOwner
    <3>2. CASE b # a
      BY <1>3, <1>4, <3>1, <3>2, Unaffected DEF HasOwner
    <3>3. CASE b = a
      BY <3>1, <3>3 DEF HasOwner
    <3> QED  BY <3>2, <3>3
  <2>3. CASE ReleaseSent(u, c)
    BY <1>2, <2>3 DEF ReleaseSent
  <2>4. CASE GivenUp(c)
    BY <1>1, <2>4 DEF GivenUp
  <2> QED  BY <2>1, <2>2, <2>3, <2>4
<1> QED  BY <1>6, <1>7, <1>9, <1>10, <1>11, <1>12, <1>13, <1>14, <1>15 DEF IInv

LEMMA HangupPreserves ==
  ASSUME IInv, NEW a \in Uus, Hangup(a) \/ RequestFailed(a)
  PROVE  IInv'
<1>1. /\ uu[a].ru \in {"new", "recv", "failed"}
      /\ UNCHANGED <<duVars, ueVars, f1, back, losses>>
  BY DEF Hangup, RequestFailed
<1>2. uu[a].ue \in UEs /\ uu[a].cell \in Cells
  BY <1>1 DEF IInv, SocketsFit
<1>3. PICK s \in Sites : s = SiteOf[uu[a].cell]
  BY <1>2, SitesAssumption
<1>4. /\ Ahead(a) = {} /\ Answers(a) = {}
      /\ \A o \in Sites : a \notin By(Going(o)) /\ a \notin By(queue[o])
                          /\ a \notin By(Replying(o))
  BY <1>1, NothingAhead
<1>5. \A o \in Sites : /\ Once(Replying(o)')
                       /\ Range(Replying(o)') = {r \in Range(Replying(o)) : r.uu # a}
  <2>1. \A o \in Sites : Replying(o)' = Replying(o)
    BY <1>1 DEF Replying
  <2> QED  BY <1>4, <2>1 DEF IInv, OnceEach, By
<1>6. CASE Finally(a)
  <2>1. back' \in [Links -> Seq(Replies)]
    BY <1>1 DEF IInv, TypeOK
  <2> QED  BY <1>1, <1>2, <1>3, <1>4, <1>5, <1>6, <2>1, FinallyPreserves
<1>7. CASE ~uu[a].client /\ uu[a].ru = "new" /\ uu' = [uu EXCEPT ![a] = GoneUu]
           /\ UNCHANGED <<queue, wire>>
  <2>1. /\ uu'[a] = GoneUu /\ \A b \in Uus \ {a} : uu'[b] = uu[b]
        /\ uu' \in [Uus -> SocketStates]
    BY <1>7, SocketTypes DEF IInv, TypeOK
  <2>2. TypeOK'
    BY <1>1, <1>7, <2>1 DEF IInv, TypeOK, ueVars
  <2>3. ~uu'[a].client /\ uu'[a].ru = "closed"
    BY <2>1 DEF GoneUu, NoUu
  <2>4. ~Live(a)' /\ ~Bound(a)
    BY <1>7, <2>3 DEF Live, Bound
  <2> QED  BY <1>1, <1>4, <1>5, <1>7, <2>1, <2>2, <2>3, <2>4, AwaitPreserves
<1> QED  BY <1>6, <1>7 DEF Hangup, RequestFailed

\* What relaying a reply does to a socket.
LEMMA AtAwaitSocket ==
  ASSUME NEW s \in SocketStates,
         NEW await \in {"recv", "failed", "closed"}
  PROVE  /\ AtAwait(s, await) \in SocketStates
         /\ AtAwait(s, await).ru = await
         /\ AtAwait(s, await).client = s.client
         /\ \/ ~s.client /\ await = "closed" /\ AtAwait(s, await) = GoneUu
            \/ /\ s.client \/ await # "closed"
               /\ AtAwait(s, await).ue = s.ue /\ AtAwait(s, await).cell = s.cell
               /\ AtAwait(s, await).up = s.up
<1> DEFINE r == [s EXCEPT !.ru = await]
<1>1. r \in SocketStates /\ r.ru = await /\ r.client = s.client /\ r.ue = s.ue
      /\ r.cell = s.cell /\ r.up = s.up /\ s.client \in BOOLEAN
  BY DEF SocketStates
<1>2. AtAwait(s, await) = IF ~r.client /\ r.ru = "closed" THEN GoneUu ELSE r
  BY DEF AtAwait, Reaped
<1>3. GoneUu.ru = "closed" /\ GoneUu.client = FALSE
  BY DEF GoneUu, NoUu
<1> HIDE DEF r
<1> QED  BY <1>1, <1>2, <1>3, SocketTypes

LEMMA RepliedSocket ==
  ASSUME NEW s \in SocketStates, NEW r \in Replies
  PROVE  /\ Replied(s, r) \in SocketStates
         /\ Replied(s, r).ru = s.ru /\ Replied(s, r).client = s.client
         /\ Replied(s, r).ue = s.ue /\ Replied(s, r).cell = s.cell
         /\ Replied(s, r).up = s.up
<1>1. Append(s.down, [kind |-> r.kind, ok |-> r.ok]) \in Seq([kind : Kinds, ok : BOOLEAN])
  <2>1. [kind |-> r.kind, ok |-> r.ok] \in [kind : Kinds, ok : BOOLEAN]
    BY DEF Replies
  <2>2. s.down \in Seq([kind : Kinds, ok : BOOLEAN])
    BY DEF SocketStates
  <2> QED  BY <2>1, <2>2
<1> QED  BY <1>1 DEF Replied, SocketStates

LEMMA ReplyPreserves ==
  ASSUME IInv, NEW s \in Sites, Reply(s)
  PROVE  IInv'
<1>1. f1[s] # None /\ back[f1[s]] # <<>>
      /\ UNCHANGED <<duVars, ueVars, f1, losses>>
      /\ back' = [back EXCEPT ![f1[s]] = Tail(@)]
  BY DEF Reply
<1>2. /\ f1[s] \in Links /\ Replying(s) = back[f1[s]]
      /\ \A o \in Sites \ {s} : f1[o] # f1[s]
  BY <1>1, OwnLinks
<1>3. Replying(s) \in Seq(Replies) /\ Replying(s) # <<>> /\ Once(Replying(s))
  BY <1>1, <1>2, SequenceTypes DEF IInv, OnceEach
<1>4. PICK r : r = Head(Replying(s))
  OBVIOUS
<1>5. PICK a : a = r.uu
  OBVIOUS
<1>6. /\ r \in Replies /\ r \in Range(Replying(s)) /\ a \in By(Replying(s))
      /\ Tail(Replying(s)) \in Seq(Replies)
      /\ Once(Tail(Replying(s)))
      /\ Range(Tail(Replying(s))) = {n \in Range(Replying(s)) : n.uu # a}
  BY <1>3, <1>4, <1>5, HeadTail
<1>7. /\ back' \in [Links -> Seq(Replies)] /\ back'[f1[s]] = Tail(Replying(s))
      /\ \A k \in Links \ {f1[s]} : back'[k] = back[k]
  BY <1>1, <1>2, <1>6 DEF IInv, TypeOK
<1>8. Replying(s)' = Tail(Replying(s)) /\ \A o \in Sites \ {s} : Replying(o)' = Replying(o)
  <2>1. \A o \in Sites : f1[o] # None => f1[o] \in Links
    BY DEF IInv, TypeOK
  <2> QED  BY <1>1, <1>2, <1>7, <2>1 DEF Replying
<1>9. From(a, s)
  BY <1>5, <1>6 DEF IInv, MessagesFit
<1>10. a \in Uus /\ uu[a].ru \in {"f1", "synthetic"} /\ s = SiteOf[uu[a].cell]
       /\ uu[a].ue \in UEs /\ uu[a].cell \in Cells /\ uu[a] \in SocketStates
  BY <1>9 DEF From, IInv, SocketsFit, TypeOK
<1>11. a \notin By(Going(s)) /\ a \notin By(queue[s])
  BY <1>6 DEF IInv, OnceEach
<1>12. Ahead(a) = {}
  BY <1>9, <1>11, AheadAt DEF Waiting, By
<1>13. \A o \in Sites : /\ Once(Replying(o)')
                        /\ Range(Replying(o)') = {n \in Range(Replying(o)) : n.uu # a}
  <2> SUFFICES ASSUME NEW o \in Sites
               PROVE  /\ Once(Replying(o)')
                      /\ Range(Replying(o)') = {n \in Range(Replying(o)) : n.uu # a}
    OBVIOUS
  <2>1. CASE o = s
    BY <1>6, <1>8, <2>1
  <2>2. CASE o # s
    <3>1. ~From(a, o)
      BY <1>9, <2>2 DEF From
    <3>2. \A n \in Range(Replying(o)) : n.uu # a
      BY <3>1 DEF IInv, MessagesFit
    <3> QED  BY <1>8, <2>2, <3>2 DEF IInv, OnceEach
  <2> QED  BY <2>1, <2>2
<1>14. \A k \in Links : back'[k] # <<>> => back[k] # <<>>
  BY <1>1, <1>7
<1>15. CASE Finally(a)
  BY <1>1, <1>7, <1>10, <1>11, <1>13, <1>14, <1>15, FinallyPreserves
<1>16. ASSUME UNCHANGED <<queue, wire>>, uu' \in [Uus -> SocketStates] PROVE TypeOK'
  BY <1>1, <1>7, <1>16 DEF IInv, TypeOK, ueVars
<1>17. CASE uu[a].ru = "synthetic" /\ uu' = [uu EXCEPT ![a] = AtAwait(@, "closed")]
            /\ UNCHANGED <<queue, wire>>
  <2>1. /\ uu'[a] = AtAwait(uu[a], "closed") /\ \A b \in Uus \ {a} : uu'[b] = uu[b]
        /\ uu' \in [Uus -> SocketStates]
    BY <1>10, <1>17, AtAwaitSocket DEF IInv, TypeOK
  <2>2. /\ uu'[a].ru = "closed" /\ uu'[a].client = uu[a].client
        /\ uu'[a].client => uu'[a].ue = uu[a].ue /\ uu'[a].cell = uu[a].cell
    BY <1>10, <2>1, AtAwaitSocket
  <2>3. ~Live(a)' /\ ~Bound(a)
    BY <1>17, <2>2 DEF Live, Bound
  <2> QED  BY <1>1, <1>10, <1>12, <1>13, <1>14, <1>16, <1>17, <2>1, <2>2, <2>3, AwaitPreserves
<1>18. ASSUME NEW await, await = IF r.kind = "complete" THEN "closed" ELSE "recv",
              uu[a].ru = "f1", uu' = [uu EXCEPT ![a] = AtAwait(Replied(@, r), await)],
              UNCHANGED <<queue, wire>>
       PROVE  IInv'
  <2>1. await \in {"recv", "closed"} /\ (await = "closed" <=> r.kind = "complete")
    BY <1>18
  <2>2. PICK n : n = Replied(uu[a], r)
    OBVIOUS
  <2>3. /\ n \in SocketStates /\ n.client = uu[a].client /\ n.ue = uu[a].ue
        /\ n.cell = uu[a].cell /\ n.up = uu[a].up
    BY <1>6, <1>10, <2>2, RepliedSocket
  <2>4. /\ uu'[a] = AtAwait(n, await) /\ \A b \in Uus \ {a} : uu'[b] = uu[b]
        /\ uu' \in [Uus -> SocketStates]
    BY <1>10, <1>18, <2>1, <2>2, <2>3, AtAwaitSocket DEF IInv, TypeOK
  <2>5. /\ uu'[a].ru = await /\ uu'[a].client = uu[a].client
        /\ uu'[a].client \/ await # "closed" =>
             uu'[a].ue = uu[a].ue /\ uu'[a].cell = uu[a].cell /\ uu'[a].up = uu[a].up
    BY <2>1, <2>3, <2>4, AtAwaitSocket
  <2>6. Going(s)' = Going(s) /\ \A o : Waiting(o)' = Waiting(o) /\ queue'[o] = queue[o]
    BY <1>1, <1>18 DEF Going, Waiting
  <2>7. Ahead(a)' = Ahead(a) /\ Answers(a)' \subseteq Answers(a)
    <3>1. \A o \in Sites : Range(Replying(o)') \subseteq Range(Replying(o))
      BY <1>13
    <3> QED  BY <2>6, <3>1 DEF Ahead, Answers
  <2>8. \A t : ReleasingOn(t, a)' <=> ReleasingOn(t, a)
    BY <1>1 DEF ueVars, ReleasingOn, Releasing
  <2>9. Live(a)' => InOrder(a)' /\ \A t \in Tasks : a \in Sockets(t) => EndsFit(t, a)'
    <3> SUFFICES ASSUME Live(a)'
                 PROVE  InOrder(a)' /\ \A t \in Tasks : a \in Sockets(t) => EndsFit(t, a)'
      OBVIOUS
    <3>1. uu'[a].up = uu[a].up
      BY <2>1, <2>5 DEF Live
    <3>2. InOrder(a) /\ \A t \in Tasks : a \in Sockets(t) => EndsFit(t, a)
      BY <1>10, <1>18 DEF IInv, StreamsInOrder, TasksInOrder, Live
    <3> QED  BY <2>7, <2>8, <3>1, <3>2 DEF InOrder, EndsFit
  <2>10. Bound(a) => Bound(a)' /\ uu'[a].ue = uu[a].ue /\ uu'[a].cell = uu[a].cell
    <3> SUFFICES ASSUME Bound(a)
                 PROVE  Bound(a)' /\ uu'[a].ue = uu[a].ue /\ uu'[a].cell = uu[a].cell
      OBVIOUS
    <3>1. ~Finished(a)
      BY <1>18 DEF Bound
    <3>2. r \in Answers(a)
      BY <1>5, <1>6 DEF Answers
    <3>3. await = "recv"
      BY <2>1, <3>1, <3>2 DEF Finished
    <3>4. ~Finished(a)'
      BY <2>5, <2>7, <2>8, <3>1, <3>3 DEF Finished
    <3> QED  BY <2>5, <3>3, <3>4 DEF Bound
  <2>11. TypeOK'
    BY <1>16, <1>18, <2>4
  <2>12. uu'[a].client \/ uu'[a].ru # "closed" => uu'[a].ue \in UEs /\ uu'[a].cell \in Cells
    BY <1>10, <2>5
  <2> QED  BY <1>1, <1>10, <1>12, <1>13, <1>14, <1>18, <2>1, <2>4, <2>5, <2>9, <2>10,
              <2>11, <2>12, AwaitPreserves
<1> QED
  <2>1. a = Head(back[f1[s]]).uu /\ r = Head(back[f1[s]])
    BY <1>2, <1>4, <1>5
  <2> QED  BY <1>15, <1>17, <1>18, <2>1 DEF Reply

-----------------------------------------------------------------------------
(* The links and the DU: no socket moves, and nothing new is outstanding.    *)

LEMMA FewerWaiting ==
  ASSUME IInv, UNCHANGED <<ueVars, uu>>,
         \A o \in Sites : /\ Waiting(o)' \subseteq Waiting(o)
                          /\ Range(Replying(o)') \subseteq Range(Replying(o))
  PROVE  MessagesFit' /\ StreamsInOrder' /\ TasksInOrder' /\ TasksApart' /\ SocketsFit'
<1>1. UNCHANGED <<proc, step, src, tgt, uu>>
  BY DEF ueVars
<1>2. MessagesFit'
  BY <1>1 DEF IInv, MessagesFit, From
<1>3. \A a : Ahead(a)' \subseteq Ahead(a)
  BY DEF Ahead
<1>4. StreamsInOrder'
  BY <1>1, <1>3 DEF IInv, StreamsInOrder, InOrder, Live
<1>5. \A t \in Tasks : Sockets(t)' = Sockets(t) /\ Sockets(t) \subseteq Uus
  BY <1>1 DEF Sockets, IInv, TypeOK
<1>6. \A t, a : ReleasingOn(t, a)' <=> ReleasingOn(t, a)
  BY <1>1 DEF ReleasingOn, Releasing
<1>7. TasksInOrder'
  <2> SUFFICES ASSUME NEW t \in Tasks, NEW a \in Sockets(t), Live(a) PROVE EndsFit(t, a)'
    BY <1>1, <1>5 DEF TasksInOrder, Live
  <2>1. EndsFit(t, a)
    BY DEF IInv, TasksInOrder
  <2> QED  BY <1>1, <1>3, <1>6, <2>1 DEF EndsFit
<1>8. TasksApart' /\ SocketsFit'
  BY <1>1, <1>5 DEF IInv, TasksApart, SocketsFit
<1> QED  BY <1>2, <1>4, <1>7, <1>8

\* Who is bound to a release, and the releases on their way, at the sites where
\* nothing is lost.
LEMMA OwnersElsewhere ==
  ASSUME IInv, UNCHANGED <<ueVars, uu>>, NEW u \in UEs, NEW c \in Cells,
         \A o \in Sites : /\ Waiting(o)' \subseteq Waiting(o)
                          /\ Replying(o)' = Replying(o),
         Waiting(SiteOf[c])' = Waiting(SiteOf[c])
  PROVE  /\ HasOwner(u, c) => HasOwner(u, c)'
         /\ ReleaseSent(u, c) => ReleaseSent(u, c)'
<1>1. ASSUME HasOwner(u, c) PROVE HasOwner(u, c)'
  <2>1. PICK a \in Uus : uu[a].ue = u /\ uu[a].cell = c /\ Bound(a)
    BY <1>1 DEF HasOwner
  <2>2. Answers(a)' = Answers(a)
    BY DEF Answers
  <2>3. Ahead(a)' = Ahead(a)
    <3>1. Ahead(a)' \subseteq Ahead(a)
      BY DEF Ahead
    <3>2. \A o \in Sites : \A m : m \in Waiting(o) /\ m.uu = a => o = SiteOf[c]
      BY <2>1 DEF IInv, MessagesFit, From
    <3> QED  BY <3>1, <3>2 DEF Ahead
  <2>4. Bound(a)'
    BY <2>1, <2>2, <2>3, Unaffected
  <2> QED  BY <2>1, <2>4 DEF HasOwner
<1>2. ASSUME ReleaseSent(u, c) PROVE ReleaseSent(u, c)'
  <2>1. PICK o \in Sites : \E m \in Waiting(o) : m.ue = u /\ m.cell = c /\ m.kind = "release"
    BY <1>2 DEF ReleaseSent
  <2>2. PICK m \in Waiting(o) : m.ue = u /\ m.cell = c /\ m.kind = "release"
    BY <2>1
  <2>3. o = SiteOf[c]
    BY <2>2 DEF IInv, MessagesFit, From
  <2> QED  BY <2>2, <2>3 DEF ReleaseSent
<1> QED  BY <1>1, <1>2

LEMMA ResumePreserves ==
  ASSUME IInv, NEW s \in Sites, Resume(s)
  PROVE  IInv'
<1>1. /\ f1[s] # None /\ queue[s] # <<>>
      /\ queue' = [queue EXCEPT ![s] = Tail(@)]
      /\ wire' = [wire EXCEPT ![f1[s]] = Append(@, Head(queue[s]))]
      /\ UNCHANGED <<used, prbs, open, connCells, proc, step, src, tgt, uu, f1, back, losses>>
  BY DEF Resume, duVars, ueVars
<1>2. /\ f1[s] \in Links /\ SiteOfLink[f1[s]] = s /\ Going(s) = wire[f1[s]]
      /\ \A o \in Sites \ {s} : f1[o] # f1[s]
  BY <1>1, OwnLinks
<1>3. Going(s) \in Seq(Messages) /\ queue[s] \in Seq(Messages)
  BY SequenceTypes
<1>4. /\ Once(Going(s)) /\ Once(queue[s]) /\ By(Going(s)) \cap By(queue[s]) = {}
      /\ By(Replying(s)) \cap By(queue[s]) = {} /\ By(Going(s)) \cap By(Replying(s)) = {}
  BY DEF IInv, OnceEach
<1>5. PICK m : m = Head(queue[s])
  OBVIOUS
<1>6. /\ m \in Messages /\ m \in Range(queue[s]) /\ m.uu \in By(queue[s])
      /\ Tail(queue[s]) \in Seq(Messages) /\ Once(Tail(queue[s]))
      /\ Range(queue[s]) = {m} \cup Range(Tail(queue[s]))
      /\ By(Tail(queue[s])) = By(queue[s]) \ {m.uu}
  BY <1>1, <1>3, <1>4, <1>5, HeadTail
<1>7. /\ Append(Going(s), m) \in Seq(Messages)
      /\ Range(Append(Going(s), m)) = Range(Going(s)) \cup {m}
      /\ By(Append(Going(s), m)) = By(Going(s)) \cup {m.uu}
      /\ Once(Append(Going(s), m))
  BY <1>3, <1>4, <1>6, Appended
<1>8. /\ queue' \in [Sites -> Seq(Messages)] /\ queue'[s] = Tail(queue[s])
      /\ \A o \in Sites \ {s} : queue'[o] = queue[o]
  BY <1>1, <1>6 DEF IInv, TypeOK
<1>9. /\ wire' \in [Links -> Seq(Messages)] /\ wire'[f1[s]] = Append(Going(s), m)
      /\ \A k \in Links \ {f1[s]} : wire'[k] = wire[k]
  BY <1>1, <1>2, <1>5, <1>7 DEF IInv, TypeOK
<1>10. /\ Going(s)' = Append(Going(s), m)
       /\ \A o \in Sites \ {s} : Going(o)' = Going(o)
       /\ \A o \in Sites : Replying(o)' = Replying(o)
  <2>1. \A o \in Sites : f1[o] # None => f1[o] \in Links
    BY DEF IInv, TypeOK
  <2>2. UNCHANGED <<f1, back>> /\ f1[s] # None
    BY <1>1
  <2> QED  BY <1>2, <1>9, <2>1, <2>2 DEF Going, Replying
<1>11. \A o \in Sites : Waiting(o)' = Waiting(o)
  <2>1. Waiting(s)' = Waiting(s)
    BY <1>6, <1>7, <1>8, <1>10 DEF Waiting
  <2> QED  BY <1>8, <1>10, <2>1 DEF Waiting
<1>12. TypeOK'
  BY <1>1, <1>8, <1>9 DEF IInv, TypeOK
<1>13. UNCHANGED <<ueVars, uu>>
  BY <1>1 DEF ueVars
<1>14. MessagesFit' /\ StreamsInOrder' /\ TasksInOrder' /\ TasksApart' /\ SocketsFit'
  BY <1>10, <1>11, <1>13, FewerWaiting
<1>15. DuOK'
  BY <1>1 DEF IInv, DuOK, Grants, Carrying, DU!HasSession
<1>16. Linked'
  BY <1>1, <1>2, <1>9 DEF IInv, Linked
<1>17. OnceEach'
  <2>1. m.uu \notin By(Replying(s)) /\ m.uu \notin By(Going(s))
    BY <1>4, <1>6
  <2>2. \A o : By(Going(o))' = By(Going(o)') /\ By(Replying(o))' = By(Replying(o)')
    BY DEF By
  <2> SUFFICES ASSUME NEW o \in Sites
               PROVE  /\ Once(Going(o)') /\ Once(Replying(o)') /\ Once(queue'[o])
                      /\ By(Going(o)') \cap By(Replying(o)') = {}
                      /\ By(Going(o)') \cap By(queue'[o]) = {}
                      /\ By(Replying(o)') \cap By(queue'[o]) = {}
    BY DEF OnceEach
  <2>3. CASE o # s
    BY <1>8, <1>10, <2>3 DEF IInv, OnceEach
  <2>4. CASE o = s
    <3>1. Once(Replying(s))
      BY DEF IInv, OnceEach
    <3> QED  BY <1>4, <1>6, <1>7, <1>8, <1>10, <2>1, <2>4, <3>1
  <2> QED  BY <2>3, <2>4
<1>18. ReleaseAssured'
  <2> SUFFICES ASSUME NEW u \in UEs, NEW c \in Cells, DU!HasSession(u, c)'
               PROVE  HasOwner(u, c)' \/ ReleaseSent(u, c)' \/ GivenUp(c)'
    BY DEF ReleaseAssured
  <2>1. HasOwner(u, c) \/ ReleaseSent(u, c) \/ GivenUp(c)
    BY <1>1 DEF IInv, ReleaseAssured, DU!HasSession
  <2>2. SiteOf[c] \in Sites
    BY SitesAssumption
  <2>3. GivenUp(c)' <=> GivenUp(c)
    BY <1>1 DEF GivenUp
  <2> QED  BY <1>10, <1>11, <1>13, <2>1, <2>2, <2>3, OwnersElsewhere
<1> QED  BY <1>12, <1>14, <1>15, <1>16, <1>17, <1>18 DEF IInv

LEMMA ConnectPreserves ==
  ASSUME IInv, NEW s \in Sites, NEW k \in Links, Connect(s, k)
  PROVE  IInv'
<1>1. /\ f1[s] = None /\ SiteOfLink[k] = s /\ f1' = [f1 EXCEPT ![s] = k]
      /\ k \notin open /\ open' = open \cup {k}
      /\ connCells' = [connCells EXCEPT ![k] = {}]
      /\ UNCHANGED <<used, prbs, proc, step, src, tgt, uu, queue, wire, back, losses>>
  BY DEF Connect, DU!Accept, DU!pool, ueVars
<1>2. None \notin Links
  BY UusAssumption
<1>3. wire[k] = <<>> /\ back[k] = <<>>
  BY <1>1, <1>2 DEF IInv, Linked
<1>4. /\ f1' \in [Sites -> Links \cup {None}] /\ f1'[s] = k
      /\ \A o \in Sites \ {s} : f1'[o] = f1[o]
  BY <1>1 DEF IInv, TypeOK
<1>5. \A o \in Sites : Going(o)' = Going(o) /\ Replying(o)' = Replying(o)
                       /\ Waiting(o)' = Waiting(o)
  <2>1. Going(s) = <<>> /\ Replying(s) = <<>>
    BY <1>1 DEF Going, Replying
  <2>2. \A o \in Sites : Going(o)' = Going(o) /\ Replying(o)' = Replying(o)
    BY <1>1, <1>2, <1>3, <1>4, <2>1 DEF Going, Replying
  <2> QED  BY <1>1, <2>2 DEF Waiting
<1>6. TypeOK'
  BY <1>1, <1>4 DEF IInv, TypeOK
<1>7. UNCHANGED <<ueVars, uu>>
  BY <1>1 DEF ueVars
<1>8. MessagesFit' /\ StreamsInOrder' /\ TasksInOrder' /\ TasksApart' /\ SocketsFit'
  BY <1>5, <1>7, FewerWaiting
<1>9. /\ connCells' \in [Links -> SUBSET Cells] /\ connCells'[k] = {}
      /\ \A j \in Links \ {k} : connCells'[j] = connCells[j]
      /\ open \subseteq Links
  BY <1>1 DEF IInv, DuOK, Carrying
<1>10. DuOK'
  <2>1. Grants'
    BY <1>1 DEF IInv, DuOK, Grants
  <2>2. Carrying'
    BY <1>1, <1>9 DEF IInv, DuOK, Carrying, DU!HasSession
  <2> QED  BY <2>1, <2>2 DEF DuOK
<1>11. Linked'
  BY <1>1, <1>2, <1>3, <1>4 DEF IInv, Linked
<1>12. OnceEach'
  BY <1>1, <1>5 DEF IInv, OnceEach, By
<1>13. ReleaseAssured'
  <2> SUFFICES ASSUME NEW u \in UEs, NEW c \in Cells, DU!HasSession(u, c)'
               PROVE  HasOwner(u, c)' \/ ReleaseSent(u, c)' \/ GivenUp(c)'
    BY DEF ReleaseAssured
  <2>1. HasOwner(u, c) \/ ReleaseSent(u, c) \/ GivenUp(c)
    BY <1>1 DEF IInv, ReleaseAssured, DU!HasSession
  <2>2. SiteOf[c] \in Sites
    BY SitesAssumption
  <2>3. ASSUME GivenUp(c) PROVE GivenUp(c)'
    <3>1. PICK j \in open : c \in connCells[j] /\ f1[SiteOfLink[j]] # j
      BY <2>3 DEF GivenUp
    <3>2. j # k /\ j \in Links /\ SiteOfLink[j] \in Sites
      BY <1>1, <1>9, SitesAssumption
    <3>3. j \in open' /\ c \in connCells'[j] /\ f1'[SiteOfLink[j]] # j
      BY <1>1, <1>4, <1>9, <3>1, <3>2
    <3> QED  BY <3>3 DEF GivenUp
  <2> QED  BY <1>5, <1>7, <2>1, <2>2, <2>3, OwnersElsewhere
<1> QED  BY <1>6, <1>8, <1>10, <1>11, <1>12, <1>13 DEF IInv

\* Requests on links are lost with them.
LEMMA LostRequests ==
  ASSUME IInv, NEW K \in SUBSET Links, UNCHANGED <<f1, queue, back>>,
         wire' = [j \in Links |-> IF j \in K THEN <<>> ELSE wire[j]]
  PROVE  /\ wire' \in [Links -> Seq(Messages)]
         /\ \A o \in Sites : /\ Waiting(o)' \subseteq Waiting(o)
                             /\ Replying(o)' = Replying(o)
                             /\ f1[o] \notin K => Waiting(o)' = Waiting(o)
         /\ OnceEach'
<1>1. <<>> \in Seq(Messages)
  OBVIOUS
<1>2. wire' \in [Links -> Seq(Messages)]
  BY <1>1 DEF IInv, TypeOK
<1>3. \A o \in Sites : Replying(o)' = Replying(o)
  BY DEF Replying
<1>4. \A o \in Sites : \/ Going(o)' = <<>> /\ f1[o] \in K
                       \/ Going(o)' = Going(o)
  <2>1. \A o \in Sites : f1[o] # None => f1[o] \in Links
    BY DEF IInv, TypeOK
  <2> QED  BY <2>1 DEF Going
<1>5. \A o \in Sites : /\ Waiting(o)' \subseteq Waiting(o)
                       /\ f1[o] \notin K => Waiting(o)' = Waiting(o)
  BY <1>4, NothingInEmpty DEF Waiting
<1>6. OnceEach'
  <2> SUFFICES ASSUME NEW o \in Sites
               PROVE  /\ Once(Going(o)') /\ Once(Replying(o)) /\ Once(queue[o])
                      /\ By(Going(o)') \cap By(Replying(o)) = {}
                      /\ By(Going(o)') \cap By(queue[o]) = {}
                      /\ By(Replying(o)) \cap By(queue[o]) = {}
    BY <1>3 DEF OnceEach, By
  <2>1. By(Going(o)') \subseteq By(Going(o)) /\ Once(Going(o)')
    BY <1>4, NothingInEmpty DEF IInv, OnceEach
  <2> QED  BY <2>1 DEF IInv, OnceEach
<1> QED  BY <1>2, <1>3, <1>5, <1>6

LEMMA LinkEndPreserves ==
  ASSUME IInv, NEW k \in Links, LinkEnd(k)
  PROVE  IInv'
<1>1. /\ k \in open /\ open' = open \ {k}
      /\ connCells' = [connCells EXCEPT ![k] = {}]
      /\ prbs' = [c \in Cells |-> IF c \in connCells[k] THEN [u \in UEs |-> 0] ELSE prbs[c]]
      /\ wire' = [wire EXCEPT ![k] = <<>>]
      /\ UNCHANGED <<proc, step, src, tgt, uu, f1, queue, back>>
  BY DEF LinkEnd, DU!LinkEnd, DU!ReclaimCells, ueVars
<1>2. losses' \in 0..MaxLosses
  <2>1. losses' = losses \/ (losses < MaxLosses /\ losses' = losses + 1)
    BY DEF LinkEnd
  <2> QED  BY <2>1, LossesAssumption DEF IInv, TypeOK
<1>3. wire' = [j \in Links |-> IF j \in {k} THEN <<>> ELSE wire[j]]
  BY <1>1 DEF IInv, TypeOK
<1>4. /\ wire' \in [Links -> Seq(Messages)]
      /\ \A o \in Sites : /\ Waiting(o)' \subseteq Waiting(o)
                          /\ Replying(o)' = Replying(o)
                          /\ f1[o] # k => Waiting(o)' = Waiting(o)
      /\ OnceEach'
  <2>1. {k} \in SUBSET Links /\ UNCHANGED <<f1, queue, back>>
    BY <1>1
  <2> QED  BY <1>3, <2>1, LostRequests
<1>5. TypeOK'
  BY <1>1, <1>2, <1>4 DEF IInv, TypeOK
<1>6. UNCHANGED <<ueVars, uu>>
  BY <1>1 DEF ueVars
<1>7. MessagesFit' /\ StreamsInOrder' /\ TasksInOrder' /\ TasksApart' /\ SocketsFit'
  BY <1>4, <1>6, FewerWaiting
<1>8. /\ connCells' \in [Links -> SUBSET Cells] /\ connCells'[k] = {}
      /\ \A j \in Links \ {k} : connCells'[j] = connCells[j]
      /\ open \subseteq Links
  BY <1>1 DEF IInv, DuOK, Carrying
<1>9. ASSUME NEW u \in UEs, NEW c \in Cells, DU!HasSession(u, c)'
      PROVE  DU!HasSession(u, c) /\ c \notin connCells[k]
  <2>1. prbs'[c][u] > 0
    BY <1>9 DEF DU!HasSession
  <2>2. c \notin connCells[k]
    BY <1>1, <2>1
  <2> QED  BY <1>1, <2>1, <2>2 DEF DU!HasSession
<1>10. ASSUME NEW u \in UEs, NEW c \in Cells, DU!HasSession(u, c)'
       PROVE  \E j \in open' : c \in connCells'[j] /\ j # k /\ j \in Links
                               /\ SiteOfLink[j] = SiteOf[c]
  <2>1. PICK j \in open : c \in connCells[j]
    BY <1>9, <1>10 DEF IInv, DuOK, Carrying
  <2>2. j # k /\ j \in Links
    BY <1>8, <1>9, <1>10, <2>1
  <2>3. j \in open' /\ c \in connCells'[j] /\ SiteOfLink[j] = SiteOf[c]
    BY <1>1, <1>8, <2>1, <2>2 DEF IInv, DuOK, Carrying
  <2> QED  BY <2>2, <2>3
<1>11. DuOK'
  <2>1. Grants'
    <3>1. prbs' = [c \in Cells |-> [u \in UEs |-> prbs'[c][u]]]
      <4>1. \A c \in Cells : prbs[c] = [u \in UEs |-> prbs[c][u]]
        BY DEF IInv, DuOK, Grants
      <4>2. \A c \in Cells : prbs'[c] = [u \in UEs |-> prbs'[c][u]]
        BY <1>1, <4>1
      <4> QED  BY <1>1, <4>2
    <3> QED  BY <3>1 DEF Grants
  <2>2. \A j \in Links : \A c \in connCells'[j] : SiteOf[c] = SiteOfLink[j]
    BY <1>8 DEF IInv, DuOK, Carrying
  <2>3. Carrying'
    BY <1>1, <1>8, <1>10, <2>2 DEF Carrying
  <2> QED  BY <2>1, <2>3 DEF DuOK
<1>12. Linked'
  BY <1>1, <1>3 DEF IInv, Linked
<1>13. ReleaseAssured'
  <2> SUFFICES ASSUME NEW u \in UEs, NEW c \in Cells, DU!HasSession(u, c)'
               PROVE  HasOwner(u, c)' \/ ReleaseSent(u, c)' \/ GivenUp(c)'
    BY DEF ReleaseAssured
  <2>1. HasOwner(u, c) \/ ReleaseSent(u, c) \/ GivenUp(c)
    BY <1>9 DEF IInv, ReleaseAssured
  <2>2. SiteOf[c] \in Sites
    BY SitesAssumption
  <2>3. ASSUME GivenUp(c) PROVE GivenUp(c)'
    <3>1. PICK j \in open : c \in connCells[j] /\ f1[SiteOfLink[j]] # j
      BY <2>3 DEF GivenUp
    <3>2. j # k /\ j \in Links
      BY <1>8, <1>9, <3>1
    <3>3. j \in open' /\ c \in connCells'[j] /\ f1'[SiteOfLink[j]] # j
      BY <1>1, <1>8, <3>1, <3>2
    <3> QED  BY <3>3 DEF GivenUp
  <2>4. CASE f1[SiteOf[c]] = k
    <3>1. PICK j \in open' : c \in connCells'[j] /\ j # k /\ j \in Links
                             /\ SiteOfLink[j] = SiteOf[c]
      BY <1>10
    <3>2. f1'[SiteOfLink[j]] # j
      BY <1>1, <2>4, <3>1
    <3> QED  BY <3>1, <3>2 DEF GivenUp
  <2>5. CASE f1[SiteOf[c]] # k
    BY <1>4, <1>6, <2>1, <2>2, <2>3, <2>5, OwnersElsewhere
  <2> QED  BY <2>4, <2>5
<1> QED  BY <1>4, <1>5, <1>7, <1>11, <1>12, <1>13 DEF IInv

LEMMA RestartPreserves ==
  ASSUME IInv, Restart
  PROVE  IInv'
<1>1. /\ open' = {} /\ connCells' = [k \in Links |-> {}]
      /\ prbs' = [c \in Cells |-> [u \in UEs |-> 0]]
      /\ wire' = [k \in Links |-> <<>>]
      /\ losses < MaxLosses /\ losses' = losses + 1
      /\ UNCHANGED <<proc, step, src, tgt, uu, f1, queue, back>>
  BY DEF Restart, DU!Restart, ueVars
<1>2. wire' = [j \in Links |-> IF j \in Links THEN <<>> ELSE wire[j]]
  BY <1>1
<1>3. /\ wire' \in [Links -> Seq(Messages)]
      /\ \A o \in Sites : Waiting(o)' \subseteq Waiting(o) /\ Replying(o)' = Replying(o)
      /\ OnceEach'
  <2>1. Links \in SUBSET Links /\ UNCHANGED <<f1, queue, back>>
    BY <1>1
  <2> QED  BY <1>2, <2>1, LostRequests
<1>4. losses' \in 0..MaxLosses
  BY <1>1, LossesAssumption DEF IInv, TypeOK
<1>5. TypeOK'
  BY <1>1, <1>3, <1>4 DEF IInv, TypeOK
<1>6. MessagesFit' /\ StreamsInOrder' /\ TasksInOrder' /\ TasksApart' /\ SocketsFit'
  <2>1. UNCHANGED <<ueVars, uu>>
    BY <1>1 DEF ueVars
  <2> QED  BY <1>3, <2>1, FewerWaiting
<1>7. \A u \in UEs, c \in Cells : ~DU!HasSession(u, c)'
  BY <1>1 DEF DU!HasSession
<1>8. DuOK'
  BY <1>1, <1>7 DEF DuOK, Grants, Carrying
<1>9. Linked'
  BY <1>1 DEF IInv, Linked
<1>10. ReleaseAssured'
  BY <1>7 DEF ReleaseAssured
<1> QED  BY <1>3, <1>5, <1>6, <1>8, <1>9, <1>10 DEF IInv

\* What the DU still reads of a link is requests, of nobody.
LEMMA OrphanedSequence ==
  ASSUME NEW ms \in Seq(Messages)
  PROVE  Orphaned(ms) \in Seq(Messages) /\ (ms = <<>> => Orphaned(ms) = <<>>)
<1>1. Len(ms) \in Nat /\ \A i \in 1..Len(ms) : ms[i] \in Messages
  OBVIOUS
<1>2. \A m \in Messages : [m EXCEPT !.uu = None] \in Messages
  BY DEF Messages
<1>3. Orphaned(ms) \in [1..Len(ms) -> Messages]
  BY <1>1, <1>2 DEF Orphaned
<1>4. Orphaned(ms) \in Seq(Messages) /\ Len(Orphaned(ms)) = Len(ms)
  BY <1>1, <1>3
<1> QED  BY <1>4

LEMMA LinkLostPreserves ==
  ASSUME IInv, NEW s \in Sites, LinkLost(s)
  PROVE  IInv'
<1>1. PICK k : k = f1[s]
  OBVIOUS
<1>2. /\ k # None /\ f1' = [f1 EXCEPT ![s] = None]
      /\ back' = [back EXCEPT ![k] = <<>>]
      /\ wire' = [wire EXCEPT ![k] = IF k \in open THEN Orphaned(@) ELSE <<>>]
      /\ uu' = [a \in Uus |->
                  IF a \notin Pending(s) THEN uu[a]
                  ELSE AtAwait(uu[a], IF uu[a].ru = "f1" THEN "failed" ELSE "closed")]
      /\ queue' = [queue EXCEPT ![s] = <<>>]
      /\ UNCHANGED <<used, prbs, open, connCells, proc, step, src, tgt>>
  BY <1>1 DEF LinkLost, duVars, ueVars
<1>3. k \in Links /\ SiteOfLink[k] = s /\ \A o \in Sites \ {s} : f1[o] # k
  BY <1>1, <1>2, OwnLinks
<1>4. losses' \in 0..MaxLosses
  <2>1. losses' = losses \/ (losses < MaxLosses /\ losses' = losses + 1)
    BY DEF LinkLost
  <2> QED  BY <2>1, LossesAssumption DEF IInv, TypeOK
<1>5. /\ f1' \in [Sites -> Links \cup {None}] /\ f1'[s] = None
      /\ \A o \in Sites \ {s} : f1'[o] = f1[o]
  BY <1>2 DEF IInv, TypeOK
<1>6. /\ back' \in [Links -> Seq(Replies)] /\ back'[k] = <<>>
      /\ \A j \in Links \ {k} : back'[j] = back[j]
  <2>1. <<>> \in Seq(Replies)
    OBVIOUS
  <2> QED  BY <1>2, <1>3, <2>1 DEF IInv, TypeOK
<1>7. /\ wire' \in [Links -> Seq(Messages)] /\ (wire'[k] # <<>> => k \in open)
      /\ \A j \in Links \ {k} : wire'[j] = wire[j]
  <2>1. Orphaned(wire[k]) \in Seq(Messages) /\ <<>> \in Seq(Messages)
    BY <1>3, OrphanedSequence DEF IInv, TypeOK
  <2> QED  BY <1>2, <1>3, <2>1 DEF IInv, TypeOK
<1>8. /\ Going(s)' = <<>> /\ Replying(s)' = <<>>
      /\ \A o \in Sites \ {s} : Going(o)' = Going(o) /\ Replying(o)' = Replying(o)
  <2>1. \A o \in Sites \ {s} : f1[o] # None => f1[o] \in Links \ {k}
    BY <1>3 DEF IInv, TypeOK
  <2> QED  BY <1>5, <1>6, <1>7, <2>1 DEF Going, Replying
<1>9. /\ queue' \in [Sites -> Seq(Messages)] /\ queue'[s] = <<>>
      /\ \A o \in Sites \ {s} : queue'[o] = queue[o]
  <2>1. <<>> \in Seq(Messages)
    OBVIOUS
  <2> QED  BY <1>2, <2>1 DEF IInv, TypeOK
<1>9a. /\ \A o \in Sites \ {s} : Waiting(o)' = Waiting(o)
       /\ Waiting(s)' = {} /\ Waiting(s)' \subseteq Waiting(s)
       /\ \A o \in Sites : Range(Replying(o)') \subseteq Range(Replying(o))
  BY <1>8, <1>9, NothingInEmpty DEF Waiting
<1>10. ASSUME NEW a \in Uus, a \notin Pending(s) PROVE uu'[a] = uu[a]
  BY <1>2, <1>10
<1>11. ASSUME NEW a \in Pending(s)
       PROVE  /\ a \in Uus /\ uu'[a] \in SocketStates
              /\ uu'[a].ru \in {"failed", "closed"} /\ uu'[a].client = uu[a].client
              /\ uu'[a].client \/ uu'[a].ru # "closed" =>
                   uu'[a].ue = uu[a].ue /\ uu'[a].cell = uu[a].cell
              /\ uu[a].ru \in {"f1", "synthetic"}
  <2>1. a \in Uus /\ uu[a].ru \in {"f1", "synthetic"} /\ uu[a] \in SocketStates
    BY DEF Pending, IInv, TypeOK
  <2>2. PICK await \in {"failed", "closed"} : uu'[a] = AtAwait(uu[a], await)
    BY <1>2, <2>1
  <2>3. /\ AtAwait(uu[a], await) \in SocketStates
        /\ AtAwait(uu[a], await).ru = await
        /\ AtAwait(uu[a], await).client = uu[a].client
        /\ uu[a].client \/ await # "closed" =>
             /\ AtAwait(uu[a], await).ue = uu[a].ue
             /\ AtAwait(uu[a], await).cell = uu[a].cell
    BY <2>1, <2>2, AtAwaitSocket
  <2> QED  BY <2>1, <2>2, <2>3
<1>12. uu' \in [Uus -> SocketStates]
  <2>1. \A a \in Uus : uu'[a] \in SocketStates
    BY <1>10, <1>11 DEF IInv, TypeOK
  <2> QED  BY <1>2, <2>1
<1>13. TypeOK'
  BY <1>2, <1>4, <1>5, <1>6, <1>7, <1>9, <1>12 DEF IInv, TypeOK
<1>14. ASSUME NEW o \in Sites \ {s}, NEW a, From(a, o)
       PROVE  a \in Uus /\ uu'[a] = uu[a] /\ From(a, o)'
  <2>1. a \in Uus /\ uu[a].ru \in {"f1", "synthetic"} /\ SiteOf[uu[a].cell] = o
    BY <1>14 DEF From
  <2>2. a \notin Pending(s)
    BY <1>14, <2>1 DEF Pending
  <2>3. uu'[a] = uu[a]
    BY <1>10, <2>1, <2>2
  <2> QED  BY <2>1, <2>3 DEF From
<1>15. MessagesFit'
  <2>1. ASSUME NEW o \in Sites, NEW m \in Waiting(o)'
        PROVE  /\ From(m.uu, o)' /\ m.ue = uu'[m.uu].ue /\ m.cell = uu'[m.uu].cell
               /\ uu'[m.uu].ru = "synthetic" => m.kind = "release"
    <3>1. m \in Waiting(o) /\ o # s
      BY <1>9a, <2>1
    <3>2. /\ From(m.uu, o) /\ m.ue = uu[m.uu].ue /\ m.cell = uu[m.uu].cell
          /\ uu[m.uu].ru = "synthetic" => m.kind = "release"
      BY <3>1 DEF IInv, MessagesFit
    <3>3. uu'[m.uu] = uu[m.uu] /\ From(m.uu, o)'
      BY <1>14, <3>1, <3>2
    <3> QED  BY <3>2, <3>3
  <2>2. ASSUME NEW o \in Sites, NEW r \in Range(Replying(o)') PROVE From(r.uu, o)'
    <3>1. o # s /\ r \in Range(Replying(o))
      BY <1>8, <2>2, NothingInEmpty
    <3> QED  BY <1>14, <3>1 DEF IInv, MessagesFit
  <2> QED  BY <2>1, <2>2 DEF MessagesFit
<1>16. \A a : Ahead(a)' \subseteq Ahead(a)
  <2>1. \A o \in Sites : Waiting(o)' \subseteq Waiting(o)
    BY <1>9a
  <2> QED  BY <2>1 DEF Ahead
<1>17. ASSUME NEW a \in Uus, Live(a)' PROVE uu'[a] = uu[a] /\ Live(a)
  BY <1>10, <1>11, <1>17 DEF Live
<1>18. StreamsInOrder'
  BY <1>16, <1>17 DEF IInv, StreamsInOrder, InOrder
<1>19. \A t \in Tasks : Sockets(t)' = Sockets(t) /\ Sockets(t) \subseteq Uus
  BY <1>2 DEF Sockets, IInv, TypeOK
<1>20. \A t, a : ReleasingOn(t, a)' <=> ReleasingOn(t, a)
  BY <1>2 DEF ReleasingOn, Releasing
<1>21. TasksInOrder'
  <2> SUFFICES ASSUME NEW t \in Tasks, NEW a \in Sockets(t), Live(a)' PROVE EndsFit(t, a)'
    BY <1>19 DEF TasksInOrder
  <2>1. uu'[a] = uu[a] /\ Live(a)
    BY <1>17, <1>19
  <2>2. EndsFit(t, a)
    BY <2>1 DEF IInv, TasksInOrder
  <2> QED  BY <1>16, <1>20, <2>1, <2>2 DEF EndsFit
<1>22. \A a \in Uus : uu'[a].client = uu[a].client
  BY <1>10, <1>11
<1>23. TasksApart'
  BY <1>2, <1>19, <1>22 DEF IInv, TasksApart
<1>24. SocketsFit'
  BY <1>10, <1>11 DEF IInv, SocketsFit
<1>25. DuOK'
  BY <1>2 DEF IInv, DuOK, Grants, Carrying, DU!HasSession
<1>26. Linked'
  BY <1>1, <1>2, <1>3, <1>5, <1>6, <1>7, UusAssumption DEF IInv, Linked
<1>27. OnceEach'
  BY <1>8, <1>9, NothingInEmpty DEF IInv, OnceEach, By
<1>28. ReleaseAssured'
  <2> SUFFICES ASSUME NEW u \in UEs, NEW c \in Cells, DU!HasSession(u, c)
               PROVE  HasOwner(u, c)' \/ ReleaseSent(u, c)' \/ GivenUp(c)'
    BY <1>2 DEF ReleaseAssured, DU!HasSession
  <2>1. HasOwner(u, c) \/ ReleaseSent(u, c) \/ GivenUp(c)
    BY DEF IInv, ReleaseAssured
  <2>2. CASE SiteOf[c] = s
    <3>1. PICK j \in open : c \in connCells[j]
      BY DEF IInv, DuOK, Carrying
    <3>2. j \in Links /\ SiteOfLink[j] = s
      BY <2>2, <3>1 DEF IInv, DuOK, Carrying
    <3>3. j \in open' /\ c \in connCells'[j] /\ f1'[SiteOfLink[j]] # j
      BY <1>2, <1>5, <3>1, <3>2, UusAssumption
    <3> QED  BY <3>3 DEF GivenUp
  <2>3. CASE SiteOf[c] # s
    <3>1. SiteOf[c] \in Sites
      BY SitesAssumption
    <3>2. CASE HasOwner(u, c)
      <4>1. PICK a \in Uus : uu[a].ue = u /\ uu[a].cell = c /\ Bound(a)
        BY <3>2 DEF HasOwner
      <4>2. a \notin Pending(s)
        BY <2>3, <4>1 DEF Pending
      <4>3. uu'[a] = uu[a]
        BY <1>10, <4>2
      <4>4. ASSUME NEW o \in Sites, From(a, o) PROVE o # s
        BY <2>3, <4>1, <4>4 DEF From
      <4>5. Ahead(a)' = Ahead(a)
        <5>1. \A m \in Ahead(a) : \E o \in Sites : o # s /\ m \in Waiting(o)
          BY <4>4, AheadOf
        <5>2. \A m \in Ahead(a) : m \in Ahead(a)'
          BY <1>9a, <5>1 DEF Ahead
        <5> QED  BY <1>16, <5>2
      <4>6. Answers(a)' = Answers(a)
        <5>1. \A r \in Answers(a) : \E o \in Sites : o # s /\ r \in Range(Replying(o))
          BY <4>4, AheadOf
        <5>2. \A r \in Answers(a) : r \in Answers(a)'
          BY <1>8, <5>1 DEF Answers
        <5>3. Answers(a)' \subseteq Answers(a)
          BY <1>9a DEF Answers
        <5> QED  BY <5>2, <5>3
      <4>7. Bound(a)'
        <5>1. UNCHANGED ueVars
          BY <1>2 DEF ueVars
        <5> QED  BY <4>1, <4>3, <4>5, <4>6, <5>1, Unaffected
      <4> QED  BY <4>1, <4>3, <4>7 DEF HasOwner
    <3>3. CASE ReleaseSent(u, c)
      <4>1. PICK o \in Sites : \E m \in Waiting(o) :
                                 m.ue = u /\ m.cell = c /\ m.kind = "release"
        BY <3>3 DEF ReleaseSent
      <4>2. PICK m \in Waiting(o) : m.ue = u /\ m.cell = c /\ m.kind = "release"
        BY <4>1
      <4>3. o = SiteOf[c]
        BY <4>2 DEF IInv, MessagesFit, From
      <4>4. m \in Waiting(o)'
        BY <1>9a, <2>3, <4>2, <4>3
      <4> QED  BY <4>2, <4>4 DEF ReleaseSent
    <3>4. CASE GivenUp(c)
      <4>1. PICK j \in open : c \in connCells[j] /\ f1[SiteOfLink[j]] # j
        BY <3>4 DEF GivenUp
      <4>2. j \in Links /\ SiteOfLink[j] = SiteOf[c]
        BY <4>1 DEF IInv, DuOK, Carrying
      <4>3. j \in open' /\ c \in connCells'[j] /\ f1'[SiteOfLink[j]] # j
        BY <1>2, <1>5, <2>3, <3>1, <4>1, <4>2
      <4> QED  BY <4>3 DEF GivenUp
    <3> QED  BY <2>1, <3>2, <3>3, <3>4
  <2> QED  BY <2>2, <2>3
<1> QED  BY <1>13, <1>15, <1>18, <1>21, <1>23, <1>24, <1>25, <1>26, <1>27, <1>28 DEF IInv

\* What a handler of the DU does to its sessions and its links.
LEMMA HandleEffect ==
  ASSUME IInv, NEW k \in Links, NEW m \in Messages,
         CASE m.kind = "setup"   -> DU!Setup(k, m.ue, m.cell)
           [] m.kind = "measure" -> DU!Measurement(k, m.ue, m.cell)
           [] m.kind = "release" -> DU!Release(k, m.ue, m.cell)
           [] OTHER              -> DU!Other(k, m.cell)
  PROVE  /\ k \in open /\ open' = open /\ SiteOf[m.cell] = SiteOfLink[k]
         /\ connCells' = [connCells EXCEPT ![k] = @ \cup {m.cell}]
         /\ Grants'
         /\ \A u \in UEs, c \in Cells :
              DU!HasSession(u, c)' =>
                \/ DU!HasSession(u, c)
                \/ u = m.ue /\ c = m.cell /\ m.kind = "setup"
         /\ m.kind = "release" => ~DU!HasSession(m.ue, m.cell)'
<1>1. m.ue \in UEs /\ m.cell \in Cells
  BY DEF Messages
<1>2. DU!OnLink(k, m.cell)
  BY DEF DU!Setup, DU!Measurement, DU!Release, DU!Other
<1>3. /\ k \in open /\ open' = open /\ SiteOf[m.cell] = SiteOfLink[k]
      /\ connCells' = [connCells EXCEPT ![k] = @ \cup {m.cell}]
  BY <1>2 DEF DU!OnLink
<1>4. prbs = [c \in Cells |-> [u \in UEs |-> prbs[c][u]]]
  BY DEF IInv, DuOK, Grants
<1>5. \A c \in Cells : prbs[c] = [u \in UEs |-> prbs[c][u]]
  BY <1>4
<1>6. ASSUME NEW cs, DU!ReleaseUeOn(m.ue, cs), m.cell \in cs
      PROVE  /\ Grants' /\ ~DU!HasSession(m.ue, m.cell)'
             /\ \A u \in UEs, c \in Cells : DU!HasSession(u, c)' => DU!HasSession(u, c)
  <2>1. prbs' = [c \in Cells |-> IF c \in cs THEN [prbs[c] EXCEPT ![m.ue] = 0]
                                 ELSE prbs[c]]
    BY <1>6 DEF DU!ReleaseUeOn
  <2>2. \A c \in Cells, u \in UEs :
          prbs'[c][u] = IF c \in cs /\ u = m.ue THEN 0 ELSE prbs[c][u]
    BY <1>5, <2>1
  <2>3. \A c \in Cells : prbs'[c] = [u \in UEs |-> prbs'[c][u]]
    BY <1>5, <2>1
  <2>4. Grants'
    <3>1. prbs' = [c \in Cells |-> [u \in UEs |-> prbs'[c][u]]]
      BY <2>1, <2>3
    <3> QED  BY <3>1 DEF Grants
  <2> QED  BY <1>1, <1>6, <2>2, <2>4 DEF DU!HasSession
<1>7. ASSUME UNCHANGED DU!pool
      PROVE  Grants' /\ \A u \in UEs, c \in Cells : DU!HasSession(u, c)' => DU!HasSession(u, c)
  BY <1>4, <1>7 DEF DU!pool, Grants, DU!HasSession
<1>8. CASE m.kind = "setup"
  <2>1. PICK need : DU!HandleSetup(m.ue, m.cell, need)
    BY <1>8 DEF DU!Setup
  <2>2. PICK grant :
          prbs' = [d \in Cells |-> [prbs[d] EXCEPT ![m.ue] = IF d = m.cell THEN grant ELSE 0]]
    BY <2>1 DEF DU!HandleSetup
  <2>3. \A c \in Cells : prbs'[c] = [u \in UEs |-> prbs'[c][u]]
    BY <1>5, <2>2
  <2>4. Grants'
    <3>1. prbs' = [c \in Cells |-> [u \in UEs |-> prbs'[c][u]]]
      BY <2>2, <2>3
    <3> QED  BY <3>1 DEF Grants
  <2>5. ASSUME NEW u \in UEs, NEW c \in Cells, DU!HasSession(u, c)'
        PROVE  DU!HasSession(u, c) \/ (u = m.ue /\ c = m.cell)
    <3>1. prbs'[c][u] = IF u = m.ue THEN IF c = m.cell THEN grant ELSE 0 ELSE prbs[c][u]
      BY <1>5, <2>2
    <3> QED  BY <2>5, <3>1 DEF DU!HasSession
  <2> QED  BY <1>3, <1>8, <2>4, <2>5
<1>9. CASE m.kind = "measure"
  <2>1. PICK need : DU!HandleMeasurement(m.ue, m.cell, need)
    BY <1>9 DEF DU!Measurement
  <2>2. ASSUME DU!HasSession(m.ue, m.cell), NEW new, prbs' = [prbs EXCEPT ![m.cell][m.ue] = new]
        PROVE  /\ Grants'
               /\ \A u \in UEs, c \in Cells : DU!HasSession(u, c)' => DU!HasSession(u, c)
    <3>1. \A c \in Cells, u \in UEs :
            prbs'[c][u] = IF c = m.cell /\ u = m.ue THEN new ELSE prbs[c][u]
      BY <1>1, <1>4, <1>5, <2>2
    <3>2. \A c \in Cells : prbs'[c] = [u \in UEs |-> prbs'[c][u]]
      BY <1>1, <1>4, <1>5, <2>2
    <3>3. prbs' = [c \in Cells |-> [u \in UEs |-> prbs'[c][u]]]
      BY <1>4, <2>2, <3>2
    <3> QED  BY <2>2, <3>1, <3>3 DEF Grants, DU!HasSession
  <2> QED  BY <1>3, <1>6, <1>7, <1>9, <2>1, <2>2 DEF DU!HandleMeasurement
<1>10. CASE m.kind = "release"
  <2>1. DU!ReleaseUeOn(m.ue, {m.cell})
    BY <1>10 DEF DU!Release, DU!HandleRelease
  <2> QED  BY <1>3, <1>6, <1>10, <2>1
<1>11. CASE m.kind \notin {"setup", "measure", "release"}
  <2>1. UNCHANGED DU!pool
    BY <1>11 DEF DU!Other, DU!HandleOther
  <2> QED  BY <1>3, <1>7, <1>11, <2>1
<1> QED  BY <1>8, <1>9, <1>10, <1>11

\* Sessions, and who gives them back, when a handler has left the sockets, the
\* links in use and all other messages alone.
LEMMA StillAssured ==
  ASSUME IInv, UNCHANGED <<ueVars, uu, f1, open>>, NEW k \in Links, NEW m \in Messages,
         connCells' = [connCells EXCEPT ![k] = @ \cup {m.cell}],
         NEW u \in UEs, NEW c \in Cells,
         HasOwner(u, c) =>
           \E b \in Uus : /\ uu[b].ue = u /\ uu[b].cell = c /\ Bound(b)
                          /\ Ahead(b)' = Ahead(b) /\ Answers(b)' = Answers(b),
         \A o \in Sites : \A n \in Waiting(o) :
           n.kind = "release" /\ n.ue = u /\ n.cell = c => n \in Waiting(o)',
         HasOwner(u, c) \/ ReleaseSent(u, c) \/ GivenUp(c)
  PROVE  HasOwner(u, c)' \/ ReleaseSent(u, c)' \/ GivenUp(c)'
<1>1. CASE HasOwner(u, c)
  <2>1. PICK b \in Uus : /\ uu[b].ue = u /\ uu[b].cell = c /\ Bound(b)
                         /\ Ahead(b)' = Ahead(b) /\ Answers(b)' = Answers(b)
    BY <1>1
  <2>2. Bound(b)'
    BY <2>1, Unaffected
  <2> QED  BY <2>1, <2>2 DEF HasOwner
<1>2. CASE ReleaseSent(u, c)
  BY <1>2 DEF ReleaseSent
<1>3. CASE GivenUp(c)
  <2>1. PICK j \in open : c \in connCells[j] /\ f1[SiteOfLink[j]] # j
    BY <1>3 DEF GivenUp
  <2>2. c \in connCells'[j]
    BY <2>1 DEF IInv, DuOK, Carrying
  <2> QED  BY <2>1, <2>2 DEF GivenUp
<1> QED  BY <1>1, <1>2, <1>3

LEMMA HandlePreserves ==
  ASSUME IInv, NEW k \in Links, Handle(k)
  PROVE  IInv'
<1>1. PICK m : m = Head(wire[k])
  OBVIOUS
<1>2. /\ wire[k] # <<>> /\ wire' = [wire EXCEPT ![k] = Tail(@)]
      /\ UNCHANGED <<proc, step, src, tgt, uu, f1, queue, losses>>
  BY DEF Handle, ueVars
<1>3. wire[k] \in Seq(Messages)
  BY DEF IInv, TypeOK
<1>4. /\ m \in Messages /\ m \in Range(wire[k]) /\ Tail(wire[k]) \in Seq(Messages)
      /\ Range(wire[k]) = {m} \cup Range(Tail(wire[k]))
      /\ m.uu \in By(wire[k])
      /\ Once(wire[k]) =>
           /\ Once(Tail(wire[k]))
           /\ By(Tail(wire[k])) = By(wire[k]) \ {m.uu}
           /\ Range(Tail(wire[k])) = {n \in Range(wire[k]) : n.uu # m.uu}
  BY <1>1, <1>2, <1>3, HeadTail
<1>5. /\ k \in open /\ open' = open /\ SiteOf[m.cell] = SiteOfLink[k]
      /\ connCells' = [connCells EXCEPT ![k] = @ \cup {m.cell}]
      /\ Grants'
      /\ \A u \in UEs, c \in Cells :
           DU!HasSession(u, c)' =>
             \/ DU!HasSession(u, c)
             \/ u = m.ue /\ c = m.cell /\ m.kind = "setup"
      /\ m.kind = "release" => ~DU!HasSession(m.ue, m.cell)'
  <2>1. (CASE m.kind = "setup"   -> DU!Setup(k, m.ue, m.cell)
           [] m.kind = "measure" -> DU!Measurement(k, m.ue, m.cell)
           [] m.kind = "release" -> DU!Release(k, m.ue, m.cell)
           [] OTHER              -> DU!Other(k, m.cell))
    BY <1>1 DEF Handle
  <2> QED  BY <1>4, <2>1, HandleEffect
<1>6. m.ue \in UEs /\ m.cell \in Cells /\ m.kind \in Kinds /\ m.uu \in Uus \cup {None}
  BY <1>4 DEF Messages
<1>7. /\ connCells' \in [Links -> SUBSET Cells] /\ connCells'[k] = connCells[k] \cup {m.cell}
      /\ \A j \in Links : connCells[j] \subseteq connCells'[j]
      /\ \A j \in Links \ {k} : connCells'[j] = connCells[j]
      /\ open \subseteq Links
  BY <1>5, <1>6 DEF IInv, DuOK, Carrying
<1>8. DuOK'
  <2>1. \A j \in Links : \A c \in connCells'[j] : SiteOf[c] = SiteOfLink[j]
    BY <1>5, <1>7 DEF IInv, DuOK, Carrying
  <2>2. ASSUME NEW u \in UEs, NEW c \in Cells, DU!HasSession(u, c)'
        PROVE  \E j \in open' : c \in connCells'[j]
    <3>1. CASE DU!HasSession(u, c)
      BY <1>5, <1>7, <3>1 DEF IInv, DuOK, Carrying
    <3>2. CASE c = m.cell
      BY <1>5, <1>7, <3>2
    <3> QED  BY <1>5, <2>2, <3>1, <3>2
  <2> QED  BY <1>5, <1>7, <2>1, <2>2 DEF DuOK, Carrying
<1>9. /\ wire' \in [Links -> Seq(Messages)] /\ wire'[k] = Tail(wire[k])
      /\ \A j \in Links \ {k} : wire'[j] = wire[j]
  BY <1>2, <1>4 DEF IInv, TypeOK
<1>10. UNCHANGED <<ueVars, uu>> /\ UNCHANGED <<f1, open, queue>>
  BY <1>2, <1>5 DEF ueVars
<1>11. CASE f1[SiteOfLink[k]] # k
  <2>1. back' = back
    BY <1>11 DEF Handle
  <2>2. \A o \in Sites : /\ Going(o)' = Going(o) /\ Replying(o)' = Replying(o)
                         /\ Waiting(o)' = Waiting(o)
    <3>1. \A o \in Sites : f1[o] # k
      BY <1>11 DEF IInv, Linked
    <3>2. \A o \in Sites : f1[o] # None => f1[o] \in Links
      BY DEF IInv, TypeOK
    <3> QED  BY <1>9, <1>10, <2>1, <3>1, <3>2 DEF Going, Replying, Waiting
  <2>3. TypeOK'
    BY <1>2, <1>9, <2>1 DEF IInv, TypeOK
  <2>4. MessagesFit' /\ StreamsInOrder' /\ TasksInOrder' /\ TasksApart' /\ SocketsFit'
    BY <1>10, <2>2, FewerWaiting
  <2>5. OnceEach'
    BY <1>2, <2>2 DEF IInv, OnceEach, By
  <2>6. Linked'
    BY <1>2, <1>5, <1>9, <2>1 DEF IInv, Linked
  <2>7. ReleaseAssured'
    <3> SUFFICES ASSUME NEW u \in UEs, NEW c \in Cells, DU!HasSession(u, c)'
                 PROVE  HasOwner(u, c)' \/ ReleaseSent(u, c)' \/ GivenUp(c)'
      BY DEF ReleaseAssured
    <3>1. CASE c = m.cell
      <4>1. k \in open' /\ c \in connCells'[k] /\ f1'[SiteOfLink[k]] # k
        BY <1>2, <1>5, <1>7, <1>11, <3>1
      <4> QED  BY <4>1 DEF GivenUp
    <3>2. CASE DU!HasSession(u, c)
      <4>1. HasOwner(u, c) \/ ReleaseSent(u, c) \/ GivenUp(c)
        BY <3>2 DEF IInv, ReleaseAssured
      <4>2. \A b : Ahead(b)' = Ahead(b) /\ Answers(b)' = Answers(b)
        BY <2>2 DEF Ahead, Answers
      <4>3. HasOwner(u, c) =>
              \E b \in Uus : /\ uu[b].ue = u /\ uu[b].cell = c /\ Bound(b)
                             /\ Ahead(b)' = Ahead(b) /\ Answers(b)' = Answers(b)
        BY <4>2 DEF HasOwner
      <4> QED  BY <1>4, <1>5, <1>10, <2>2, <4>1, <4>3, StillAssured
    <3> QED  BY <1>5, <3>1, <3>2
  <2> QED  BY <1>8, <2>3, <2>4, <2>5, <2>6, <2>7 DEF IInv
<1>12. CASE f1[SiteOfLink[k]] = k
  <2>1. PICK s \in Sites : s = SiteOfLink[k]
    BY SitesAssumption
  <2>2. f1[s] = k /\ f1[s] # None
    BY <1>12, <2>1, UusAssumption
  <2>3. /\ Going(s) = wire[k] /\ Replying(s) = back[k]
        /\ \A o \in Sites \ {s} : f1[o] # k
    BY <2>2, OwnLinks
  <2>4. PICK a : a = m.uu
    OBVIOUS
  <2>5. PICK r : r = [uu |-> m.uu, kind |-> m.kind, ok |-> Accepted(m)]
    OBVIOUS
  <2>6. r \in Replies /\ r.uu = a /\ r.kind = m.kind
    <3>1. Accepted(m) \in BOOLEAN
      <4>1. (prbs'[m.cell][m.ue] > 0) \in BOOLEAN
        OBVIOUS
      <4>2. DU!HasSession(m.ue, m.cell) \in BOOLEAN
        BY DEF DU!HasSession
      <4> QED  BY <4>1, <4>2 DEF Accepted
    <3> QED  BY <1>6, <2>4, <2>5, <3>1 DEF Replies
  <2>7. back' = [back EXCEPT ![k] = Append(@, r)]
    BY <1>1, <1>12, <2>5 DEF Handle
  <2>8. /\ Once(wire[k]) /\ Once(back[k]) /\ Once(queue[s])
        /\ By(wire[k]) \cap By(back[k]) = {}
        /\ By(wire[k]) \cap By(queue[s]) = {}
        /\ By(back[k]) \cap By(queue[s]) = {}
    BY <2>3 DEF IInv, OnceEach
  <2>9. a \in By(wire[k]) /\ a \notin By(back[k]) /\ a \notin By(queue[s])
    BY <1>4, <2>4, <2>8
  <2>10. /\ Append(back[k], r) \in Seq(Replies)
         /\ Range(Append(back[k], r)) = Range(back[k]) \cup {r}
         /\ By(Append(back[k], r)) = By(back[k]) \cup {a}
         /\ Once(Append(back[k], r))
    <3>1. back[k] \in Seq(Replies)
      BY DEF IInv, TypeOK
    <3> QED  BY <2>6, <2>8, <2>9, <3>1, Appended
  <2>11. /\ back' \in [Links -> Seq(Replies)] /\ back'[k] = Append(back[k], r)
         /\ \A j \in Links \ {k} : back'[j] = back[j]
    BY <2>7, <2>10 DEF IInv, TypeOK
  <2>12. TypeOK'
    BY <1>2, <1>9, <2>11 DEF IInv, TypeOK
  <2>13. /\ Going(s)' = Tail(wire[k]) /\ Replying(s)' = Append(back[k], r)
         /\ \A o \in Sites \ {s} : Going(o)' = Going(o) /\ Replying(o)' = Replying(o)
    <3>1. \A o \in Sites : f1[o] # None => f1[o] \in Links
      BY DEF IInv, TypeOK
    <3> QED  BY <1>9, <1>10, <2>2, <2>3, <2>11, <3>1 DEF Going, Replying
  <2>14. /\ Waiting(s)' = {n \in Waiting(s) : n.uu # a} /\ m \in Waiting(s)
         /\ \A n \in Waiting(s) : n.uu = a => n = m
         /\ \A o \in Sites \ {s} : Waiting(o)' = Waiting(o)
    <3>1. Range(Tail(wire[k])) = {n \in Range(wire[k]) : n.uu # a}
      BY <1>4, <2>4, <2>8
    <3>2. \A n \in Range(queue[s]) : n.uu # a
      BY <2>9 DEF By
    <3>3. Waiting(s) = Range(wire[k]) \cup Range(queue[s])
      BY <2>3 DEF Waiting
    <3>4. Waiting(s)' = Range(Tail(wire[k])) \cup Range(queue[s])
      BY <1>10, <2>13 DEF Waiting
    <3>5. \A n \in Range(wire[k]) : n = m \/ n \in Range(Tail(wire[k]))
      BY <1>4
    <3>6. \A o \in Sites \ {s} : Waiting(o)' = Waiting(o)
      BY <1>10, <2>13 DEF Waiting
    <3> QED  BY <1>4, <3>1, <3>2, <3>3, <3>4, <3>5, <3>6
  <2>15. /\ From(a, s) /\ m.ue = uu[a].ue /\ m.cell = uu[a].cell
         /\ uu[a].ru = "synthetic" => m.kind = "release"
    BY <2>4, <2>14 DEF IInv, MessagesFit
  <2>16. a \in Uus /\ uu[a].ru \in {"f1", "synthetic"} /\ SiteOf[uu[a].cell] = s
    BY <2>15 DEF From
  <2>17. \A r2 \in Range(Replying(s)) : r2.uu # a
    BY <2>3, <2>9 DEF By
  <2>18. Ahead(a) = {m} /\ Answers(a) = {}
    BY <2>4, <2>14, <2>15, <2>17, AheadAt
  <2>19. Ahead(a)' = {} /\ Answers(a)' = {r}
    <3>1. \A o \in Sites \ {s} : /\ \A n \in Waiting(o) : n.uu # a
                                 /\ \A n \in Range(Replying(o)) : n.uu # a
      BY <2>16 DEF IInv, MessagesFit, From
    <3>2. \A o \in Sites : \A n \in Waiting(o)' : n.uu # a
      BY <2>14, <3>1
    <3>3. Range(Replying(s)') = Range(Replying(s)) \cup {r}
      BY <2>3, <2>10, <2>13
    <3>4. Ahead(a)' = {}
      BY <3>2 DEF Ahead
    <3>5. Answers(a)' = {r}
      BY <2>6, <2>13, <2>17, <3>1, <3>3 DEF Answers
    <3> QED  BY <3>4, <3>5
  <2>20. ASSUME NEW b, b # a PROVE Ahead(b)' = Ahead(b) /\ Answers(b)' = Answers(b)
    <3>1. \A o \in Sites : \A n : n.uu = b => (n \in Waiting(o)' <=> n \in Waiting(o))
      BY <2>14, <2>20
    <3>2. \A o \in Sites : \A n : n.uu = b =>
            (n \in Range(Replying(o)') <=> n \in Range(Replying(o)))
      BY <2>3, <2>6, <2>10, <2>13, <2>20
    <3> QED  BY <3>1, <3>2 DEF Ahead, Answers
  <2>21. MessagesFit'
    <3>1. \A b, o : From(b, o)' <=> From(b, o)
      BY <1>10 DEF From
    <3>2. \A o \in Sites : Waiting(o)' \subseteq Waiting(o)
      BY <2>14
    <3>3. \A o \in Sites : \A n \in Range(Replying(o)') :
            n \in Range(Replying(o)) \/ (o = s /\ n.uu = a)
      BY <2>3, <2>6, <2>10, <2>13
    <3> QED  BY <1>10, <2>15, <3>1, <3>2, <3>3 DEF IInv, MessagesFit
  <2>22. OnceEach'
    <3>1. \A o : By(Going(o))' = By(Going(o)') /\ By(Replying(o))' = By(Replying(o)')
      BY DEF By
    <3> SUFFICES ASSUME NEW o \in Sites
                 PROVE  /\ Once(Going(o)') /\ Once(Replying(o)') /\ Once(queue[o])
                        /\ By(Going(o)') \cap By(Replying(o)') = {}
                        /\ By(Going(o)') \cap By(queue[o]) = {}
                        /\ By(Replying(o)') \cap By(queue[o]) = {}
      BY <1>10 DEF OnceEach, By
    <3>2. CASE o # s
      BY <2>13, <3>2 DEF IInv, OnceEach
    <3>3. CASE o = s
      <4>1. Once(Tail(wire[k])) /\ By(Tail(wire[k])) = By(wire[k]) \ {a}
        BY <1>4, <2>4, <2>8
      <4>2. /\ Going(s)' = Tail(wire[k]) /\ Replying(s)' = Append(back[k], r)
            /\ By(Append(back[k], r)) = By(back[k]) \cup {a}
        BY <2>10, <2>13
      <4>3. /\ Once(Going(s)') /\ Once(Replying(s)') /\ Once(queue[s])
        BY <2>8, <2>10, <4>1, <4>2
      <4>4. /\ By(Going(s)') = By(wire[k]) \ {a}
            /\ By(Replying(s)') = By(back[k]) \cup {a}
        BY <4>1, <4>2
      <4>5. /\ By(Going(s)') \cap By(Replying(s)') = {}
            /\ By(Going(s)') \cap By(queue[s]) = {}
            /\ By(Replying(s)') \cap By(queue[s]) = {}
        BY <2>8, <2>9, <4>4
      <4> QED  BY <3>3, <4>3, <4>5
    <3> QED  BY <3>2, <3>3
  <2>23. Linked'
    BY <1>2, <1>5, <1>9, <1>12, <2>11 DEF IInv, Linked
  <2>24. \A t \in Tasks : Sockets(t)' = Sockets(t) /\ Sockets(t) \subseteq Uus
    BY <1>10 DEF ueVars, Sockets, IInv, TypeOK
  <2>25. TasksApart' /\ SocketsFit'
    BY <1>10, <2>24 DEF ueVars, IInv, TasksApart, SocketsFit
  <2>26. StreamsInOrder'
    <3> SUFFICES ASSUME NEW b \in Uus, Live(b)' PROVE InOrder(b)'
      BY DEF StreamsInOrder
    <3>1. InOrder(b)
      BY <1>10 DEF IInv, StreamsInOrder, Live
    <3>2. Ahead(b)' \subseteq Ahead(b)
      BY <2>19, <2>20
    <3> QED  BY <1>10, <3>1, <3>2 DEF InOrder
  <2>27. \A t, b : ReleasingOn(t, b)' <=> ReleasingOn(t, b)
    BY <1>10 DEF ueVars, ReleasingOn, Releasing
  <2>28. TasksInOrder'
    <3> SUFFICES ASSUME NEW t \in Tasks, NEW b \in Sockets(t), Live(b)' PROVE EndsFit(t, b)'
      BY <2>24 DEF TasksInOrder
    <3>1. EndsFit(t, b)
      BY <1>10 DEF IInv, TasksInOrder, Live
    <3>2. Ahead(b)' \subseteq Ahead(b)
      BY <2>19, <2>20
    <3> QED  BY <1>10, <2>27, <3>1, <3>2 DEF EndsFit
  <2>29. ReleaseAssured'
    <3> SUFFICES ASSUME NEW u \in UEs, NEW c \in Cells, DU!HasSession(u, c)'
                 PROVE  HasOwner(u, c)' \/ ReleaseSent(u, c)' \/ GivenUp(c)'
      BY DEF ReleaseAssured
    <3>1. CASE u = m.ue /\ c = m.cell /\ m.kind \notin Ends
      <4>1. uu[a].ru = "f1" /\ uu[a].ue = u /\ uu[a].cell = c
        BY <2>15, <2>16, <3>1 DEF Ends
      <4>2. Live(a)
        BY <4>1 DEF Live
      <4>3. uu[a].up # <<>> => uu[a].up[1] # "complete"
        BY <2>16, <2>18, <3>1, <4>2 DEF IInv, StreamsInOrder, InOrder
      <4>4. ASSUME NEW t \in Tasks, ReleasingOn(t, a) PROVE uu[a].up # <<>>
        <5>1. a \in Sockets(t)
          BY <2>16, <4>4, UusAssumption DEF ReleasingOn, Sockets
        <5>2. EndsFit(t, a)
          BY <4>2, <5>1 DEF IInv, TasksInOrder
        <5> QED  BY <2>18, <3>1, <4>4, <5>2 DEF EndsFit
      <4>5. ~Finished(a)'
        BY <1>10, <2>6, <2>19, <2>27, <3>1, <4>3, <4>4 DEF Finished, Ends
      <4>6. Bound(a)'
        BY <1>10, <4>1, <4>5 DEF Bound
      <4> QED  BY <1>10, <2>16, <4>1, <4>6 DEF HasOwner
    <3>2. CASE ~(u = m.ue /\ c = m.cell) \/ m.kind \in Ends
      <4>1. DU!HasSession(u, c) /\ ~(u = m.ue /\ c = m.cell /\ m.kind = "release")
        BY <1>5, <3>2 DEF Ends
      <4>2. HasOwner(u, c) \/ ReleaseSent(u, c) \/ GivenUp(c)
        BY <4>1 DEF IInv, ReleaseAssured
      <4>3. ASSUME HasOwner(u, c)
            PROVE  \E b \in Uus : /\ uu[b].ue = u /\ uu[b].cell = c /\ Bound(b)
                                  /\ Ahead(b)' = Ahead(b) /\ Answers(b)' = Answers(b)
        <5>1. PICK b \in Uus : uu[b].ue = u /\ uu[b].cell = c /\ Bound(b)
          BY <4>3 DEF HasOwner
        <5>2. ASSUME b = a PROVE FALSE
          <6>1. m.kind = "complete"
            BY <2>15, <3>2, <4>1, <5>1, <5>2 DEF Ends
          <6>2. Finished(a)
            BY <2>18, <6>1 DEF Finished
          <6> QED  BY <2>16, <5>1, <5>2, <6>2 DEF Bound
        <5> QED  BY <2>20, <5>1, <5>2
      <4>4. ASSUME NEW o \in Sites, NEW n \in Waiting(o),
                   n.kind = "release" /\ n.ue = u /\ n.cell = c
            PROVE  n \in Waiting(o)'
        <5>1. n # m
          BY <4>1, <4>4
        <5> QED  BY <2>14, <4>4, <5>1
      <4> QED  BY <1>4, <1>5, <1>10, <4>2, <4>3, <4>4, StillAssured
    <3> QED  BY <3>1, <3>2
  <2> QED  BY <1>8, <2>12, <2>21, <2>22, <2>23, <2>25, <2>26, <2>28, <2>29 DEF IInv
<1> QED  BY <1>11, <1>12

-----------------------------------------------------------------------------
(* The theorems *)

LEMMA InitHolds == Init => IInv
<1> SUFFICES ASSUME Init PROVE IInv
  OBVIOUS
<1>1. /\ f1 = FirstLink /\ prbs = [c \in Cells |-> [u \in UEs |-> 0]]
      /\ open = {FirstLink[s] : s \in Sites} /\ connCells = [k \in Links |-> {}]
      /\ proc = [t \in Tasks |-> "out"] /\ step = [t \in Tasks |-> 0]
      /\ src = [t \in Tasks |-> None] /\ tgt = [t \in Tasks |-> None]
      /\ uu = [a \in Uus |-> NoUu] /\ queue = [s \in Sites |-> <<>>]
      /\ wire = [k \in Links |-> <<>>] /\ back = [k \in Links |-> <<>>] /\ losses = 0
  BY DEF Init
<1>2. <<>> \in Seq(Messages) /\ <<>> \in Seq(Replies)
  OBVIOUS
<1>3. 0 \in 0..Len(AttachFlow) /\ 0 \in 0..MaxLosses
  BY FlowKinds, LossesAssumption
<1>4. TypeOK
  <2>1. queue \in [Sites -> Seq(Messages)] /\ wire \in [Links -> Seq(Messages)]
        /\ back \in [Links -> Seq(Replies)]
    BY <1>1, <1>2
  <2>2. f1 \in [Sites -> Links \cup {None}] /\ uu \in [Uus -> SocketStates]
    BY <1>1, FirstLinkAssumption, SocketTypes
  <2>3. step \in [Tasks -> 0..Len(AttachFlow)] /\ losses \in 0..MaxLosses
    BY <1>1, <1>3
  <2> QED  BY <1>1, <2>1, <2>2, <2>3 DEF TypeOK
<1>5. \A u \in UEs, c \in Cells : ~DU!HasSession(u, c)
  BY <1>1 DEF DU!HasSession
<1>6. DuOK
  BY <1>1, <1>5, FirstLinkAssumption DEF DuOK, Grants, Carrying
<1>7. \A t \in Tasks : Sockets(t) = {} /\ src[t] = None
  BY <1>1 DEF Sockets
<1>8. TasksApart /\ TasksInOrder
  BY <1>7 DEF TasksApart, TasksInOrder
<1>9. \A a \in Uus : uu[a] = NoUu /\ uu[a].ru = "unopened" /\ ~uu[a].client
  BY <1>1 DEF NoUu
<1>10. SocketsFit
  BY <1>9 DEF SocketsFit
<1>11. StreamsInOrder
  BY <1>9 DEF StreamsInOrder, Live
<1>12. \A s \in Sites : Going(s) = <<>> /\ Replying(s) = <<>> /\ queue[s] = <<>>
  BY <1>1, FirstLinkAssumption DEF Going, Replying
<1>13. Linked
  BY <1>1, FirstLinkAssumption DEF Linked
<1>14. MessagesFit
  BY <1>12, NothingInEmpty DEF MessagesFit, Waiting
<1>15. OnceEach
  BY <1>12, NothingInEmpty DEF OnceEach
<1>16. ReleaseAssured
  BY <1>5 DEF ReleaseAssured
<1> QED  BY <1>4, <1>6, <1>8, <1>10, <1>11, <1>13, <1>14, <1>15, <1>16 DEF IInv

LEMMA StutteringPreserves ==
  ASSUME IInv, UNCHANGED vars
  PROVE  IInv'
<1>1. UNCHANGED <<used, prbs, open, connCells, proc, step, src, tgt, uu, f1, queue, wire,
                  back, losses>>
  BY DEF vars, duVars, ueVars, f1Vars
<1>2. \A o \in Sites : /\ Waiting(o)' = Waiting(o) /\ Replying(o)' = Replying(o)
                       /\ Going(o)' = Going(o)
  BY <1>1 DEF Waiting, Going, Replying
<1>3. UNCHANGED <<ueVars, uu>>
  BY <1>1 DEF ueVars
<1>4. MessagesFit' /\ StreamsInOrder' /\ TasksInOrder' /\ TasksApart' /\ SocketsFit'
  BY <1>2, <1>3, FewerWaiting
<1>5. TypeOK' /\ Linked'
  BY <1>1 DEF IInv, TypeOK, Linked
<1>6. DuOK'
  BY <1>1 DEF IInv, DuOK, Grants, Carrying, DU!HasSession
<1>7. OnceEach'
  BY <1>1, <1>2 DEF IInv, OnceEach, By
<1>8. ReleaseAssured'
  <2> SUFFICES ASSUME NEW u \in UEs, NEW c \in Cells, DU!HasSession(u, c)'
               PROVE  HasOwner(u, c)' \/ ReleaseSent(u, c)' \/ GivenUp(c)'
    BY DEF ReleaseAssured
  <2>1. HasOwner(u, c) \/ ReleaseSent(u, c) \/ GivenUp(c)
    BY <1>1 DEF IInv, ReleaseAssured, DU!HasSession
  <2>2. SiteOf[c] \in Sites
    BY SitesAssumption
  <2>3. GivenUp(c)' <=> GivenUp(c)
    BY <1>1 DEF GivenUp
  <2> QED  BY <1>2, <1>3, <2>1, <2>2, <2>3, OwnersElsewhere
<1> QED  BY <1>4, <1>5, <1>6, <1>7, <1>8 DEF IInv

LEMMA StepPreserves == IInv /\ [Next]_vars => IInv'
<1> SUFFICES ASSUME IInv, [Next]_vars PROVE IInv'
  OBVIOUS
<1>1. ASSUME NEW t \in Tasks,
             TaskStep(t) \/ End(t) \/ Cancel(t)
               \/ \E kind \in {"measure", "data"} : Report(t, kind)
      PROVE  IInv'
  BY <1>1, TaskStepsPreserve DEF TaskStep
<1>2. ASSUME NEW t \in Tasks, NEW a \in Uus, NEW c \in Cells, Start(t, a, c) \/ Handover(t, a, c)
      PROVE  IInv'
  BY <1>2, StartPreserves, HandoverPreserves
<1>3. ASSUME NEW a \in Uus, SocketStep(a) PROVE IInv'
  BY <1>3, UplinkPreserves, HangupPreserves DEF SocketStep
<1>4. ASSUME NEW s \in Sites, SiteStep(s) \/ LinkLost(s) PROVE IInv'
  BY <1>4, ReplyPreserves, ResumePreserves, ConnectPreserves, LinkLostPreserves DEF SiteStep
<1>5. ASSUME NEW k \in Links, Handle(k) \/ LinkEnd(k) PROVE IInv'
  BY <1>5, HandlePreserves, LinkEndPreserves
<1>6. CASE Restart
  BY <1>6, RestartPreserves
<1>7. CASE Spent \/ UNCHANGED vars
  BY <1>7, StutteringPreserves DEF Spent
<1> QED  BY <1>1, <1>2, <1>3, <1>4, <1>5, <1>6, <1>7 DEF Next

\* The invariant says more than what it is for: a release request on the way
\* over a link the DU has closed will not reach it, but then another link that
\* carries the cell has been given up.
LEMMA AssuredMeansDue == IInv => NoLeak
<1> SUFFICES ASSUME IInv, NEW u \in UEs, NEW c \in Cells, DU!HasSession(u, c)
             PROVE  ReleaseDue(u, c)
  BY DEF NoLeak
<1>1. HasOwner(u, c) \/ ReleaseSent(u, c) \/ GivenUp(c)
  BY DEF IInv, ReleaseAssured
<1>2. CASE HasOwner(u, c)
  BY <1>2 DEF HasOwner, Bound, ReleaseDue
<1>3. CASE GivenUp(c)
  BY <1>3 DEF GivenUp, ReleaseDue
<1>4. CASE ReleaseSent(u, c)
  <2>1. PICK s \in Sites : \E m \in Waiting(s) : m.ue = u /\ m.cell = c /\ m.kind = "release"
    BY <1>4 DEF ReleaseSent
  <2>2. PICK m \in Waiting(s) : m.ue = u /\ m.cell = c /\ m.kind = "release"
    BY <2>1
  <2>3. CASE m \in Range(queue[s])
    <3>1. m \in {queue[s][i] : i \in 1..Len(queue[s])}
      <4>1. DOMAIN queue[s] = 1..Len(queue[s])
        BY SequenceTypes
      <4> QED  BY <2>3, <4>1 DEF Range
    <3>2. m \in Underway
      BY <3>1 DEF Underway
    <3> QED  BY <2>2, <3>2 DEF ReleaseDue
  <2>4. CASE m \in Range(Going(s))
    <3>1. f1[s] # None
      BY <2>4, NothingInEmpty DEF Going
    <3>2. f1[s] \in Links /\ Going(s) = wire[f1[s]]
      BY <3>1, OwnLinks
    <3>3. CASE f1[s] \in open
      <4>1. m \in {wire[f1[s]][i] : i \in 1..Len(wire[f1[s]])}
        <5>1. DOMAIN Going(s) = 1..Len(Going(s))
          BY SequenceTypes
        <5> QED  BY <2>4, <3>2, <5>1 DEF Range
      <4>2. m \in Underway
        BY <3>3, <4>1 DEF Underway
      <4> QED  BY <2>2, <4>2 DEF ReleaseDue
    <3>4. CASE f1[s] \notin open
      <4>1. s = SiteOf[c]
        BY <2>2 DEF IInv, MessagesFit, From
      <4>2. PICK k \in open : c \in connCells[k]
        BY DEF IInv, DuOK, Carrying
      <4>3. f1[SiteOfLink[k]] # k
        BY <3>4, <4>1, <4>2 DEF IInv, DuOK, Carrying
      <4> QED  BY <4>2, <4>3 DEF ReleaseDue
    <3> QED  BY <3>3, <3>4
  <2> QED  BY <2>2, <2>3, <2>4 DEF Waiting
<1> QED  BY <1>1, <1>2, <1>3, <1>4

\* The types of the UE tasks, the sockets, the links and what is on them, and
\* which sockets a task has in which state.
THEOREM StackTypeCorrect == Spec => []TypeOK
<1>1. IInv => TypeOK
  BY DEF IInv
<1> QED  BY <1>1, InitHolds, StepPreserves, PTL DEF Spec

\* PRBs are never leaked under churn (ru_server.py:15-16): whatever the UEs, the
\* radio units, the links and the DU do and in whatever order, every session
\* of the DU has somebody left who is bound to release it.
THEOREM NoLeakHolds == Spec => []NoLeak
<1> QED  BY InitHolds, StepPreserves, AssuredMeansDue, PTL DEF Spec

-----------------------------------------------------------------------------
(* Replies in step.  With IInv known of both ends of a step, only what a     *)
(* task's own sockets carry is left to look at.                              *)

\* A task has one uplink unanswered at most, on the socket it reads: whatever is
\* on its way there, or back, is of the kind it waits for, and nothing is on its
\* way on the other socket.  A serve_ue that reads no more leaves only what it
\* has already relayed.
Awaiting(t) == proc[t] \notin {"out", "cancel"}
Owed(t, a) == IF a = Reading(t) THEN Expected(t) ELSE "none"
OnItsWay(a) == Ahead(a) \cup Answers(a)
InStep(t, a) ==
  /\ Len(uu[a].down) <= 1
  /\ \A i \in 1..Len(uu[a].down) : uu[a].down[i].kind = Owed(t, a)
  /\ Live(a) => /\ Len(uu[a].up) <= 1
                /\ \A i \in 1..Len(uu[a].up) : uu[a].up[i] = Owed(t, a)
                /\ \A m \in OnItsWay(a) : m.kind = Owed(t, a)
                /\ uu[a].up # <<>> => OnItsWay(a) = {} /\ uu[a].down = <<>>
                /\ OnItsWay(a) # {} => uu[a].down = <<>>
TasksInStep == \A t \in Tasks : Awaiting(t) => \A a \in Sockets(t) : InStep(t, a)

\* Nothing is on its way on a socket, and nothing is left to read from it.
Settled(a) == Live(a) => uu[a].up = <<>> /\ OnItsWay(a) = {}
Idle(a) == uu[a].down = <<>> /\ Settled(a)

LEMMA OnItsWayTypes ==
  ASSUME IInv, NEW a, NEW m \in OnItsWay(a)
  PROVE  m.kind \in Kinds
<1>1. CASE m \in Ahead(a)
  <2>1. PICK s \in Sites : m \in Waiting(s)
    BY <1>1 DEF Ahead
  <2>2. Going(s) \in Seq(Messages) /\ queue[s] \in Seq(Messages)
    BY SequenceTypes
  <2>3. m \in Messages
    BY <2>1, <2>2 DEF Waiting, Range
  <2> QED  BY <2>3 DEF Messages
<1>2. CASE m \in Answers(a)
  <2>1. PICK s \in Sites : m \in Range(Replying(s))
    BY <1>2 DEF Answers
  <2>2. Replying(s) \in Seq(Replies)
    BY SequenceTypes
  <2>3. m \in Replies
    BY <2>1, <2>2 DEF Range
  <2> QED  BY <2>3 DEF Replies
<1> QED  BY <1>1, <1>2 DEF OnItsWay

\* A socket the task expects nothing on is idle ...
LEMMA NothingOwed ==
  ASSUME IInv, NEW t \in Tasks, NEW a \in Sockets(t), InStep(t, a), Owed(t, a) = "none"
  PROVE  Idle(a)
<1>1. /\ uu[a].up \in Seq(Kinds) /\ uu[a].down \in Seq([kind : Kinds, ok : BOOLEAN])
      /\ "none" \notin Kinds
  BY OwnSockets DEF SocketStates, Kinds
<1>2. uu[a].down = <<>>
  <2>1. \A i \in 1..Len(uu[a].down) : uu[a].down[i] \in [kind : Kinds, ok : BOOLEAN]
    <3>1. PICK D : D = [kind : Kinds, ok : BOOLEAN]
      OBVIOUS
    <3>2. uu[a].down \in Seq(D)
      BY <1>1, <3>1
    <3>3. \A i \in 1..Len(uu[a].down) : uu[a].down[i] \in D
      BY <3>2
    <3> QED  BY <3>1, <3>3
  <2>2. Len(uu[a].down) = 0
    <3> SUFFICES ASSUME Len(uu[a].down) # 0 PROVE FALSE
      OBVIOUS
    <3>1. 1 \in 1..Len(uu[a].down)
      BY <1>1
    <3> QED  BY <1>1, <2>1, <3>1 DEF InStep
  <2> QED  BY <1>1, <2>2
<1>3. ASSUME Live(a) PROVE uu[a].up = <<>> /\ OnItsWay(a) = {}
  <2>1. \A i \in 1..Len(uu[a].up) : uu[a].up[i] \in Kinds
    BY <1>1
  <2>2. Len(uu[a].up) = 0
    <3> SUFFICES ASSUME Len(uu[a].up) # 0 PROVE FALSE
      OBVIOUS
    <3>1. 1 \in 1..Len(uu[a].up)
      BY <1>1
    <3> QED  BY <1>1, <1>3, <2>1, <3>1 DEF InStep
  <2>3. \A m \in OnItsWay(a) : FALSE
    BY <1>1, <1>3, OnItsWayTypes DEF InStep
  <2> QED  BY <1>1, <2>2, <2>3
<1> QED  BY <1>2, <1>3 DEF Idle, Settled

\* ... and so is the one it has just read the answer from.
LEMMA AnswerIsLast ==
  ASSUME IInv, NEW t \in Tasks, NEW a \in Sockets(t), InStep(t, a), uu[a].down # <<>>
  PROVE  Tail(uu[a].down) = <<>> /\ Settled(a)
<1>1. uu[a].down \in Seq([kind : Kinds, ok : BOOLEAN]) /\ Len(uu[a].down) <= 1
  BY OwnSockets DEF SocketStates, InStep
<1>2. Tail(uu[a].down) = <<>>
  BY <1>1
<1> QED  BY <1>2 DEF Settled, InStep

LEMMA IdleInStep ==
  ASSUME NEW t, NEW a, Idle(a)'
  PROVE  InStep(t, a)'
<1>1. Len(<<>>) = 0 /\ \A i \in 1..0 : FALSE
  OBVIOUS
<1> QED  BY <1>1 DEF Idle, Settled, InStep

\* A socket whose UE neither reads nor sends, and whose traffic is as before but
\* for where it is and what has been lost of it.
LEMMA KeptInStep ==
  ASSUME NEW t, NEW a, InStep(t, a), Owed(t, a)' = Owed(t, a),
         uu'[a].down = uu[a].down,
         Live(a)' => /\ Live(a) /\ uu'[a].up = uu[a].up
                     /\ \A r \in OnItsWay(a)' : \E m \in OnItsWay(a) : m.kind = r.kind
  PROVE  InStep(t, a)'
<1>1. ASSUME Live(a)'
      PROVE  /\ Len(uu'[a].up) <= 1
             /\ \A i \in 1..Len(uu'[a].up) : uu'[a].up[i] = Owed(t, a)'
             /\ \A m \in OnItsWay(a)' : m.kind = Owed(t, a)'
             /\ uu'[a].up # <<>> => OnItsWay(a)' = {} /\ uu'[a].down = <<>>
             /\ OnItsWay(a)' # {} => uu'[a].down = <<>>
  BY <1>1 DEF InStep
<1> QED  BY <1>1 DEF InStep

-----------------------------------------------------------------------------
(* A task sends only when nothing else is unanswered. *)

LEMMA TaskChangeOnItsWay ==
  ASSUME IInv, TypeOK', NEW t \in Tasks, TaskChange(t), NEW a \in Uus
  PROVE  OnItsWay(a)' = OnItsWay(a) /\ (Live(a)' <=> Live(a))
  BY TaskChangeMessages, TaskChangeSockets DEF OnItsWay, Live

LEMMA StaysIdle ==
  ASSUME IInv, TypeOK', NEW t \in Tasks, TaskChange(t), NEW a \in Uus,
         Settled(a), uu'[a].down = <<>>, uu'[a].up = uu[a].up
  PROVE  InStep(t, a)'
<1>1. Idle(a)'
  BY TaskChangeOnItsWay DEF Idle, Settled
<1> QED  BY <1>1, IdleInStep

LEMMA SentInStep ==
  ASSUME IInv, TypeOK', NEW t \in Tasks, TaskChange(t), NEW a \in Uus, NEW kind \in Kinds,
         Settled(a), uu'[a].down = <<>>, Owed(t, a)' = kind,
         uu[a].ru = "closed" \/ uu'[a].up = Append(uu[a].up, kind)
  PROVE  InStep(t, a)'
<1>1. OnItsWay(a)' = OnItsWay(a) /\ (Live(a)' <=> Live(a))
  BY TaskChangeOnItsWay
<1>2. Len(<<>>) = 0 /\ \A i \in 1..0 : FALSE
  OBVIOUS
<1>3. ASSUME Live(a)' PROVE uu'[a].up = <<kind>> /\ OnItsWay(a)' = {}
  <2>1. uu[a].up = <<>> /\ uu[a].ru # "closed"
    BY <1>1, <1>3 DEF Settled, Live
  <2> QED  BY <1>1, <1>3, <2>1 DEF Settled
<1>4. ASSUME NEW up, up = <<kind>>
      PROVE  Len(up) <= 1 /\ \A i \in 1..Len(up) : up[i] = kind
  BY <1>4
<1>5. ASSUME Live(a)'
      PROVE  /\ Len(uu'[a].up) <= 1
             /\ \A i \in 1..Len(uu'[a].up) : uu'[a].up[i] = kind
             /\ \A m \in OnItsWay(a)' : m.kind = kind
             /\ OnItsWay(a)' = {} /\ uu'[a].down = <<>>
  BY <1>3, <1>4, <1>5
<1> QED  BY <1>2, <1>5 DEF InStep

\* What the other tasks have under way is as before.
LEMMA TaskChangeInStep ==
  ASSUME IInv, TypeOK', TasksInStep, NEW t \in Tasks, TaskChange(t),
         \A o \in Tasks \ {t} : step'[o] = step[o],
         Awaiting(t)' => \A a \in Sockets(t)' : InStep(t, a)'
  PROVE  TasksInStep'
<1> SUFFICES ASSUME NEW o \in Tasks \ {t}, Awaiting(o)', NEW a \in Sockets(o)'
             PROVE  InStep(o, a)'
  BY DEF TasksInStep
<1>1. proc'[o] = proc[o] /\ src'[o] = src[o] /\ tgt'[o] = tgt[o] /\ step'[o] = step[o]
  BY DEF TaskChange
<1>2. a \in Sockets(o) /\ a \in Uus /\ a \notin Sockets(t)
  BY <1>1, OwnSockets DEF Sockets, IInv, TasksApart
<1>3. InStep(o, a)
  BY <1>1, <1>2 DEF TasksInStep, Awaiting
<1>4. Owed(o, a)' = Owed(o, a)
  BY <1>1 DEF Owed, Reading, Expected, InAttach
<1>5. uu'[a] = uu[a]
  BY <1>2 DEF TaskChange
<1> QED  BY <1>2, <1>3, <1>4, <1>5, TaskChangeOnItsWay, KeptInStep

\* A task that lets go of its sockets, or is cancelled, waits for nothing.
LEMMA NotAwaitingInStep ==
  ASSUME IInv, TypeOK', TasksInStep, NEW t \in Tasks, TaskChange(t),
         NEW n, step' = [step EXCEPT ![t] = n], ~Awaiting(t)'
  PROVE  TasksInStep'
<1>1. \A o \in Tasks \ {t} : step'[o] = step[o]
  BY DEF IInv, TypeOK
<1> QED  BY <1>1, TaskChangeInStep

LEMMA DownOfSent ==
  ASSUME NEW s \in SocketStates, NEW kind
  PROVE  Sent(s, kind).down = s.down
  BY DEF Sent, SocketStates

LEMMA DownOfTaken ==
  ASSUME NEW s \in SocketStates
  PROVE  Taken(s).down = Tail(s.down) /\ Taken(s).up = s.up
  BY DEF Taken, SocketStates

LEMMA DownAtAwait ==
  ASSUME NEW s \in SocketStates, s.client, NEW await
  PROVE  AtAwait(s, await).down = s.down
<1>1. [s EXCEPT !.ru = await].client /\ [s EXCEPT !.ru = await].down = s.down
  BY DEF SocketStates
<1> QED  BY <1>1 DEF AtAwait, Reaped

LEMMA AttachOnInStep ==
  ASSUME IInv, TypeOK', TasksInStep, NEW t \in Tasks, AttachOn(t)
  PROVE  TasksInStep'
<1> DEFINE a == Attaching(t)
           kind == AttachFlow[step[t] + 1]
<1>1. /\ InAttach(t) /\ uu[a].down # <<>> /\ step[t] < Len(AttachFlow)
      /\ step' = [step EXCEPT ![t] = @ + 1]
      /\ uu' = [uu EXCEPT ![a] = Sent(Taken(@), kind)]
      /\ UNCHANGED <<proc, src, tgt>>
  BY DEF AttachOn
<1>2. a \in Uus /\ a \in Sockets(t) /\ a = Reading(t) /\ uu[a] \in SocketStates
  BY <1>1, OwnSockets DEF Attaching, InAttach, Reading
<1>3. kind \in Kinds /\ step'[t] = step[t] + 1 /\ TaskChange(t)
  <2>1. step[t] + 1 \in 1..Len(AttachFlow)
    BY <1>1, FlowKinds DEF IInv, TypeOK
  <2> QED  BY <1>1, <2>1, FlowKinds, AttachOnChange DEF IInv, TypeOK
<1>4. Reading(t)' = Reading(t) /\ Expected(t)' = kind
  BY <1>1, <1>3 DEF Reading, Expected, InAttach
<1>5. Awaiting(t)
  BY <1>1 DEF InAttach, Awaiting
<1> HIDE DEF a, kind
<1>6. Tail(uu[a].down) = <<>> /\ Settled(a)
  BY <1>1, <1>2, <1>5, AnswerIsLast DEF TasksInStep
<1>7. uu'[a] = Sent(Taken(uu[a]), kind) /\ \A b \in Uus \ {a} : uu'[b] = uu[b]
  BY <1>1, <1>2 DEF IInv, TypeOK
<1>8. /\ uu'[a].down = <<>>
      /\ uu[a].ru = "closed" \/ uu'[a].up = Append(uu[a].up, kind)
  <2>1. /\ Taken(uu[a]) \in SocketStates /\ Taken(uu[a]).down = <<>>
        /\ Taken(uu[a]).ru = uu[a].ru /\ Taken(uu[a]).up = uu[a].up
    BY <1>1, <1>2, <1>6, TakenSocket, DownOfTaken
  <2> QED  BY <1>3, <1>7, <2>1, SentSocket, DownOfSent
<1>9. ASSUME NEW b \in Sockets(t)' PROVE InStep(t, b)'
  <2>1. b \in Sockets(t) /\ b \in Uus
    BY <1>1, OwnSockets DEF Sockets
  <2>2. CASE b = a
    <3>1. Owed(t, b)' = kind
      BY <1>2, <1>4, <2>2 DEF Owed
    <3> QED  BY <1>2, <1>3, <1>6, <1>8, <2>2, <3>1, SentInStep
  <2>3. CASE b # a
    <3>1. Idle(b)
      BY <1>2, <1>5, <2>1, <2>3, NothingOwed DEF TasksInStep, Owed
    <3> QED  BY <1>3, <1>7, <2>1, <2>3, <3>1, StaysIdle DEF Idle
  <2> QED  BY <2>2, <2>3
<1>10. \A o \in Tasks \ {t} : step'[o] = step[o]
  BY <1>1 DEF IInv, TypeOK
<1> QED  BY <1>3, <1>9, <1>10, TaskChangeInStep

LEMMA AttachDoneInStep ==
  ASSUME IInv, TypeOK', TasksInStep, NEW t \in Tasks, AttachDone(t)
  PROVE  TasksInStep'
<1>0. PICK a : a = Attaching(t)
  OBVIOUS
<1>1. /\ InAttach(t) /\ uu[a].down # <<>> /\ UNCHANGED <<src, tgt>>
      /\ IF proc[t] = "attach"
         THEN /\ proc' = [proc EXCEPT ![t] = "connected"]
              /\ step' = [step EXCEPT ![t] = 0]
              /\ uu' = [uu EXCEPT ![a] = Taken(@)]
         ELSE /\ proc' = [proc EXCEPT ![t] = "leave"]
              /\ step' = [step EXCEPT ![t] = 1]
              /\ uu' = [uu EXCEPT ![a] = Taken(@), ![src[t]] = Sent(@, "release")]
  BY <1>0 DEF AttachDone
<1>2. a \in Uus /\ a \in Sockets(t) /\ a = Reading(t) /\ uu[a] \in SocketStates
      /\ src[t] \in Uus /\ src[t] \in Sockets(t) /\ uu[src[t]] \in SocketStates
  BY <1>0, <1>1, OwnSockets DEF Attaching, InAttach, Reading
<1>3. TaskChange(t) /\ Awaiting(t)
  BY <1>1, AttachDoneChange DEF InAttach, Awaiting
<1>4. Tail(uu[a].down) = <<>> /\ Settled(a)
  BY <1>1, <1>2, <1>3, AnswerIsLast DEF TasksInStep
<1>5. Taken(uu[a]).down = <<>> /\ Taken(uu[a]).up = uu[a].up
  BY <1>2, <1>4, DownOfTaken
<1>6. Sockets(t)' = Sockets(t) /\ \A o \in Tasks \ {t} : step'[o] = step[o]
  BY <1>1 DEF Sockets, IInv, TypeOK
<1>7. CASE proc[t] = "attach"
  <2>1. Sockets(t) = {a} /\ uu'[a] = Taken(uu[a])
    <3>1. a = src[t] /\ tgt[t] = None /\ a # None
      BY <1>0, <1>2, <1>7, OwnSockets DEF Attaching
    <3>2. uu'[a] = Taken(uu[a])
      BY <1>1, <1>2, <1>7 DEF IInv, TypeOK
    <3> QED  BY <3>1, <3>2 DEF Sockets
  <2>2. InStep(t, a)'
    BY <1>2, <1>3, <1>4, <1>5, <2>1, StaysIdle
  <2> QED  BY <1>3, <1>6, <2>1, <2>2, TaskChangeInStep
<1>8. CASE proc[t] = "handover"
  <2>0. PICK o : o = src[t]
    OBVIOUS
  <2>1. a = tgt[t] /\ a # o /\ Sockets(t) = {o, a}
    BY <1>0, <1>8, <2>0, OwnSockets DEF Attaching
  <2>2. uu'[a] = Taken(uu[a]) /\ uu'[o] = Sent(uu[o], "release")
    BY <1>1, <1>2, <1>8, <2>0, <2>1 DEF IInv, TypeOK
  <2>3. InStep(t, a)'
    BY <1>2, <1>3, <1>4, <1>5, <2>2, StaysIdle
  <2>4. Idle(o)
    BY <1>2, <1>3, <2>0, <2>1, NothingOwed DEF TasksInStep, Owed
  <2>5. Owed(t, o)' = "release" /\ "release" \in Kinds
    <3>1. proc'[t] = "leave" /\ step'[t] = 1 /\ src'[t] = o
      BY <1>1, <1>8, <2>0 DEF IInv, TypeOK
    <3> QED  BY <3>1 DEF Owed, Reading, Expected, InAttach, Kinds
  <2>6. /\ uu'[o].down = <<>>
        /\ uu[o].ru = "closed" \/ uu'[o].up = Append(uu[o].up, "release")
    BY <1>2, <2>0, <2>2, <2>4, <2>5, SentSocket, DownOfSent DEF Idle
  <2>7. InStep(t, o)'
    BY <1>2, <1>3, <2>0, <2>4, <2>5, <2>6, SentInStep DEF Idle
  <2> QED  BY <1>3, <1>6, <2>1, <2>3, <2>7, TaskChangeInStep
<1> QED  BY <1>1, <1>7, <1>8 DEF InAttach

LEMMA LeaveInStep ==
  ASSUME IInv, TypeOK', TasksInStep, NEW t \in Tasks, TaskChange(t), NEW cs, Leave(t, cs)
  PROVE  TasksInStep'
<1>1. step' = [step EXCEPT ![t] = 0] /\ proc'[t] = "out"
  BY DEF Leave, IInv, TypeOK
<1> QED  BY <1>1, NotAwaitingInStep DEF Awaiting

\* A task is back to connected, or goes on in the target cell: it had nothing
\* under way on the socket it keeps.
LEMMA ConnectedInStep ==
  ASSUME IInv, TypeOK', TasksInStep, NEW t \in Tasks, TaskChange(t), Awaiting(t),
         NEW n, step' = [step EXCEPT ![t] = n],
         NEW b \in Sockets(t), b # Reading(t), Sockets(t)' = {b}, uu'[b] = uu[b]
  PROVE  TasksInStep'
<1>1. Idle(b) /\ b \in Uus
  BY NothingOwed, OwnSockets DEF TasksInStep, Owed
<1>2. InStep(t, b)'
  BY <1>1, StaysIdle DEF Idle
<1>3. \A o \in Tasks \ {t} : step'[o] = step[o]
  BY DEF IInv, TypeOK
<1> QED  BY <1>2, <1>3, TaskChangeInStep

LEMMA AttachFailedInStep ==
  ASSUME IInv, TypeOK', TasksInStep, NEW t \in Tasks, AttachFailed(t)
  PROVE  TasksInStep'
<1>1. TaskChange(t)
  BY AttachFailedChange
<1>2. CASE proc[t] = "attach"
  BY <1>1, <1>2, LeaveInStep DEF AttachFailed
<1>3. CASE proc[t] = "handover"
  <2> DEFINE a == tgt[t]
  <2>1. /\ proc' = [proc EXCEPT ![t] = "connected"] /\ step' = [step EXCEPT ![t] = 0]
        /\ tgt' = [tgt EXCEPT ![t] = None] /\ uu' = [uu EXCEPT ![a] = ClientClosed(@)]
        /\ UNCHANGED src
    BY <1>3 DEF AttachFailed, Stay
  <2>2. a # src[t] /\ Reading(t) = a /\ src[t] \in Sockets(t) /\ src[t] \in Uus /\ Awaiting(t)
    BY <1>3, OwnSockets DEF Reading, Awaiting
  <2>3. Sockets(t)' = {src[t]} /\ uu'[src[t]] = uu[src[t]]
    BY <2>1, <2>2, UusAssumption DEF Sockets, IInv, TypeOK
  <2> QED  BY <1>1, <2>1, <2>2, <2>3, ConnectedInStep
<1> QED  BY <1>2, <1>3 DEF AttachFailed, InAttach

LEMMA ReportAnsweredInStep ==
  ASSUME IInv, TypeOK', TasksInStep, NEW t \in Tasks, ReportAnswered(t)
  PROVE  TasksInStep'
<1>1. PICK a \in Uus : a = src[t] /\ Sockets(t) = {a} /\ uu[a] \in SocketStates
  BY OwnSockets DEF ReportAnswered
<1>2. TaskChange(t) /\ proc[t] \in {"measure", "data"} /\ uu[a].down # <<>>
  BY <1>1, ReportAnsweredChange DEF ReportAnswered
<1>3. CASE proc[t] = "measure" /\ ~Head(uu[src[t]].down).ok
  BY <1>2, <1>3, LeaveInStep DEF ReportAnswered
<1>4. CASE ~(proc[t] = "measure" /\ ~Head(uu[src[t]].down).ok)
  <2>1. uu' = [uu EXCEPT ![a] = Taken(@)] /\ UNCHANGED <<step, src, tgt>>
    BY <1>1, <1>4 DEF ReportAnswered
  <2>2. uu'[a] = Taken(uu[a]) /\ Sockets(t)' = {a}
    BY <1>1, <2>1 DEF Sockets, IInv, TypeOK
  <2>3. Tail(uu[a].down) = <<>> /\ Settled(a)
    BY <1>1, <1>2, AnswerIsLast DEF TasksInStep, Awaiting
  <2>4. uu'[a].down = <<>> /\ uu'[a].up = uu[a].up
    BY <1>1, <2>2, <2>3, DownOfTaken
  <2>5. InStep(t, a)'
    BY <1>2, <2>3, <2>4, StaysIdle
  <2> QED  BY <1>2, <2>1, <2>2, <2>5, TaskChangeInStep
<1> QED  BY <1>3, <1>4

LEMMA SaysInStep ==
  ASSUME IInv, TypeOK', TasksInStep, NEW t \in Tasks, TaskChange(t), proc[t] = "connected",
         NEW at \in {"measure", "data", "release"},
         proc' = [proc EXCEPT ![t] = at],
         uu' = [uu EXCEPT ![src[t]] = Sent(@, at)],
         IF at = "release" THEN step' = [step EXCEPT ![t] = 1] ELSE step' = step,
         UNCHANGED <<src, tgt>>
  PROVE  TasksInStep'
<1>1. PICK a \in Uus : a = src[t] /\ Sockets(t) = {a} /\ uu[a] \in SocketStates
  BY OwnSockets
<1>2. uu'[a] = Sent(uu[a], at) /\ Sockets(t)' = {a}
  BY <1>1 DEF Sockets, IInv, TypeOK
<1>3. Idle(a)
  BY <1>1, NothingOwed DEF TasksInStep, Awaiting, Owed, Reading, Expected, InAttach
<1>4. at \in Kinds
  BY DEF Kinds
<1>5. Owed(t, a)' = at
  <2>1. proc'[t] = at /\ src'[t] = a /\ (at = "release" => step'[t] = 1)
    BY <1>1 DEF IInv, TypeOK
  <2> QED  BY <2>1 DEF Owed, Reading, Expected, InAttach
<1>6. /\ uu'[a].down = <<>>
      /\ uu[a].ru = "closed" \/ uu'[a].up = Append(uu[a].up, at)
  BY <1>1, <1>2, <1>3, <1>4, SentSocket, DownOfSent DEF Idle
<1>7. InStep(t, a)'
  BY <1>3, <1>4, <1>5, <1>6, SentInStep DEF Idle
<1>8. \A o \in Tasks \ {t} : step'[o] = step[o]
  BY DEF IInv, TypeOK
<1> QED  BY <1>2, <1>7, <1>8, TaskChangeInStep

LEMMA ReportInStep ==
  ASSUME IInv, TypeOK', TasksInStep, NEW t \in Tasks, NEW kind \in {"measure", "data"},
         Report(t, kind)
  PROVE  TasksInStep'
<1>1. TaskChange(t)
  BY ReportChange
<1> QED  BY <1>1, SaysInStep DEF Report

LEMMA EndInStep ==
  ASSUME IInv, TypeOK', TasksInStep, NEW t \in Tasks, End(t)
  PROVE  TasksInStep'
<1>1. TaskChange(t)
  BY EndChange
<1> QED  BY <1>1, SaysInStep DEF End

LEMMA CancelInStep ==
  ASSUME IInv, TypeOK', TasksInStep, NEW t \in Tasks, Cancel(t)
  PROVE  TasksInStep'
<1>1. TaskChange(t)
  BY CancelChange
<1>2. CASE proc[t] = "attach"
  BY <1>1, <1>2, LeaveInStep DEF Cancel
<1>3. CASE proc[t] # "attach"
  <2>1. step' = [step EXCEPT ![t] = 1] /\ proc'[t] = "cancel"
    BY <1>3 DEF Cancel, IInv, TypeOK
  <2> QED  BY <1>1, <2>1, NotAwaitingInStep DEF Awaiting
<1> QED  BY <1>2, <1>3

LEMMA ReleaseOnInStep ==
  ASSUME IInv, TypeOK', TasksInStep, NEW t \in Tasks, ReleaseOn(t)
  PROVE  TasksInStep'
<1>1. PICK a \in Uus : a = src[t] /\ a \in Sockets(t) /\ uu[a] \in SocketStates
  BY OwnSockets DEF ReleaseOn, Releasing
<1>2. /\ Releasing(t) /\ uu[a].down # <<>> /\ step' = [step EXCEPT ![t] = 2]
      /\ uu' = [uu EXCEPT ![a] = Sent(Taken(@), "complete")]
      /\ UNCHANGED <<proc, src, tgt>> /\ TaskChange(t)
  BY <1>1, ReleaseOnChange DEF ReleaseOn
<1>3. uu'[a] = Sent(Taken(uu[a]), "complete") /\ \A b \in Uus \ {a} : uu'[b] = uu[b]
  BY <1>2 DEF IInv, TypeOK
<1>4. CASE proc[t] = "cancel"
  <2>1. ~Awaiting(t)'
    BY <1>2, <1>4 DEF Awaiting
  <2> QED  BY <1>2, <2>1, NotAwaitingInStep
<1>5. CASE proc[t] \in {"leave", "release"}
  <2>1. Awaiting(t) /\ a = Reading(t) /\ Sockets(t)' = Sockets(t)
    BY <1>1, <1>2, <1>5 DEF Awaiting, Reading, Sockets
  <2>2. Tail(uu[a].down) = <<>> /\ Settled(a)
    BY <1>1, <1>2, <2>1, AnswerIsLast DEF TasksInStep
  <2>3. /\ uu'[a].down = <<>> /\ "complete" \in Kinds
        /\ uu[a].ru = "closed" \/ uu'[a].up = Append(uu[a].up, "complete")
    <3>1. /\ Taken(uu[a]) \in SocketStates /\ Taken(uu[a]).down = <<>>
          /\ Taken(uu[a]).ru = uu[a].ru /\ Taken(uu[a]).up = uu[a].up
      BY <1>1, <1>2, <2>2, TakenSocket, DownOfTaken
    <3>2. "complete" \in Kinds
      BY DEF Kinds
    <3> DEFINE w == Taken(uu[a])
    <3>3. w \in SocketStates /\ w.down = <<>> /\ w.ru = uu[a].ru /\ w.up = uu[a].up
      BY <3>1
    <3>4. uu'[a] = Sent(w, "complete")
      BY <1>3
    <3> HIDE DEF w
    <3>5. Sent(w, "complete").down = <<>>
      BY <3>2, <3>3, DownOfSent
    <3>6. w.ru = "closed" \/ Sent(w, "complete").up = Append(w.up, "complete")
      BY <3>2, <3>3, SentSocket
    <3> QED  BY <3>2, <3>3, <3>4, <3>5, <3>6
  <2>4. Owed(t, a)' = "complete"
    <3>1. step'[t] = 2
      BY <1>2 DEF IInv, TypeOK
    <3> QED  BY <1>1, <1>2, <1>5, <3>1 DEF Owed, Reading, Expected, InAttach
  <2>5. InStep(t, a)'
    BY <1>2, <2>2, <2>3, <2>4, SentInStep
  <2>6. ASSUME NEW b \in Sockets(t), b # a PROVE InStep(t, b)'
    <3>1. Idle(b) /\ b \in Uus
      BY <2>1, <2>6, NothingOwed, OwnSockets DEF TasksInStep, Owed
    <3> QED  BY <1>2, <1>3, <2>6, <3>1, StaysIdle DEF Idle
  <2>7. \A o \in Tasks \ {t} : step'[o] = step[o]
    BY <1>2 DEF IInv, TypeOK
  <2> QED  BY <1>2, <2>1, <2>5, <2>6, <2>7, TaskChangeInStep
<1> QED  BY <1>2, <1>4, <1>5 DEF Releasing

LEMMA ReleaseDoneInStep ==
  ASSUME IInv, TypeOK', TasksInStep, NEW t \in Tasks, ReleaseDone(t)
  PROVE  TasksInStep'
<1>1. TaskChange(t)
  BY ReleaseDoneChange
<1>2. CASE proc[t] # "leave"
  BY <1>1, <1>2, LeaveInStep DEF ReleaseDone
<1>3. CASE proc[t] = "leave"
  <2>1. PICK a \in Uus, b \in Uus : a = src[t] /\ b = tgt[t] /\ a # b /\ b \in Sockets(t)
    BY <1>3, OwnSockets
  <2>2. /\ step' = [step EXCEPT ![t] = 0]
        /\ src' = [src EXCEPT ![t] = b] /\ tgt' = [tgt EXCEPT ![t] = None]
        /\ uu' = [uu EXCEPT ![a] = ClientClosed(@)]
    BY <1>3, <2>1 DEF ReleaseDone
  <2>3. uu'[b] = uu[b] /\ Sockets(t)' = {b}
    BY <2>1, <2>2, UusAssumption DEF Sockets, IInv, TypeOK
  <2>4. Awaiting(t) /\ b # Reading(t)
    BY <1>3, <2>1 DEF Awaiting, Reading
  <2> QED  BY <1>1, <2>1, <2>2, <2>3, <2>4, ConnectedInStep
<1> QED  BY <1>2, <1>3

LEMMA TaskStepsInStep ==
  ASSUME IInv, TypeOK', TasksInStep, NEW t \in Tasks,
         TaskStep(t) \/ End(t) \/ Cancel(t) \/ \E kind \in {"measure", "data"} : Report(t, kind)
  PROVE  TasksInStep'
<1>1. ASSUME ReportBroken(t) PROVE TasksInStep'
  <2>1. TaskChange(t)
    BY <1>1, ReportBrokenChange
  <2> QED  BY <1>1, <2>1, LeaveInStep DEF ReportBroken
<1> QED  BY <1>1, AttachOnInStep, AttachDoneInStep, AttachFailedInStep, ReportAnsweredInStep,
            ReleaseOnInStep, ReleaseDoneInStep, EndInStep, CancelInStep, ReportInStep
         DEF TaskStep

-----------------------------------------------------------------------------
(* What the radio units, the links and the DU do to the sockets of a task:   *)
(* they lose what is under way, move it on, or turn it into its answer.      *)

Undisturbed(a) ==
  /\ uu'[a].down = uu[a].down
  /\ Live(a)' => /\ Live(a) /\ uu'[a].up = uu[a].up
                 /\ \A r \in OnItsWay(a)' : \E m \in OnItsWay(a) : m.kind = r.kind

LEMMA PathInStep ==
  ASSUME IInv, TasksInStep, UNCHANGED ueVars,
         \A a \in Uus : uu[a].client =>
           Undisturbed(a) \/ \A t \in Tasks : InStep(t, a) => InStep(t, a)'
  PROVE  TasksInStep'
<1> SUFFICES ASSUME NEW t \in Tasks, Awaiting(t)', NEW a \in Sockets(t)'
             PROVE  InStep(t, a)'
  BY DEF TasksInStep
<1>1. UNCHANGED <<proc, step, src, tgt>>
  BY DEF ueVars
<1>2. a \in Sockets(t) /\ a \in Uus /\ uu[a].client
  BY <1>1, OwnSockets DEF Sockets, IInv, TasksApart
<1>3. InStep(t, a)
  BY <1>1, <1>2 DEF TasksInStep, Awaiting
<1>4. Owed(t, a)' = Owed(t, a)
  BY <1>1 DEF Owed, Reading, Expected, InAttach
<1> QED  BY <1>2, <1>3, <1>4, KeptInStep DEF Undisturbed

LEMMA NothingNew ==
  ASSUME NEW a,
         \A o \in Sites : /\ \A m \in Waiting(o)' : m.uu = a => m \in Waiting(o)
                          /\ Range(Replying(o)') \subseteq Range(Replying(o))
  PROVE  OnItsWay(a)' \subseteq OnItsWay(a)
<1>1. Ahead(a)' \subseteq Ahead(a)
  BY DEF Ahead
<1>2. Answers(a)' \subseteq Answers(a)
  BY DEF Answers
<1> QED  BY <1>1, <1>2 DEF OnItsWay

LEMMA FewerInStep ==
  ASSUME IInv, TasksInStep, UNCHANGED <<ueVars, uu>>,
         \A o \in Sites : /\ Waiting(o)' \subseteq Waiting(o)
                          /\ Range(Replying(o)') \subseteq Range(Replying(o))
  PROVE  TasksInStep'
<1>1. ASSUME NEW a \in Uus PROVE Undisturbed(a)
  <2>1. OnItsWay(a)' \subseteq OnItsWay(a)
    BY NothingNew
  <2> QED  BY <2>1 DEF Undisturbed, Live
<1> QED  BY <1>1, PathInStep

LEMMA ResumeInStep ==
  ASSUME IInv, TasksInStep, NEW s \in Sites, Resume(s)
  PROVE  TasksInStep'
<1>1. /\ f1[s] # None /\ queue[s] # <<>>
      /\ queue' = [queue EXCEPT ![s] = Tail(@)]
      /\ wire' = [wire EXCEPT ![f1[s]] = Append(@, Head(queue[s]))]
      /\ UNCHANGED <<ueVars, uu, f1, back>>
  BY DEF Resume
<1>2. f1[s] \in Links /\ Going(s) = wire[f1[s]] /\ \A o \in Sites \ {s} : f1[o] # f1[s]
  BY <1>1, OwnLinks
<1>3. Going(s) \in Seq(Messages) /\ queue[s] \in Seq(Messages)
  BY SequenceTypes
<1>4. PICK m : m = Head(queue[s])
  OBVIOUS
<1>5. m \in Messages /\ Range(queue[s]) = {m} \cup Range(Tail(queue[s]))
  BY <1>1, <1>3, <1>4, HeadTail
<1>6. Range(Append(Going(s), m)) = Range(Going(s)) \cup {m}
  BY <1>3, <1>5, Appended
<1>7. /\ wire'[f1[s]] = Append(Going(s), m) /\ queue'[s] = Tail(queue[s])
      /\ \A k \in Links \ {f1[s]} : wire'[k] = wire[k]
      /\ \A o \in Sites \ {s} : queue'[o] = queue[o]
  BY <1>1, <1>2, <1>4 DEF IInv, TypeOK
<1>8. /\ Going(s)' = Append(Going(s), m) /\ \A o \in Sites \ {s} : Going(o)' = Going(o)
      /\ \A o \in Sites : Replying(o)' = Replying(o)
  <2>1. \A o \in Sites : f1[o] # None => f1[o] \in Links
    BY DEF IInv, TypeOK
  <2> QED  BY <1>1, <1>2, <1>7, <2>1 DEF Going, Replying
<1>9. Waiting(s)' \subseteq Waiting(s)
  BY <1>5, <1>6, <1>7, <1>8 DEF Waiting
<1>10. \A o \in Sites \ {s} : Waiting(o)' = Waiting(o)
  BY <1>7, <1>8 DEF Waiting
<1> QED  BY <1>1, <1>8, <1>9, <1>10, FewerInStep

LEMMA ConnectInStep ==
  ASSUME IInv, TasksInStep, NEW s \in Sites, NEW k \in Links, Connect(s, k)
  PROVE  TasksInStep'
<1>1. /\ f1[s] = None /\ SiteOfLink[k] = s /\ f1' = [f1 EXCEPT ![s] = k] /\ k \notin open
      /\ UNCHANGED <<ueVars, uu, queue, wire, back>> /\ None \notin Links
  BY UusAssumption DEF Connect, DU!Accept
<1>2. wire[k] = <<>> /\ back[k] = <<>>
  BY <1>1 DEF IInv, Linked
<1>3. f1'[s] = k /\ \A o \in Sites \ {s} : f1'[o] = f1[o]
  BY <1>1 DEF IInv, TypeOK
<1>4. \A o \in Sites : Going(o)' = Going(o) /\ Replying(o)' = Replying(o)
  BY <1>1, <1>2, <1>3 DEF Going, Replying
<1>5. \A o \in Sites : Waiting(o)' = Waiting(o)
  BY <1>1, <1>4 DEF Waiting
<1> QED  BY <1>1, <1>4, <1>5, FewerInStep

LEMMA LossInStep ==
  ASSUME IInv, TasksInStep, Restart \/ \E k \in Links : LinkEnd(k)
  PROVE  TasksInStep'
<1>1. PICK K \in SUBSET Links :
        /\ wire' = [j \in Links |-> IF j \in K THEN <<>> ELSE wire[j]]
        /\ UNCHANGED <<ueVars, uu, f1, queue, back>>
  <2>1. CASE Restart
    <3>1. wire' = [j \in Links |-> IF j \in Links THEN <<>> ELSE wire[j]]
      BY <2>1 DEF Restart
    <3> QED  BY <2>1, <3>1 DEF Restart
  <2>2. ASSUME NEW k \in Links, LinkEnd(k)
        PROVE  /\ wire' = [j \in Links |-> IF j \in {k} THEN <<>> ELSE wire[j]]
               /\ UNCHANGED <<ueVars, uu, f1, queue, back>>
    BY <2>2 DEF LinkEnd, IInv, TypeOK
  <2>3. \A k \in Links : {k} \in SUBSET Links
    OBVIOUS
  <2> QED  BY <2>1, <2>2, <2>3
<1>2. \A o \in Sites : Waiting(o)' \subseteq Waiting(o) /\ Replying(o)' = Replying(o)
  BY <1>1, LostRequests
<1> QED  BY <1>1, <1>2, FewerInStep

\* What is pending on the link that is lost fails, and fails unseen by the UE.
LEMMA LinkLostInStep ==
  ASSUME IInv, TasksInStep, NEW s \in Sites, LinkLost(s)
  PROVE  TasksInStep'
<1>1. PICK k : k = f1[s]
  OBVIOUS
<1>2. /\ k # None /\ f1' = [f1 EXCEPT ![s] = None] /\ back' = [back EXCEPT ![k] = <<>>]
      /\ wire' = [wire EXCEPT ![k] = IF k \in open THEN Orphaned(@) ELSE <<>>]
      /\ uu' = [a \in Uus |->
                  IF a \notin Pending(s) THEN uu[a]
                  ELSE AtAwait(uu[a], IF uu[a].ru = "f1" THEN "failed" ELSE "closed")]
      /\ queue' = [queue EXCEPT ![s] = <<>>]
      /\ UNCHANGED ueVars
  BY <1>1 DEF LinkLost
<1>3. \A o \in Sites \ {s} : f1[o] # k
  BY <1>1, <1>2, OwnLinks
<1>4. f1'[s] = None /\ \A o \in Sites \ {s} : f1'[o] = f1[o]
  BY <1>2 DEF IInv, TypeOK
<1>5. \A j \in Links \ {k} : back'[j] = back[j] /\ wire'[j] = wire[j]
  BY <1>2 DEF IInv, TypeOK
<1>6. /\ Going(s)' = <<>> /\ Replying(s)' = <<>>
      /\ \A o \in Sites \ {s} : Going(o)' = Going(o) /\ Replying(o)' = Replying(o)
  <2>1. \A o \in Sites \ {s} : f1[o] # None => f1[o] \in Links \ {k}
    BY <1>3 DEF IInv, TypeOK
  <2> QED  BY <1>4, <1>5, <2>1 DEF Going, Replying
<1>7. \A o \in Sites : /\ Waiting(o)' \subseteq Waiting(o)
                       /\ Range(Replying(o)') \subseteq Range(Replying(o))
  <2>1. queue'[s] = <<>> /\ \A o \in Sites \ {s} : queue'[o] = queue[o]
    BY <1>2 DEF IInv, TypeOK
  <2> QED  BY <1>6, <2>1, NothingInEmpty DEF Waiting
<1>8. ASSUME NEW a \in Uus, uu[a].client PROVE Undisturbed(a)
  <2>1. OnItsWay(a)' \subseteq OnItsWay(a)
    BY <1>7, NothingNew
  <2>2. CASE a \notin Pending(s)
    <3>1. uu'[a] = uu[a]
      BY <1>2, <2>2
    <3> QED  BY <2>1, <3>1 DEF Undisturbed, Live
  <2>3. CASE a \in Pending(s)
    <3>1. PICK await \in {"failed", "closed"} : uu'[a] = AtAwait(uu[a], await)
      BY <1>2, <2>3
    <3>2. uu[a] \in SocketStates
      BY DEF IInv, TypeOK
    <3>3. uu'[a].ru = await /\ uu'[a].down = uu[a].down
      BY <1>8, <3>1, <3>2, AtAwaitSocket, DownAtAwait
    <3> QED  BY <3>3 DEF Undisturbed, Live
  <2> QED  BY <2>2, <2>3
<1> QED  BY <1>2, <1>8, PathInStep

\* A request becomes its answer, which is of the same kind.
LEMMA HandleInStep ==
  ASSUME IInv, TasksInStep, NEW k \in Links, Handle(k)
  PROVE  TasksInStep'
<1>1. PICK m : m = Head(wire[k])
  OBVIOUS
<1>2. /\ wire[k] # <<>> /\ wire' = [wire EXCEPT ![k] = Tail(@)]
      /\ UNCHANGED <<ueVars, uu, f1, queue>>
  BY DEF Handle
<1>3. wire[k] \in Seq(Messages)
  BY DEF IInv, TypeOK
<1>4. /\ m \in Messages /\ m \in Range(wire[k])
      /\ Range(Tail(wire[k])) \subseteq Range(wire[k])
  BY <1>1, <1>2, <1>3, HeadTail
<1>5. wire'[k] = Tail(wire[k]) /\ \A j \in Links \ {k} : wire'[j] = wire[j]
  BY <1>2 DEF IInv, TypeOK
<1>6. \A o \in Sites : f1[o] # None => f1[o] \in Links
  BY DEF IInv, TypeOK
<1>7. \A o \in Sites : Waiting(o)' \subseteq Waiting(o)
  <2>1. \A o \in Sites : Range(Going(o)') \subseteq Range(Going(o))
    BY <1>2, <1>4, <1>5, <1>6 DEF Going
  <2> QED  BY <1>2, <2>1 DEF Waiting
<1>8. CASE f1[SiteOfLink[k]] # k
  <2>1. \A o \in Sites : Replying(o)' = Replying(o)
    BY <1>2, <1>8 DEF Handle, Replying
  <2> QED  BY <1>2, <1>7, <2>1, FewerInStep
<1>9. CASE f1[SiteOfLink[k]] = k
  <2>1. PICK s, r : s = SiteOfLink[k] /\ r = [uu |-> m.uu, kind |-> m.kind, ok |-> Accepted(m)]
    OBVIOUS
  <2>2. s \in Sites /\ f1[s] = k /\ k # None /\ Going(s) = wire[k] /\ Replying(s) = back[k]
        /\ \A o \in Sites \ {s} : f1[o] # k
    BY <1>9, <2>1, SitesAssumption, UusAssumption, OwnLinks DEF IInv, Linked, Going, Replying
  <2>3. back' = [back EXCEPT ![k] = Append(@, r)]
    BY <1>1, <1>9, <2>1 DEF Handle
  <2>4. back'[k] = Append(back[k], r) /\ \A j \in Links \ {k} : back'[j] = back[j]
    BY <2>3 DEF IInv, TypeOK
  <2>5. Range(Append(back[k], r)) = Range(back[k]) \cup {r}
    <3>1. \A q \in Seq(Replies \cup {r}) : Range(Append(q, r)) = Range(q) \cup {r}
      BY Appended
    <3>2. back[k] \in Seq(Replies \cup {r})
      BY DEF IInv, TypeOK
    <3> QED  BY <3>1, <3>2
  <2>6. /\ Range(Replying(s)') = Range(Replying(s)) \cup {r}
        /\ \A o \in Sites \ {s} : Replying(o)' = Replying(o)
    BY <1>2, <1>6, <2>2, <2>4, <2>5 DEF Replying
  <2>7. m \in Waiting(s) /\ r.uu = m.uu /\ r.kind = m.kind
    BY <1>4, <2>1, <2>2 DEF Waiting
  <2>8. ASSUME NEW a \in Uus, NEW n \in OnItsWay(a)'
        PROVE  \E o \in OnItsWay(a) : o.kind = n.kind
    <3>1. CASE n \in Ahead(a)'
      <4>1. n \in Ahead(a)
        BY <1>7, <3>1 DEF Ahead
      <4> QED  BY <4>1 DEF OnItsWay
    <3>2. CASE n \in Answers(a)'
      <4>1. n.uu = a /\ (n \in Answers(a) \/ n = r)
        BY <2>6, <3>2 DEF Answers
      <4>2. n = r => m \in Ahead(a)
        BY <2>2, <2>7, <4>1 DEF Ahead
      <4> QED  BY <2>7, <4>1, <4>2 DEF OnItsWay
    <3> QED  BY <3>1, <3>2 DEF OnItsWay
  <2>9. ASSUME NEW a \in Uus PROVE Undisturbed(a)
    BY <1>2, <2>8 DEF Undisturbed, Live
  <2> QED  BY <1>2, <2>9, PathInStep
<1> QED  BY <1>8, <1>9

-----------------------------------------------------------------------------
(* serve_ue: it passes an uplink on, makes its own request, relays a reply. *)

\* F1.request adds its message to what is on its way of that socket alone.
LEMMA RequestOnItsWay ==
  ASSUME IInv, NEW a \in Uus, NEW kind \in Kinds,
         uu[a].ue \in UEs, uu[a].cell \in Cells, Request(a, kind), UNCHANGED f1,
         \A o \in Sites : Range(Replying(o)') \subseteq Range(Replying(o)),
         NEW b, NEW n \in OnItsWay(b)'
  PROVE  n \in OnItsWay(b) \/ (b = a /\ n.kind = kind)
<1>1. PICK s \in Sites : s = SiteOf[uu[a].cell]
  BY SitesAssumption
<1>2. PICK m : m = Message(a, kind)
  OBVIOUS
<1>3. /\ m \in Messages /\ m.uu = a /\ m.kind = kind
      /\ \A o \in Sites \ {s} : Going(o)' = Going(o) /\ queue'[o] = queue[o]
      /\ \/ Going(s)' = Append(Going(s), m) /\ queue'[s] = queue[s]
         \/ Going(s)' = Going(s) /\ queue'[s] = Append(queue[s], m)
  BY <1>1, <1>2, RequestEffect
<1>4. /\ Range(Append(Going(s), m)) = Range(Going(s)) \cup {m}
      /\ Range(Append(queue[s], m)) = Range(queue[s]) \cup {m}
  BY <1>3, SequenceTypes, Appended
<1>5. \A o \in Sites : Waiting(o)' \subseteq Waiting(o) \cup {m}
  BY <1>3, <1>4 DEF Waiting
<1>6. CASE n \in Answers(b)'
  <2>1. n \in Answers(b)
    BY <1>6 DEF Answers
  <2> QED  BY <2>1 DEF OnItsWay
<1>7. CASE n \in Ahead(b)'
  <2>1. n.uu = b /\ (n \in Ahead(b) \/ n = m)
    BY <1>5, <1>7 DEF Ahead
  <2> QED  BY <1>3, <2>1 DEF OnItsWay
<1> QED  BY <1>6, <1>7 DEF OnItsWay

LEMMA UplinkInStep ==
  ASSUME IInv, TasksInStep, NEW a \in Uus, Uplink(a)
  PROVE  TasksInStep'
<1>1. PICK up, kind : up = uu[a].up /\ kind = Head(up)
  OBVIOUS
<1>2. /\ uu[a].ru \in {"new", "recv"} /\ up # <<>> /\ Request(a, kind)
      /\ uu' = [uu EXCEPT ![a] = Passed(@)]
      /\ UNCHANGED <<ueVars, f1, back>>
  BY <1>1 DEF Uplink
<1>3. uu[a] \in SocketStates /\ up \in Seq(Kinds)
  BY <1>1 DEF IInv, TypeOK, SocketStates
<1>4. kind \in Kinds /\ kind = up[1] /\ 1 \in 1..Len(up) /\ Tail(up) \in Seq(Kinds)
      /\ (Len(up) <= 1 => Tail(up) = <<>>)
  BY <1>1, <1>2, <1>3
<1>5. uu[a].ue \in UEs /\ uu[a].cell \in Cells
  BY <1>2 DEF IInv, SocketsFit
<1>6. \A b : \A n \in OnItsWay(b)' : n \in OnItsWay(b) \/ (b = a /\ n.kind = kind)
  <2>1. \A o \in Sites : Range(Replying(o)') \subseteq Range(Replying(o))
    BY <1>2 DEF Replying
  <2> QED  BY <1>2, <1>4, <1>5, <2>1, RequestOnItsWay
<1>7. \A b \in Uus \ {a} : uu'[b] = uu[b]
  BY <1>2 DEF IInv, TypeOK
<1>8. uu'[a].up = Tail(up) /\ uu'[a].down = uu[a].down
  <2>1. uu'[a] = Passed(uu[a])
    BY <1>2 DEF IInv, TypeOK
  <2> QED  BY <1>1, <1>3, <2>1 DEF Passed, SocketStates
<1>9. OnItsWay(a) = {} /\ Live(a)
  BY <1>2, NothingAhead DEF OnItsWay, Live
<1>10. ASSUME NEW t \in Tasks, InStep(t, a) PROVE InStep(t, a)'
  <2>1. Len(up) <= 1 /\ kind = Owed(t, a) /\ uu[a].down = <<>>
    BY <1>1, <1>2, <1>4, <1>9, <1>10 DEF InStep
  <2>2. uu'[a].up = <<>> /\ uu'[a].down = <<>>
    BY <1>4, <1>8, <2>1
  <2>3. Owed(t, a)' = Owed(t, a)
    BY <1>2 DEF ueVars, Owed, Reading, Expected, InAttach
  <2>4. \A n \in OnItsWay(a)' : n.kind = Owed(t, a)
    BY <1>6, <1>9, <2>1
  <2>5. Len(<<>>) = 0 /\ \A i \in 1..0 : FALSE
    OBVIOUS
  <2> QED  BY <2>2, <2>3, <2>4, <2>5 DEF InStep
<1>11. ASSUME NEW b \in Uus, b # a PROVE Undisturbed(b)
  BY <1>6, <1>7, <1>11 DEF Undisturbed, Live
<1> QED  BY <1>2, <1>10, <1>11, PathInStep

LEMMA FinallyInStep ==
  ASSUME IInv, TasksInStep, NEW a \in Uus, uu[a].ue \in UEs, uu[a].cell \in Cells,
         Finally(a), UNCHANGED <<ueVars, f1>>,
         \A o \in Sites : Range(Replying(o)') \subseteq Range(Replying(o))
  PROVE  TasksInStep'
<1>1. Request(a, "release") /\ uu' = [uu EXCEPT ![a] = Ending(@)] /\ "release" \in Kinds
  BY DEF Finally, Kinds
<1>2. \A b : \A n \in OnItsWay(b)' : n \in OnItsWay(b) \/ b = a
  BY <1>1, RequestOnItsWay
<1>3. uu'[a].ru = "synthetic" /\ uu'[a].down = uu[a].down
  <2>1. uu'[a] = Ending(uu[a]) /\ uu[a] \in SocketStates
    BY <1>1 DEF IInv, TypeOK
  <2> QED  BY <2>1 DEF Ending, SocketStates
<1>4. Undisturbed(a)
  BY <1>3 DEF Undisturbed, Live
<1>5. ASSUME NEW b \in Uus, b # a PROVE Undisturbed(b)
  <2>1. uu'[b] = uu[b]
    BY <1>1, <1>5 DEF IInv, TypeOK
  <2> QED  BY <1>2, <1>5, <2>1 DEF Undisturbed, Live
<1> QED  BY <1>4, <1>5, PathInStep

LEMMA HangupInStep ==
  ASSUME IInv, TasksInStep, NEW a \in Uus, Hangup(a) \/ RequestFailed(a)
  PROVE  TasksInStep'
<1>1. uu[a].ru \in {"new", "recv", "failed"} /\ UNCHANGED <<ueVars, f1, back>>
  BY DEF Hangup, RequestFailed
<1>2. uu[a].ue \in UEs /\ uu[a].cell \in Cells
  BY <1>1 DEF IInv, SocketsFit
<1>3. \A o \in Sites : Range(Replying(o)') \subseteq Range(Replying(o))
  BY <1>1 DEF Replying
<1>4. CASE Finally(a)
  BY <1>1, <1>2, <1>3, <1>4, FinallyInStep
<1>5. CASE ~uu[a].client /\ uu' = [uu EXCEPT ![a] = GoneUu] /\ UNCHANGED <<queue, wire>>
  <2>1. \A o \in Sites : Waiting(o)' = Waiting(o)
    BY <1>1, <1>5 DEF Waiting, Going
  <2>2. ASSUME NEW b \in Uus, uu[b].client PROVE Undisturbed(b)
    <3>1. uu'[b] = uu[b]
      BY <1>5, <2>2 DEF IInv, TypeOK
    <3>2. OnItsWay(b)' \subseteq OnItsWay(b)
      BY <1>3, <2>1, NothingNew
    <3> QED  BY <3>1, <3>2 DEF Undisturbed, Live
  <2> QED  BY <1>1, <2>2, PathInStep
<1> QED  BY <1>4, <1>5 DEF Hangup, RequestFailed

\* The answer is the only thing that was under way.
LEMMA ReplyInStep ==
  ASSUME IInv, MessagesFit', TasksInStep, NEW s \in Sites, Reply(s)
  PROVE  TasksInStep'
<1>1. /\ f1[s] # None /\ back[f1[s]] # <<>> /\ UNCHANGED <<ueVars, f1>>
      /\ back' = [back EXCEPT ![f1[s]] = Tail(@)]
  BY DEF Reply
<1>2. /\ f1[s] \in Links /\ Replying(s) = back[f1[s]]
      /\ \A o \in Sites \ {s} : f1[o] # f1[s]
  BY <1>1, OwnLinks
<1>3. PICK r : r = Head(Replying(s))
  OBVIOUS
<1>4. PICK a : a = r.uu
  OBVIOUS
<1>5. /\ r \in Replies /\ r \in Range(Replying(s))
      /\ Range(Tail(Replying(s))) \subseteq Range(Replying(s))
  BY <1>1, <1>2, <1>3, SequenceTypes, HeadTail
<1>6. /\ Replying(s)' = Tail(Replying(s))
      /\ \A o \in Sites \ {s} : Replying(o)' = Replying(o)
  <2>1. \A o \in Sites : f1[o] # None => f1[o] \in Links
    BY DEF IInv, TypeOK
  <2>2. /\ back'[f1[s]] = Tail(Replying(s))
        /\ \A k \in Links \ {f1[s]} : back'[k] = back[k]
    BY <1>1, <1>2 DEF IInv, TypeOK
  <2> QED  BY <1>1, <1>2, <2>1, <2>2 DEF Replying
<1>7. \A o \in Sites : Range(Replying(o)') \subseteq Range(Replying(o))
  BY <1>5, <1>6
<1>8. /\ a \in Uus /\ uu[a].ue \in UEs /\ uu[a].cell \in Cells
      /\ uu[a] \in SocketStates /\ r \in OnItsWay(a)
  <2>1. From(a, s)
    BY <1>4, <1>5 DEF IInv, MessagesFit
  <2> QED  BY <1>4, <1>5, <2>1 DEF From, IInv, SocketsFit, TypeOK, OnItsWay, Answers
<1>9. CASE Finally(a)
  BY <1>1, <1>7, <1>8, <1>9, FinallyInStep
<1>10. ASSUME UNCHANGED <<queue, wire>>, NEW b PROVE OnItsWay(b)' \subseteq OnItsWay(b)
  <2>1. \A o \in Sites : Waiting(o)' = Waiting(o)
    BY <1>1, <1>10 DEF Waiting, Going
  <2> QED  BY <1>7, <2>1, NothingNew
<1>11. ASSUME UNCHANGED <<queue, wire>>, NEW b \in Uus, uu'[b] = uu[b]
       PROVE  Undisturbed(b)
  <2>1. OnItsWay(b)' \subseteq OnItsWay(b)
    BY <1>10, <1>11
  <2> QED  BY <1>11, <2>1 DEF Undisturbed, Live
<1>12. CASE uu' = [uu EXCEPT ![a] = AtAwait(@, "closed")] /\ UNCHANGED <<queue, wire>>
  <2>1. uu'[a] = AtAwait(uu[a], "closed") /\ \A b \in Uus \ {a} : uu'[b] = uu[b]
    BY <1>8, <1>12 DEF IInv, TypeOK
  <2>2. ASSUME uu[a].client PROVE Undisturbed(a)
    <3>1. uu'[a].ru = "closed" /\ uu'[a].down = uu[a].down
      BY <1>8, <2>1, <2>2, AtAwaitSocket, DownAtAwait
    <3> QED  BY <3>1 DEF Undisturbed, Live
  <2> QED  BY <1>1, <1>11, <1>12, <2>1, <2>2, PathInStep
<1>13. ASSUME NEW await \in {"recv", "closed"}, uu[a].ru = "f1",
              uu' = [uu EXCEPT ![a] = AtAwait(Replied(@, r), await)], UNCHANGED <<queue, wire>>
       PROVE  TasksInStep'
  <2>1. PICK n : n = Replied(uu[a], r)
    OBVIOUS
  <2>2. n \in SocketStates /\ n.client = uu[a].client /\ n.up = uu[a].up
    BY <1>5, <1>8, <2>1, RepliedSocket
  <2>3. uu'[a] = AtAwait(n, await) /\ \A b \in Uus \ {a} : uu'[b] = uu[b]
    BY <1>8, <1>13, <2>1 DEF IInv, TypeOK
  <2>4. ASSUME uu[a].client, NEW t \in Tasks, InStep(t, a) PROVE InStep(t, a)'
    <3>1. uu[a].up = <<>> /\ uu[a].down = <<>> /\ r.kind = Owed(t, a)
      BY <1>8, <1>13, <2>4 DEF InStep, Live
    <3>2. /\ uu'[a].ru = await /\ uu'[a].up = <<>> /\ uu'[a].down = n.down
      <4>1. n.client
        BY <2>2, <2>4
      <4>2. AtAwait(n, await).ru = await /\ AtAwait(n, await).up = n.up
        BY <2>2, <4>1, AtAwaitSocket
      <4>3. AtAwait(n, await).down = n.down
        BY <2>2, <4>1, DownAtAwait
      <4> QED  BY <2>2, <2>3, <3>1, <4>2, <4>3
    <3>3. PICK d : d = [kind |-> r.kind, ok |-> r.ok]
      OBVIOUS
    <3>4. uu'[a].down = <<d>> /\ d.kind = Owed(t, a)
      <4>1. n.down = Append(uu[a].down, d)
        BY <1>8, <2>1, <2>4, <3>3 DEF Replied, SocketStates
      <4> QED  BY <3>1, <3>2, <3>3, <4>1
    <3>5. OnItsWay(a)' = {}
      BY <3>2 DEF MessagesFit, From, OnItsWay, Ahead, Answers
    <3>6. Owed(t, a)' = Owed(t, a)
      BY <1>1 DEF ueVars, Owed, Reading, Expected, InAttach
    <3>7. ASSUME NEW down, down = <<d>>
          PROVE  Len(down) <= 1 /\ \A i \in 1..Len(down) : down[i].kind = Owed(t, a)
      BY <3>4, <3>7
    <3>8. Len(<<>>) = 0 /\ \A i \in 1..0 : FALSE
      OBVIOUS
    <3> QED  BY <3>2, <3>4, <3>5, <3>6, <3>7, <3>8 DEF InStep
  <2>5. \A b \in Uus \ {a} : Undisturbed(b)
    BY <1>11, <1>13, <2>3
  <2> QED  BY <1>1, <2>4, <2>5, PathInStep
<1> QED
  <2>1. a = Head(back[f1[s]]).uu /\ r = Head(back[f1[s]])
    BY <1>2, <1>3, <1>4
  <2> QED  BY <1>9, <1>12, <1>13, <2>1 DEF Reply

-----------------------------------------------------------------------------
(* A new socket carries the first message of the attach flow. *)

LEMMA OpenInStep ==
  ASSUME IInv, TasksInStep, NEW t \in Tasks, NEW a \in Uus, NEW u \in UEs, NEW c \in Cells,
         uu[a] = NoUu, uu' = [uu EXCEPT ![a] = NewUu(u, c)], UNCHANGED f1Vars,
         \A o \in Tasks \ {t} : /\ proc'[o] = proc[o] /\ step'[o] = step[o]
                                /\ src'[o] = src[o] /\ tgt'[o] = tgt[o],
         Sockets(t)' = Sockets(t) \cup {a}, \A b \in Sockets(t) : Idle(b),
         Reading(t)' = a, Expected(t)' = AttachFlow[1]
  PROVE  TasksInStep'
<1>1. uu'[a].up = <<AttachFlow[1]>> /\ uu'[a].down = <<>>
  BY DEF IInv, TypeOK, NewUu
<1>2. \A b \in Uus \ {a} : uu'[b] = uu[b]
  BY DEF IInv, TypeOK
<1>3. \A b : OnItsWay(b)' = OnItsWay(b)
  BY DEF f1Vars, OnItsWay, Ahead, Answers, Waiting, Going, Replying
<1>4. ~uu[a].client /\ uu[a].ru = "unopened"
  BY DEF NoUu
<1>5. OnItsWay(a) = {}
  BY <1>4, NothingAhead DEF OnItsWay
<1>6. \A o \in Tasks : \A b \in Sockets(o) : b \in Uus /\ b # a
  BY <1>4, OwnSockets DEF IInv, TasksApart
<1>7. InStep(t, a)'
  <2>1. ASSUME NEW up, up = <<AttachFlow[1]>>
        PROVE  Len(up) <= 1 /\ \A i \in 1..Len(up) : up[i] = AttachFlow[1]
    BY <2>1
  <2>2. Len(<<>>) = 0 /\ \A i \in 1..0 : FALSE
    OBVIOUS
  <2>3. Owed(t, a)' = AttachFlow[1]
    BY DEF Owed
  <2>4. Len(uu'[a].up) <= 1 /\ \A i \in 1..Len(uu'[a].up) : uu'[a].up[i] = AttachFlow[1]
    BY <1>1, <2>1
  <2>5. OnItsWay(a)' = {}
    BY <1>3, <1>5
  <2> QED  BY <1>1, <2>2, <2>3, <2>4, <2>5 DEF InStep
<1>8. ASSUME NEW b \in Sockets(t) PROVE InStep(t, b)'
  <2>1. Idle(b)'
    BY <1>2, <1>3, <1>6 DEF Idle, Settled, Live
  <2> QED  BY <2>1, IdleInStep
<1>9. ASSUME NEW o \in Tasks \ {t}, Awaiting(o)', NEW b \in Sockets(o)' PROVE InStep(o, b)'
  <2>1. b \in Sockets(o) /\ Awaiting(o) /\ Owed(o, b)' = Owed(o, b)
    BY <1>9 DEF Sockets, Awaiting, Owed, Reading, Expected, InAttach
  <2>2. InStep(o, b) /\ uu'[b] = uu[b]
    BY <1>2, <1>6, <2>1 DEF TasksInStep
  <2> QED  BY <1>3, <2>1, <2>2, KeptInStep DEF Live
<1> QED  BY <1>7, <1>8, <1>9 DEF TasksInStep

LEMMA StartInStep ==
  ASSUME IInv, TasksInStep, NEW t \in Tasks, NEW a \in Uus, NEW c \in Cells, Start(t, a, c)
  PROVE  TasksInStep'
<1>1. /\ proc[t] = "out" /\ uu[a] = NoUu
      /\ uu' = [uu EXCEPT ![a] = NewUu(Uid[t], c)] /\ src' = [src EXCEPT ![t] = a]
      /\ proc' = [proc EXCEPT ![t] = "attach"] /\ step' = [step EXCEPT ![t] = 1]
      /\ UNCHANGED <<tgt, f1Vars>> /\ Uid[t] \in UEs
  BY UidAssumption DEF Start, IsNext
<1>2. src[t] = None /\ tgt[t] = None /\ a # None
  BY <1>1, UusAssumption DEF IInv, TypeOK
<1>3. /\ proc'[t] = "attach" /\ step'[t] = 1 /\ src'[t] = a
      /\ \A o \in Tasks \ {t} : /\ proc'[o] = proc[o] /\ step'[o] = step[o]
                                /\ src'[o] = src[o] /\ tgt'[o] = tgt[o]
  BY <1>1 DEF IInv, TypeOK
<1>4. Sockets(t) = {} /\ Sockets(t)' = {a}
  BY <1>1, <1>2, <1>3 DEF Sockets
<1>5. Reading(t)' = a /\ Expected(t)' = AttachFlow[1]
  BY <1>3 DEF Reading, Expected, InAttach
<1> QED  BY <1>1, <1>3, <1>4, <1>5, OpenInStep

LEMMA HandoverInStep ==
  ASSUME IInv, TasksInStep, NEW t \in Tasks, NEW a \in Uus, NEW c \in Cells, Handover(t, a, c)
  PROVE  TasksInStep'
<1>1. /\ proc[t] = "connected" /\ uu[a] = NoUu
      /\ uu' = [uu EXCEPT ![a] = NewUu(Uid[t], c)] /\ tgt' = [tgt EXCEPT ![t] = a]
      /\ proc' = [proc EXCEPT ![t] = "handover"] /\ step' = [step EXCEPT ![t] = 1]
      /\ UNCHANGED <<src, f1Vars>> /\ Uid[t] \in UEs
  BY UidAssumption DEF Handover, IsNext
<1>2. src[t] # None /\ tgt[t] = None /\ a # None
  BY <1>1, UusAssumption DEF IInv, TypeOK
<1>3. /\ proc'[t] = "handover" /\ step'[t] = 1 /\ tgt'[t] = a
      /\ \A o \in Tasks \ {t} : /\ proc'[o] = proc[o] /\ step'[o] = step[o]
                                /\ src'[o] = src[o] /\ tgt'[o] = tgt[o]
  BY <1>1 DEF IInv, TypeOK
<1>4. Sockets(t) = {src[t]} /\ Sockets(t)' = Sockets(t) \cup {a}
  BY <1>1, <1>2, <1>3 DEF Sockets
<1>5. Reading(t)' = a /\ Expected(t)' = AttachFlow[1]
  BY <1>3 DEF Reading, Expected, InAttach
<1>6. \A b \in Sockets(t) : Idle(b)
  <2>1. Awaiting(t) /\ Expected(t) = "none"
    BY <1>1 DEF Awaiting, Expected, InAttach
  <2> QED  BY <2>1, NothingOwed DEF TasksInStep, Owed
<1> QED  BY <1>1, <1>3, <1>4, <1>5, <1>6, OpenInStep

LEMMA StepKeepsInStep == IInv /\ TasksInStep /\ [Next]_vars => TasksInStep'
<1> SUFFICES ASSUME IInv, TasksInStep, [Next]_vars PROVE TasksInStep'
  OBVIOUS
<1>1. TypeOK' /\ MessagesFit'
  BY StepPreserves DEF IInv
<1>2. ASSUME NEW t \in Tasks,
             TaskStep(t) \/ End(t) \/ Cancel(t)
               \/ \E kind \in {"measure", "data"} : Report(t, kind)
      PROVE  TasksInStep'
  BY <1>1, <1>2, TaskStepsInStep
<1>3. ASSUME NEW t \in Tasks, NEW a \in Uus, NEW c \in Cells, Start(t, a, c) \/ Handover(t, a, c)
      PROVE  TasksInStep'
  BY <1>3, StartInStep, HandoverInStep
<1>4. ASSUME NEW a \in Uus, SocketStep(a) PROVE TasksInStep'
  BY <1>4, UplinkInStep, HangupInStep DEF SocketStep
<1>5. ASSUME NEW s \in Sites, SiteStep(s) \/ LinkLost(s) PROVE TasksInStep'
  BY <1>1, <1>5, ReplyInStep, ResumeInStep, ConnectInStep, LinkLostInStep DEF SiteStep
<1>6. ASSUME NEW k \in Links, Handle(k) \/ LinkEnd(k) PROVE TasksInStep'
  BY <1>6, HandleInStep, LossInStep
<1>7. CASE Restart
  BY <1>7, LossInStep
<1>8. CASE Spent \/ UNCHANGED vars
  <2>1. UNCHANGED <<ueVars, uu, f1, queue, wire, back>>
    BY <1>8 DEF Spent, vars, f1Vars
  <2>2. \A o \in Sites : Waiting(o)' = Waiting(o) /\ Replying(o)' = Replying(o)
    BY <2>1 DEF Waiting, Going, Replying
  <2> QED  BY <2>1, <2>2, FewerInStep
<1> QED  BY <1>2, <1>3, <1>4, <1>5, <1>6, <1>7, <1>8 DEF Next

\* The next downlink a UE reads is the answer to the uplink it sent last
\* (_attach and _release, ue_sim.py:554-583, take it for that without looking at
\* it), whatever the other UEs, the radio units, the links and the DU do meanwhile.
THEOREM RepliesInStepHolds == Spec => []RepliesInStep
<1>1. Init => TasksInStep
  BY DEF Init, TasksInStep, Awaiting
<1>2. IInv /\ TasksInStep => RepliesInStep
  <2> SUFFICES ASSUME IInv, TasksInStep, NEW t \in Tasks, proc[t] \notin {"out", "cancel"}
               PROVE  /\ Len(uu[Reading(t)].down) <= 1
                      /\ \A i \in 1..Len(uu[Reading(t)].down) :
                           uu[Reading(t)].down[i].kind = Expected(t)
    BY DEF RepliesInStep
  <2>1. Reading(t) \in Sockets(t)
    BY OwnSockets DEF Reading
  <2> QED  BY <2>1 DEF TasksInStep, Awaiting, InStep, Owed
<1> QED  BY <1>1, <1>2, InitHolds, StepPreserves, StepKeepsInStep, PTL DEF Spec

-----------------------------------------------------------------------------
(* The dictionary of a radio unit.  Its steps are steps of Stack, so what    *)
(* holds there holds with it; what is to be seen is who removes a row.       *)

Rows(s) == {NoRow} \cup [cell : {c \in Cells : SiteOf[c] = s}, grant : {"none", "zero", "granted"}]
RowsFit == /\ rows = [s \in Sites |-> [u \in UEs |-> rows[s][u]]]
           /\ \A s \in Sites, u \in UEs : rows[s][u] \in Rows(s)

\* serve_ue has heard of its UE, and is not past its finally clause.
Serving == {"recv", "f1", "failed"}
Keeper(a, s, u) == uu[a].ue = u /\ uu[a].ru \in Serving /\ SiteOf[uu[a].cell] = s

LEMMA DictionaryInit == DInit => Init /\ RowsFit /\ NoGhostRow
<1> SUFFICES ASSUME DInit PROVE RowsFit /\ NoGhostRow
  BY DEF DInit
<1>1. rows = [s \in Sites |-> [u \in UEs |-> NoRow]]
  BY DEF DInit
<1>2. \A s \in Sites, u \in UEs : rows[s][u] = NoRow
  BY <1>1
<1>3. rows = [s \in Sites |-> [u \in UEs |-> rows[s][u]]]
  BY <1>1, <1>2
<1> QED  BY <1>2, <1>3 DEF RowsFit, Rows, NoGhostRow

LEMMA DictionaryStep == [DNext]_dictVars => [Next]_vars
  BY DEF DNext, DUplink, DHangup, DReply, Unnoted, Next, SocketStep, SiteStep, dictVars

\* A step that writes no row, and after which every serve_ue still serves.
LEMMA KeepersStay ==
  ASSUME RowsFit, NoGhostRow, UNCHANGED rows,
         \A a \in Uus : uu[a].ru \in Serving =>
           uu'[a].ru \in Serving /\ uu'[a].ue = uu[a].ue /\ uu'[a].cell = uu[a].cell
  PROVE  RowsFit' /\ NoGhostRow'
  BY DEF RowsFit, NoGhostRow, Serving

\* A serve_ue writes the row of its UE and goes on serving it, or removes it.
LEMMA KeeperWrites ==
  ASSUME IInv, RowsFit, NoGhostRow, NEW a \in Uus, uu[a].ue \in UEs, uu[a].cell \in Cells,
         \A b \in Uus \ {a} : uu'[b] = uu[b],
         NEW row \in Rows(SiteOf[uu[a].cell]), SetRow(a, row),
         \/ row = NoRow
         \/ uu'[a].ru \in Serving /\ uu'[a].ue = uu[a].ue /\ uu'[a].cell = uu[a].cell
  PROVE  RowsFit' /\ NoGhostRow'
<1>1. PICK s \in Sites, u \in UEs : s = SiteOf[uu[a].cell] /\ u = uu[a].ue
  BY SitesAssumption
<1>2. rows' = [rows EXCEPT ![s][u] = row]
  BY <1>1 DEF SetRow
<1>3. \A p \in Sites, v \in UEs :
        rows'[p][v] = IF p = s /\ v = u THEN row ELSE rows[p][v]
  BY <1>1, <1>2 DEF RowsFit
<1>4. RowsFit'
  <2>1. rows' = [p \in Sites |-> [v \in UEs |-> rows'[p][v]]]
    <3>1. \A p \in Sites : rows[p] = [v \in UEs |-> rows[p][v]]
      BY DEF RowsFit
    <3>2. \A p \in Sites : rows'[p] = [v \in UEs |-> rows'[p][v]]
      BY <1>2, <3>1 DEF RowsFit
    <3>3. rows' = [p \in Sites |-> rows'[p]]
      BY <1>2 DEF RowsFit
    <3> QED  BY <3>2, <3>3
  <2> QED  BY <1>1, <1>3, <2>1 DEF RowsFit
<1>5. ASSUME NEW p \in Sites, NEW v \in UEs, rows'[p][v] # NoRow
      PROVE  \E b \in Uus : Keeper(b, p, v)'
  <2>1. CASE p = s /\ v = u
    BY <1>1, <1>3, <1>5, <2>1 DEF Keeper
  <2>2. CASE ~(p = s /\ v = u)
    <3>1. PICK b \in Uus : Keeper(b, p, v)
      BY <1>3, <1>5, <2>2 DEF NoGhostRow, Keeper, Serving
    <3>2. b # a
      BY <1>1, <2>2, <3>1 DEF Keeper
    <3> QED  BY <3>1, <3>2 DEF Keeper
  <2> QED  BY <2>1, <2>2
<1> QED  BY <1>4, <1>5 DEF NoGhostRow, Keeper, Serving

LEMMA DUplinkKeepsRows ==
  ASSUME IInv, RowsFit, NoGhostRow, NEW a \in Uus, DUplink(a)
  PROVE  RowsFit' /\ NoGhostRow'
<1>1. /\ uu[a].ru \in {"new", "recv"} /\ uu' = [uu EXCEPT ![a] = Passed(@)]
      /\ SetRow(a, NoteUplink(Row(a), uu[a].cell))
  BY DEF DUplink, Uplink
<1>2. uu[a].ue \in UEs /\ uu[a].cell \in Cells /\ SiteOf[uu[a].cell] \in Sites
  BY <1>1, SitesAssumption DEF IInv, SocketsFit
<1>3. uu'[a] = Passed(uu[a]) /\ uu[a] \in SocketStates /\ \A b \in Uus \ {a} : uu'[b] = uu[b]
  BY <1>1 DEF IInv, TypeOK
<1>4. uu'[a].ru = "f1" /\ uu'[a].ue = uu[a].ue /\ uu'[a].cell = uu[a].cell
  BY <1>3 DEF Passed, SocketStates
<1>5. NoteUplink(Row(a), uu[a].cell) \in Rows(SiteOf[uu[a].cell])
  <2>1. Row(a) \in Rows(SiteOf[uu[a].cell])
    BY <1>2 DEF Row, RowsFit
  <2>2. Row(a).grant \in {"none", "zero", "granted"}
    BY <2>1 DEF Rows, NoRow
  <2> QED  BY <1>2, <2>2 DEF NoteUplink, Rows
<1> QED  BY <1>1, <1>2, <1>3, <1>4, <1>5, KeeperWrites DEF Serving

LEMMA DHangupKeepsRows ==
  ASSUME IInv, RowsFit, NoGhostRow, NEW a \in Uus, DHangup(a)
  PROVE  RowsFit' /\ NoGhostRow'
<1>1. uu[a].ru \in {"new", "recv", "failed"} /\ (Hangup(a) \/ RequestFailed(a))
  BY DEF DHangup, Hangup, RequestFailed
<1>2. \A b \in Uus \ {a} : uu'[b] = uu[b]
  BY <1>1 DEF Hangup, RequestFailed, Finally, IInv, TypeOK
<1>3. CASE uu[a].ru = "new"
  <2>1. UNCHANGED rows
    BY <1>3 DEF DHangup
  <2> QED  BY <1>2, <1>3, <2>1, KeepersStay DEF Serving
<1>4. CASE uu[a].ru # "new"
  <2>1. SetRow(a, NoRow) /\ NoRow \in Rows(SiteOf[uu[a].cell])
    BY <1>4 DEF DHangup, Rows
  <2>2. uu[a].ue \in UEs /\ uu[a].cell \in Cells
    BY <1>1 DEF IInv, SocketsFit
  <2> QED  BY <1>2, <2>1, <2>2, KeeperWrites
<1> QED  BY <1>3, <1>4

LEMMA DReplyKeepsRows ==
  ASSUME IInv, RowsFit, NoGhostRow, NEW s \in Sites, DReply(s)
  PROVE  RowsFit' /\ NoGhostRow'
<1>1. PICK r, a : r = Head(back[f1[s]]) /\ a = r.uu
  OBVIOUS
<1>2. f1[s] # None /\ back[f1[s]] # <<>>
  BY DEF DReply, Reply
<1>3. /\ \/ /\ uu[a].ru = "f1"
            /\ uu' = [uu EXCEPT ![a] = AtAwait(Replied(@, r),
                                   IF r.kind = "complete" THEN "closed" ELSE "recv")]
         \/ uu[a].ru = "f1" /\ Finally(a)
         \/ uu[a].ru = "synthetic" /\ uu' = [uu EXCEPT ![a] = AtAwait(@, "closed")]
      /\ IF uu[a].ru # "f1" THEN UNCHANGED rows
         ELSE SetRow(a, IF uu'[a].ru = "recv" THEN NoteDownlink(Row(a), uu[a].cell, r) ELSE NoRow)
  BY <1>1 DEF DReply, Reply
<1>4. r \in Replies /\ r \in Range(Replying(s))
  <2>1. Replying(s) = back[f1[s]]
    BY <1>2, OwnLinks
  <2> QED  BY <1>1, <1>2, <2>1, SequenceTypes, HeadTail
<1>5. /\ a \in Uus /\ SiteOf[uu[a].cell] = s /\ uu[a] \in SocketStates
      /\ uu[a].ue \in UEs /\ uu[a].cell \in Cells
  BY <1>1, <1>4 DEF IInv, MessagesFit, From, SocketsFit, TypeOK
<1>6. \A b \in Uus \ {a} : uu'[b] = uu[b]
  BY <1>3 DEF Finally, IInv, TypeOK
<1>7. CASE uu[a].ru # "f1"
  <2>1. uu[a].ru \notin Serving /\ UNCHANGED rows
    BY <1>3, <1>7 DEF Serving
  <2> QED  BY <1>6, <2>1, KeepersStay
<1>8. CASE uu[a].ru = "f1" /\ uu'[a].ru # "recv"
  <2>1. SetRow(a, NoRow) /\ NoRow \in Rows(SiteOf[uu[a].cell])
    BY <1>3, <1>8 DEF Rows
  <2> QED  BY <1>5, <1>6, <2>1, KeeperWrites
<1>9. CASE uu[a].ru = "f1" /\ uu'[a].ru = "recv"
  <2>1. ~Finally(a)
    <3> SUFFICES ASSUME Finally(a) PROVE FALSE
      OBVIOUS
    <3>1. uu'[a] = Ending(uu[a])
      BY <1>5 DEF Finally, IInv, TypeOK
    <3> QED  BY <1>5, <1>9, <3>1, EndingSocket
  <2>2. PICK await \in {"recv", "closed"} : uu'[a] = AtAwait(Replied(uu[a], r), await)
    BY <1>3, <1>5, <1>9, <2>1 DEF IInv, TypeOK
  <2>3. PICK n : n = Replied(uu[a], r)
    OBVIOUS
  <2>4. n \in SocketStates /\ n.ue = uu[a].ue /\ n.cell = uu[a].cell
    BY <1>4, <1>5, <2>3, RepliedSocket
  <2>5. await = "recv" /\ uu'[a].ue = uu[a].ue /\ uu'[a].cell = uu[a].cell
    BY <1>9, <2>2, <2>3, <2>4, AtAwaitSocket
  <2>6. NoteDownlink(Row(a), uu[a].cell, r) \in Rows(SiteOf[uu[a].cell])
    <3>1. Row(a) \in Rows(SiteOf[uu[a].cell])
      BY <1>5 DEF Row, RowsFit
    <3>2. Row(a).grant \in {"none", "zero", "granted"}
      BY <3>1 DEF Rows, NoRow
    <3>3. GrantOf(r) = "keep" \/ GrantOf(r) \in {"none", "zero", "granted"}
      BY DEF GrantOf
    <3> QED  BY <1>5, <3>2, <3>3 DEF NoteDownlink, Rows
  <2>7. SetRow(a, NoteDownlink(Row(a), uu[a].cell, r))
    BY <1>3, <1>9
  <2> QED  BY <1>5, <1>6, <1>9, <2>5, <2>6, <2>7, KeeperWrites DEF Serving
<1> QED  BY <1>7, <1>8, <1>9

\* No other step ends a serve_ue, or writes a row.
LEMMA UnnotedKeepsRows ==
  ASSUME IInv, TypeOK', RowsFit, NoGhostRow, Unnoted \/ UNCHANGED uu, UNCHANGED rows
  PROVE  RowsFit' /\ NoGhostRow'
<1>1. ASSUME NEW t \in Tasks,
             TaskStep(t) \/ End(t) \/ Cancel(t) \/ \E kind \in {"measure", "data"} : Report(t, kind)
      PROVE  RowsFit' /\ NoGhostRow'
  <2>1. TaskChange(t)
    BY <1>1, AttachOnChange, AttachDoneChange, AttachFailedChange, ReportAnsweredChange,
       ReportBrokenChange, ReleaseOnChange, ReleaseDoneChange, EndChange, CancelChange,
       ReportChange DEF TaskStep
  <2> QED  BY <2>1, TaskChangeSockets, KeepersStay DEF Serving
<1>2. ASSUME NEW t \in Tasks, NEW a \in Uus, NEW c \in Cells, Start(t, a, c) \/ Handover(t, a, c)
      PROVE  RowsFit' /\ NoGhostRow'
  <2>1. uu[a] = NoUu /\ uu' = [uu EXCEPT ![a] = NewUu(Uid[t], c)]
    BY <1>2 DEF Start, Handover, IsNext
  <2>2. uu[a].ru = "unopened" /\ \A b \in Uus \ {a} : uu'[b] = uu[b]
    BY <2>1 DEF NoUu, IInv, TypeOK
  <2> QED  BY <2>2, KeepersStay DEF Serving
<1>3. ASSUME NEW s \in Sites, LinkLost(s)
      PROVE  RowsFit' /\ NoGhostRow'
  <2>1. uu' = [a \in Uus |->
                 IF a \notin Pending(s) THEN uu[a]
                 ELSE AtAwait(uu[a], IF uu[a].ru = "f1" THEN "failed" ELSE "closed")]
    BY <1>3 DEF LinkLost
  <2>2. ASSUME NEW a \in Uus, uu[a].ru \in Serving
        PROVE  uu'[a].ru \in Serving /\ uu'[a].ue = uu[a].ue /\ uu'[a].cell = uu[a].cell
    <3>1. CASE a \notin Pending(s)
      BY <2>1, <2>2, <3>1
    <3>2. CASE a \in Pending(s)
      <4>1. uu[a].ru = "f1" /\ uu[a] \in SocketStates
        BY <2>2, <3>2 DEF Pending, Serving, IInv, TypeOK
      <4>2. uu'[a] = AtAwait(uu[a], "failed")
        BY <2>1, <3>2, <4>1
      <4> QED  BY <4>1, <4>2, AtAwaitSocket DEF Serving
    <3> QED  BY <3>1, <3>2
  <2> QED  BY <2>2, KeepersStay
<1>4. CASE UNCHANGED uu
  BY <1>4, KeepersStay
<1> QED  BY <1>1, <1>2, <1>3, <1>4
         DEF Unnoted, Resume, Connect, Handle, LinkEnd, Restart, Spent, vars

LEMMA DictionaryPreserves ==
  IInv /\ RowsFit /\ NoGhostRow /\ [DNext]_dictVars => RowsFit' /\ NoGhostRow'
<1> SUFFICES ASSUME IInv, RowsFit, NoGhostRow, [DNext]_dictVars PROVE RowsFit' /\ NoGhostRow'
  OBVIOUS
<1>1. TypeOK'
  BY DictionaryStep, StepPreserves DEF IInv
<1>2. CASE UNCHANGED dictVars
  BY <1>1, <1>2, UnnotedKeepsRows DEF dictVars, vars
<1>3. CASE DNext
  BY <1>1, <1>3, DUplinkKeepsRows, DHangupKeepsRows, DReplyKeepsRows, UnnotedKeepsRows DEF DNext
<1> QED  BY <1>2, <1>3

\* With the dictionaries the path is the same, and a row is about a cell of its
\* radio unit (ru_dictionary.py:75-135).
THEOREM DictionaryTypeCorrect == DSpec => Spec /\ []DTypeOK
<1>1. IInv /\ RowsFit => DTypeOK
  BY DEF IInv, RowsFit, Rows, DTypeOK
<1> QED  BY <1>1, DictionaryInit, DictionaryStep, InitHolds, StepPreserves, DictionaryPreserves,
            PTL DEF DSpec, Spec

\* No row outlives its UE's stay at the radio unit (serve_ue removes it when it
\* ends, ru_server.py:260,267): a serve_ue is left that will, over handovers between
\* the sectors of the unit, F1 losses and restarts of the DU.
THEOREM NoGhostRowHolds == DSpec => []NoGhostRow
<1> QED  BY DictionaryInit, DictionaryStep, InitHolds, StepPreserves, DictionaryPreserves,
            PTL DEF DSpec
=============================================================================
