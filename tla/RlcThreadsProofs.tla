---------------------------- MODULE RlcThreadsProofs ----------------------------
(* What the two executors of an RLC entity keep up without a lock, for any    *)
(* capacity, SDUs and limits: the SDU queue is sound, its packed totals are   *)
(* exact, the MAC is told, and the status reports taken go forward.           *)
EXTENDS RlcThreads, FiniteSetTheorems, WellFoundedInduction, TLAPS

QRecord == [queue : Seq(Sdus), slot : [Slots -> Sdus \cup {FREE, DISCARDED}],
            size : [Slots -> Nat], total : Int]
PastRecord == [next : Nat \ {0}, version : Nat, late : BOOLEAN, serving : BOOLEAN, forced : Nat,
               refused : SUBSET {"update", "timer"},
               outcome : [Sdus -> {"none", "dropped", "queued", "discarded", "pulled",
                                   "twice"}]]

TypeOK ==
    /\ upper \in [at : {"idle", "notify", "request", "announce"}]
                   \cup [at : {"push", "add", "subtract"}, sdu : Sdus]
    /\ lower \in [at : {"idle", "start_timer", "prohibit", "take", "pop"}]
                   \cup [at : {"load"}, for : {"mac", "update", "force"}]
                   \cup [at : {"front"}, for : {"mac", "update", "force"}, total : Int]
                   \cup [at : {"release"}, sdu : Sdus]
                   \cup [at : {"total"}, sdu : Sdus, size : Nat]
    /\ q \in QRecord
    /\ past \in PastRecord

\* An SDU in a slot that is not marked has not left yet.
SlotsAreQueued == \A n \in Held : q.slot[SlotOf(n)] = n => past.outcome[n] = "queued"

\* SDUs are written once each.
HeldWereWritten ==
    /\ \A n \in Held : n < past.next
    /\ upper.at = "push" => upper.sdu < past.next /\ upper.sdu \notin Held

IInv == TypeOK /\ QueueSound /\ SlotsAreQueued /\ HeldWereWritten

--------------------------------------------------------------------------------
(* Sequences and slots.                                                       *)

LEMMA RangeOfAppend ==
    ASSUME NEW S, NEW s \in Seq(S), NEW e \in S
    PROVE  /\ Append(s, e) \in Seq(S)
           /\ Range(Append(s, e)) = Range(s) \cup {e}
           /\ IsInjective(s) /\ e \notin Range(s) => IsInjective(Append(s, e))
<1>1. /\ Append(s, e) \in Seq(S) /\ Len(Append(s, e)) = Len(s) + 1
      /\ DOMAIN Append(s, e) = 1..Len(s)+1 /\ DOMAIN s = 1..Len(s) /\ Len(s) \in Nat
      /\ \A i \in 1..Len(s) : Append(s, e)[i] = s[i]
      /\ Append(s, e)[Len(s)+1] = e
  OBVIOUS
<1>2. Range(Append(s, e)) = Range(s) \cup {e}
  <2>1. ASSUME NEW x \in Range(Append(s, e)) PROVE x \in Range(s) \cup {e}
    BY <1>1 DEF Range
  <2>2. ASSUME NEW x \in Range(s) PROVE x \in Range(Append(s, e))
    <3>1. PICK i \in 1..Len(s) : x = s[i]
      BY <1>1 DEF Range
    <3>2. x = Append(s, e)[i] /\ i \in DOMAIN Append(s, e)
      BY <1>1, <3>1
    <3> QED
      BY <3>2 DEF Range
  <2>3. e \in Range(Append(s, e))
    <3>1. Len(s)+1 \in DOMAIN Append(s, e)
      BY <1>1
    <3> QED
      BY <1>1, <3>1 DEF Range
  <2> QED
    BY <2>1, <2>2, <2>3
<1>3. ASSUME IsInjective(s), e \notin Range(s) PROVE IsInjective(Append(s, e))
  <2> SUFFICES ASSUME NEW i \in 1..Len(s)+1, NEW j \in 1..Len(s)+1,
                      Append(s, e)[i] = Append(s, e)[j]
               PROVE  i = j
    BY <1>1 DEF IsInjective
  <2>1. \A m \in 1..Len(s) : s[m] # e
    BY <1>1, <1>3 DEF Range
  <2> QED
    BY <1>1, <1>3, <2>1 DEF IsInjective
<1> QED
  BY <1>1, <1>2, <1>3

LEMMA RangeOfTail ==
    ASSUME NEW S, NEW s \in Seq(S), s # <<>>
    PROVE  /\ Tail(s) \in Seq(S) /\ Head(s) \in S
           /\ Range(s) = {Head(s)} \cup Range(Tail(s))
           /\ IsInjective(s) => IsInjective(Tail(s)) /\ Head(s) \notin Range(Tail(s))
<1>1. /\ Tail(s) \in Seq(S) /\ Head(s) \in S /\ Head(s) = s[1]
      /\ Len(s) \in Nat \ {0} /\ Len(Tail(s)) = Len(s) - 1
      /\ DOMAIN Tail(s) = 1..Len(s)-1 /\ DOMAIN s = 1..Len(s)
      /\ \A i \in 1..Len(s)-1 : Tail(s)[i] = s[i+1]
  OBVIOUS
<1>2. Range(s) = {Head(s)} \cup Range(Tail(s))
  <2>1. ASSUME NEW x \in Range(s) PROVE x \in {Head(s)} \cup Range(Tail(s))
    <3>1. PICK i \in 1..Len(s) : x = s[i]
      BY <1>1 DEF Range
    <3>2. CASE i = 1
      BY <1>1, <3>1, <3>2
    <3>3. CASE i # 1
      <4>1. i-1 \in 1..Len(s)-1 /\ x = Tail(s)[i-1]
        BY <1>1, <3>1, <3>3
      <4> QED
        BY <1>1, <4>1 DEF Range
    <3> QED
      BY <3>2, <3>3
  <2>2. ASSUME NEW x \in Range(Tail(s)) PROVE x \in Range(s)
    <3>1. PICK i \in 1..Len(s)-1 : x = Tail(s)[i]
      BY <1>1 DEF Range
    <3>2. i+1 \in DOMAIN s /\ x = s[i+1]
      BY <1>1, <3>1
    <3> QED
      BY <3>2 DEF Range
  <2>3. Head(s) \in Range(s)
    <3>1. 1 \in DOMAIN s
      BY <1>1
    <3> QED
      BY <1>1, <3>1 DEF Range
  <2> QED
    BY <2>1, <2>2, <2>3
<1>3. ASSUME IsInjective(s) PROVE IsInjective(Tail(s)) /\ Head(s) \notin Range(Tail(s))
  <2>1. ASSUME NEW i \in 1..Len(s)-1, NEW j \in 1..Len(s)-1, Tail(s)[i] = Tail(s)[j]
        PROVE  i = j
    <3>1. i+1 \in DOMAIN s /\ j+1 \in DOMAIN s /\ s[i+1] = s[j+1]
      BY <1>1, <2>1
    <3>2. i+1 = j+1
      BY <1>3, <3>1 DEF IsInjective
    <3> QED
      BY <3>2
  <2>2. ASSUME NEW i \in 1..Len(s)-1 PROVE Tail(s)[i] # s[1]
    <3>1. i+1 \in DOMAIN s /\ 1 \in DOMAIN s /\ i+1 # 1 /\ Tail(s)[i] = s[i+1]
      BY <1>1
    <3> QED
      BY <1>3, <3>1 DEF IsInjective
  <2> QED
    BY <1>1, <2>1, <2>2 DEF IsInjective, Range
<1> QED
  BY <1>1, <1>2, <1>3

LEMMA SlotOfSdu ==
    ASSUME ThreadsAssumption
    PROVE  \A n \in Sdus : n \in Nat \ {0} /\ SlotOf(n) \in Slots /\ Size[n] \in Nat
<1>1. Capacity \in Nat \ {0} /\ DOMAIN Size = 1..Len(Size) /\ Len(Size) \in Nat
      /\ \A n \in DOMAIN Size : Size[n] \in Nat
  BY DEF ThreadsAssumption
<1> QED
  BY <1>1 DEF Sdus, SlotOf, Slots

LEMMA TotalsAreInt ==
    ASSUME ThreadsAssumption, q.total \in Int, NEW bytes \in Nat
    PROVE  Add(bytes) \in Int /\ Sub(bytes) \in Int
<1>1. \A a \in Int, w \in Nat \ {0} : a % (w * w) \in Int
  <2>1. \A w \in Nat \ {0} : w * w \in Int
    OBVIOUS
  <2> QED
    BY <2>1
<1>2. Width \in Nat \ {0} /\ q.total + (Width + bytes) \in Int /\ q.total - (Width + bytes) \in Int
  BY DEF ThreadsAssumption
<1> QED
  BY <1>1, <1>2 DEF Add, Sub, Packed

--------------------------------------------------------------------------------
(* The steps.                                                                 *)

\* A step that does not touch the queue, its slots or what is known of the SDUs.
LEMMA ElsewherePreserves ==
    ASSUME IInv, TypeOK', q'.queue = q.queue, q'.slot = q.slot,
           past'.next = past.next, past'.outcome = past.outcome,
           lower'.at = "release" <=> lower.at = "release",
           lower.at = "release" => lower'.sdu = lower.sdu,
           upper'.at # "push"
    PROVE  IInv'
<1>1. Held' = Held
  BY DEF Held
<1>2. QueueSound'
  BY <1>1 DEF IInv, QueueSound, SlotsMatchQueue, DecidedOnce
<1>3. SlotsAreQueued' /\ HeldWereWritten'
  BY <1>1 DEF IInv, SlotsAreQueued, HeldWereWritten
<1> QED
  BY <1>2, <1>3 DEF IInv

LEMMA InitIInv == ASSUME ThreadsAssumption, Init PROVE IInv
<1>1. TypeOK
  BY DEF Init, TypeOK, QRecord, PastRecord, Idle, ThreadsAssumption, Slots
<1>2. Held = {} /\ Range(q.queue) = {}
  BY DEF Init, Held, Idle, Range
<1>3. SlotsMatchQueue
  BY <1>2 DEF Init, SlotsMatchQueue, Idle, IsInjective
<1> QED
  BY <1>1, <1>2, <1>3 DEF IInv, Init, Idle, QueueSound, DecidedOnce, SlotsAreQueued,
                          HeldWereWritten

LEMMA WriteSduPreserves == ASSUME ThreadsAssumption, IInv, WriteSdu PROVE IInv'
<1> DEFINE n == past.next
           full == Size[n] + Bytes(q.total) >= ByteLimit
<1>1. n \in Sdus /\ n \in Nat \ {0} /\ upper.at = "idle" /\ UNCHANGED <<lower, q, bs, rx>>
  <2>1. n \in Nat \ {0} /\ n <= Len(Size) /\ upper.at = "idle" /\ UNCHANGED <<lower, q, bs, rx>>
    BY DEF WriteSdu, IInv, TypeOK, QRecord, PastRecord
  <2>2. DOMAIN Size = 1..Len(Size) /\ Len(Size) \in Nat
    BY DEF ThreadsAssumption
  <2> QED
    BY <2>1, <2>2 DEF Sdus
<1>2. /\ past' = [past EXCEPT !.next = n + 1,
                              !.outcome[n] = IF full THEN "dropped" ELSE "none"]
      /\ upper' = IF full THEN Idle ELSE [at |-> "push", sdu |-> n]
  BY DEF WriteSdu
<1>3. TypeOK'
  <2>1. upper' \in [at : {"idle", "notify", "request", "announce"}]
                     \cup [at : {"push", "add", "subtract"}, sdu : Sdus]
    BY <1>1, <1>2 DEF Idle
  <2>2. n + 1 \in Nat \ {0}
    BY <1>1
  <2>3. past' \in PastRecord
    BY <1>2, <2>2 DEF IInv, TypeOK, QRecord, PastRecord
  <2> QED
    BY <1>1, <2>1, <2>3 DEF IInv, TypeOK, QRecord, PastRecord
<1>4. Held' = Held /\ n \notin Held
  <2>1. ~(n < n)
    BY <1>1
  <2> QED
    BY <1>1, <2>1 DEF Held, IInv, HeldWereWritten
<1>5. past'.next = n + 1 /\ \A m \in Sdus \ {n} : past'.outcome[m] = past.outcome[m]
  BY <1>2 DEF IInv, TypeOK, QRecord, PastRecord
<1>6. past'.outcome[n] # "twice"
  BY <1>1, <1>2 DEF IInv, TypeOK, QRecord, PastRecord
<1>7. QueueSound'
  BY <1>1, <1>4, <1>5, <1>6 DEF IInv, QueueSound, SlotsMatchQueue, DecidedOnce
<1>8. Held \subseteq Sdus
  BY DEF IInv, TypeOK, QRecord, PastRecord, Held, Range
<1>9. SlotsAreQueued'
  BY <1>1, <1>4, <1>5, <1>8 DEF IInv, SlotsAreQueued
<1>10. HeldWereWritten'
  <2>1. \A m \in Held : m < n /\ m \in Nat
    BY <1>8, SlotOfSdu DEF IInv, HeldWereWritten
  <2> QED
    BY <1>1, <1>2, <1>4, <1>5, <2>1 DEF HeldWereWritten, Idle
<1> QED
  BY <1>3, <1>7, <1>9, <1>10 DEF IInv

LEMMA PushSduPreserves == ASSUME ThreadsAssumption, IInv, PushSdu PROVE IInv'
<1> DEFINE n == upper.sdu
<1>1. n \in Sdus /\ upper.at = "push" /\ UNCHANGED <<lower, bs, rx>> /\ n \notin Held
      /\ n < past.next
  BY DEF PushSdu, IInv, TypeOK, QRecord, PastRecord, HeldWereWritten
<1>2. n \in Nat \ {0} /\ SlotOf(n) \in Slots /\ Size[n] \in Nat
  BY <1>1, SlotOfSdu
<1>3. Held \subseteq Sdus
  BY DEF IInv, TypeOK, QRecord, PastRecord, Held, Range
<1>4. CASE q.slot[SlotOf(n)] # FREE \/ Len(q.queue) >= Capacity
  <2>1. upper' = Idle /\ q' = q /\ past' = [past EXCEPT !.outcome[n] = "dropped"]
    BY <1>4 DEF PushSdu, Outcome
  <2>2. TypeOK'
    BY <1>1, <2>1 DEF IInv, TypeOK, QRecord, PastRecord, Idle
  <2>3. Held' = Held
    BY <1>1, <2>1 DEF Held
  <2>4. past'.next = past.next /\ past'.outcome = [past.outcome EXCEPT ![n] = "dropped"]
    BY <2>1 DEF IInv, TypeOK, QRecord, PastRecord
  <2>5. QueueSound'
    BY <1>1, <2>1, <2>3, <2>4 DEF IInv, TypeOK, QRecord, PastRecord, QueueSound,
                             SlotsMatchQueue, DecidedOnce
  <2>6. SlotsAreQueued'
    BY <1>1, <1>3, <2>1, <2>3, <2>4 DEF IInv, TypeOK, QRecord, PastRecord, SlotsAreQueued
  <2>7. HeldWereWritten'
    BY <2>1, <2>3, <2>4 DEF IInv, HeldWereWritten, Idle
  <2> QED
    BY <2>2, <2>5, <2>6, <2>7 DEF IInv
<1>5. CASE q.slot[SlotOf(n)] = FREE /\ Len(q.queue) < Capacity
  <2>1. /\ q' = [q EXCEPT !.size[SlotOf(n)] = Size[n], !.slot[SlotOf(n)] = n,
                          !.queue = Append(@, n)]
        /\ past' = [past EXCEPT !.outcome[n] = "queued"]
        /\ upper' = [upper EXCEPT !.at = "add"]
    <3>1. ~(Len(q.queue) >= Capacity)
      BY <1>5 DEF IInv, TypeOK, QRecord, PastRecord, ThreadsAssumption
    <3> QED
      BY <1>5, <3>1 DEF PushSdu, Outcome, Upper
  <2>2. /\ Append(q.queue, n) \in Seq(Sdus)
        /\ Range(Append(q.queue, n)) = Range(q.queue) \cup {n}
        /\ IsInjective(q.queue) /\ n \notin Range(q.queue) => IsInjective(Append(q.queue, n))
    BY <1>1, RangeOfAppend DEF IInv, TypeOK, QRecord, PastRecord
  <2>3. /\ q'.queue = Append(q.queue, n) /\ q'.slot = [q.slot EXCEPT ![SlotOf(n)] = n]
        /\ past'.next = past.next /\ past'.outcome = [past.outcome EXCEPT ![n] = "queued"]
    BY <2>1 DEF IInv, TypeOK, QRecord, PastRecord
  <2>4. TypeOK'
    <3>1. upper' = [at |-> "add", sdu |-> n]
      BY <1>1, <2>1 DEF IInv, TypeOK, QRecord, PastRecord
    <3>2. q' \in QRecord
      BY <1>1, <1>2, <2>1, <2>2 DEF IInv, TypeOK, QRecord, PastRecord
    <3> QED
      BY <1>1, <2>1, <3>1, <3>2 DEF IInv, TypeOK, QRecord, PastRecord
  <2>5. Held' = Held \cup {n}
    BY <1>1, <2>2, <2>3 DEF Held
  <2>6. \A m \in Held : SlotOf(m) # SlotOf(n) /\ SlotOf(m) \in Slots
    <3>1. \A m \in Held : q.slot[SlotOf(m)] # FREE
      BY <1>3, SlotOfSdu DEF IInv, QueueSound, SlotsMatchQueue, FREE, DISCARDED
    <3> QED
      BY <1>3, <1>5, <3>1, SlotOfSdu
  <2>7. \A m \in Held : q'.slot[SlotOf(m)] = q.slot[SlotOf(m)]
    BY <2>3, <2>6 DEF IInv, TypeOK, QRecord, PastRecord
  <2>8. q'.slot[SlotOf(n)] = n
    BY <1>2, <2>3 DEF IInv, TypeOK, QRecord, PastRecord
  <2>9. SlotsMatchQueue'
    <3>1. IsInjective(q'.queue) /\ (lower'.at = "release" => lower'.sdu \notin Range(q'.queue))
      BY <1>1, <2>2, <2>3 DEF IInv, QueueSound, SlotsMatchQueue, Held
    <3>2. \A l, m \in Held' : l # m => SlotOf(l) # SlotOf(m)
      BY <2>5, <2>6 DEF IInv, QueueSound, SlotsMatchQueue
    <3>3. \A m \in Held' : q'.slot[SlotOf(m)] \in {m, DISCARDED}
      BY <2>5, <2>7, <2>8 DEF IInv, QueueSound, SlotsMatchQueue
    <3>4. \A i \in Slots : q'.slot[i] # FREE => \E m \in Held' : SlotOf(m) = i
      BY <2>3, <2>5 DEF IInv, TypeOK, QRecord, PastRecord, QueueSound, SlotsMatchQueue
    <3> QED
      BY <3>1, <3>2, <3>3, <3>4 DEF SlotsMatchQueue
  <2>10. DecidedOnce'
    BY <1>1, <2>3 DEF IInv, TypeOK, QRecord, PastRecord, QueueSound, DecidedOnce
  <2>11. SlotsAreQueued'
    BY SMTT(20), <1>1, <1>3, <2>3, <2>5, <2>7 DEF IInv, TypeOK, QRecord, PastRecord, SlotsAreQueued
  <2>12. HeldWereWritten'
    <3>1. upper'.at # "push"
      BY <1>1, <2>1 DEF IInv, TypeOK, QRecord, PastRecord
    <3> QED
      BY <1>1, <2>3, <2>5, <3>1 DEF IInv, HeldWereWritten
  <2> QED
    BY <2>4, <2>9, <2>10, <2>11, <2>12 DEF IInv, QueueSound
<1>6. Len(q.queue) >= Capacity \/ Len(q.queue) < Capacity
  BY DEF IInv, TypeOK, QRecord, PastRecord, ThreadsAssumption
<1> QED
  BY <1>4, <1>5, <1>6

LEMMA DiscardSduPreserves ==
    ASSUME ThreadsAssumption, IInv, NEW n \in Sdus, DiscardSdu(n) PROVE IInv'
<1>1. /\ upper.at = "idle" /\ q.slot[SlotOf(n)] = n
      /\ q' = [q EXCEPT !.slot[SlotOf(n)] = DISCARDED]
      /\ upper' = [at |-> "subtract", sdu |-> n]
      /\ past' = [past EXCEPT !.outcome[n] = "discarded"]
      /\ UNCHANGED <<lower, bs, rx>>
  BY DEF DiscardSdu, Outcome
<1>2. TypeOK'
  BY <1>1 DEF IInv, TypeOK, QRecord, PastRecord
<1>3. /\ q'.queue = q.queue /\ q'.slot = [q.slot EXCEPT ![SlotOf(n)] = DISCARDED]
      /\ past'.next = past.next /\ past'.outcome = [past.outcome EXCEPT ![n] = "discarded"]
  BY <1>1 DEF IInv, TypeOK, QRecord, PastRecord
<1>4. Held' = Held /\ Held \subseteq Sdus
  BY <1>1, <1>3 DEF Held, IInv, TypeOK, QRecord, PastRecord, Range
<1>5. n \in Nat \ {0} /\ SlotOf(n) \in Slots
  BY SlotOfSdu
<1>6. n \in Held
  <2>1. PICK m \in Held : SlotOf(m) = SlotOf(n)
    BY <1>1, <1>5 DEF IInv, QueueSound, SlotsMatchQueue, FREE
  <2>2. q.slot[SlotOf(m)] \in {m, DISCARDED} /\ n # DISCARDED
    BY <1>5 DEF IInv, QueueSound, SlotsMatchQueue, DISCARDED
  <2> QED
    BY <1>1, <2>1, <2>2
<1>7. \A m \in Held \ {n} : q'.slot[SlotOf(m)] = q.slot[SlotOf(m)]
  <2>1. \A m \in Held \ {n} : SlotOf(m) # SlotOf(n)
    BY <1>6 DEF IInv, QueueSound, SlotsMatchQueue
  <2> QED
    BY <1>3, <1>4, <2>1, SlotOfSdu DEF IInv, TypeOK, QRecord, PastRecord
<1>8. q'.slot[SlotOf(n)] = DISCARDED /\ n # DISCARDED
  BY <1>3, <1>5 DEF IInv, TypeOK, QRecord, PastRecord, DISCARDED
<1>9. SlotsMatchQueue'
  <2>1. \A m \in Held' : q'.slot[SlotOf(m)] \in {m, DISCARDED}
    BY <1>4, <1>7, <1>8 DEF IInv, QueueSound, SlotsMatchQueue
  <2>2. \A i \in Slots : q'.slot[i] # FREE => \E m \in Held' : SlotOf(m) = i
    BY <1>3, <1>4, <1>6 DEF IInv, TypeOK, QRecord, PastRecord, QueueSound, SlotsMatchQueue
  <2> QED
    BY <1>1, <1>3, <1>4, <2>1, <2>2 DEF IInv, QueueSound, SlotsMatchQueue
<1>10. DecidedOnce'
  BY <1>3 DEF IInv, TypeOK, QRecord, PastRecord, QueueSound, DecidedOnce
<1>11. SlotsAreQueued'
  BY <1>3, <1>4, <1>7, <1>8 DEF IInv, TypeOK, QRecord, PastRecord, SlotsAreQueued
<1>12. HeldWereWritten'
  BY <1>1, <1>3, <1>4 DEF IInv, HeldWereWritten
<1> QED
  BY <1>2, <1>9, <1>10, <1>11, <1>12 DEF IInv, QueueSound

LEMMA HeldAreSdus == ASSUME IInv PROVE Held \subseteq Sdus
<1>1. Range(q.queue) \subseteq Sdus
  BY DEF IInv, TypeOK, QRecord, Range
<1>2. lower.at = "release" => lower.sdu \in Sdus
  BY DEF IInv, TypeOK
<1> QED
  BY <1>1, <1>2 DEF Held

\* An SDU that is held, and its slot, are let go.
LEMMA LettingGoPreserves ==
    ASSUME ThreadsAssumption, IInv, TypeOK', NEW m \in Held, Held' = Held \ {m},
           IsInjective(q'.queue), q'.slot = [q.slot EXCEPT ![SlotOf(m)] = FREE],
           lower'.at # "release", upper' = upper, past'.next = past.next,
           past'.outcome = past.outcome \/ past'.outcome = [past.outcome EXCEPT ![m] = "pulled"]
    PROVE  IInv'
<1>1. Held \subseteq Sdus
  BY HeldAreSdus
<1>2. \A l \in Held' : q'.slot[SlotOf(l)] = q.slot[SlotOf(l)]
  <2>1. \A l \in Held' : SlotOf(l) # SlotOf(m)
    BY DEF IInv, QueueSound, SlotsMatchQueue
  <2> QED
    BY <1>1, <2>1, SlotOfSdu DEF IInv, TypeOK, QRecord, PastRecord
<1>3. SlotsMatchQueue'
  <2>1. \A i \in Slots : q'.slot[i] # FREE => \E l \in Held' : SlotOf(l) = i
    BY DEF IInv, TypeOK, QRecord, PastRecord, QueueSound, SlotsMatchQueue
  <2> QED
    BY <1>2, <2>1 DEF IInv, QueueSound, SlotsMatchQueue
<1>4. \A l \in Sdus : past'.outcome[l] = past.outcome[l]
                     \/ (l = m /\ past'.outcome[l] = "pulled")
  BY <1>1 DEF IInv, TypeOK, QRecord, PastRecord
<1>5. DecidedOnce'
  BY <1>4 DEF IInv, QueueSound, DecidedOnce
<1>6. SlotsAreQueued' /\ HeldWereWritten'
  BY <1>1, <1>2, <1>4 DEF IInv, SlotsAreQueued, HeldWereWritten
<1> QED
  BY <1>3, <1>5, <1>6 DEF IInv, QueueSound

LEMMA PopSduPreserves == ASSUME ThreadsAssumption, IInv, PopSdu PROVE IInv'
<1>1. lower.at = "pop" /\ UNCHANGED <<upper, bs, rx, past>>
  BY DEF PopSdu
<1>2. CASE q.queue = <<>>
  <2>1. lower' = [at |-> "load", for |-> "mac"] /\ q' = q
    BY <1>2 DEF PopSdu
  <2>2. TypeOK'
    BY <1>1, <2>1 DEF IInv, TypeOK, QRecord, PastRecord
  <2>3. Held' = Held
    BY <1>1, <2>1 DEF Held
  <2>4. QueueSound'
    BY <1>1, <2>1, <2>3 DEF IInv, QueueSound, SlotsMatchQueue, DecidedOnce
  <2> QED
    BY <1>1, <2>1, <2>2, <2>3, <2>4 DEF IInv, SlotsAreQueued, HeldWereWritten
<1>3. CASE q.queue # <<>>
  <2>1. /\ lower' = [at |-> "release", sdu |-> Head(q.queue)]
        /\ q' = [q EXCEPT !.queue = Tail(@)]
    BY <1>3 DEF PopSdu
  <2>2. /\ Tail(q.queue) \in Seq(Sdus) /\ Head(q.queue) \in Sdus
        /\ Range(q.queue) = {Head(q.queue)} \cup Range(Tail(q.queue))
        /\ IsInjective(Tail(q.queue)) /\ Head(q.queue) \notin Range(Tail(q.queue))
    BY <1>3, RangeOfTail DEF IInv, TypeOK, QRecord, PastRecord, QueueSound, SlotsMatchQueue
  <2>3. TypeOK'
    BY <1>1, <2>1, <2>2 DEF IInv, TypeOK, QRecord, PastRecord
  <2>4. q'.queue = Tail(q.queue) /\ q'.slot = q.slot
    BY <2>1 DEF IInv, TypeOK, QRecord, PastRecord
  <2>5. Held' = Held
    BY <1>1, <2>1, <2>2, <2>4 DEF Held
  <2>6. QueueSound'
    BY <1>1, <2>1, <2>2, <2>4, <2>5 DEF IInv, QueueSound, SlotsMatchQueue, DecidedOnce
  <2> QED
    BY <1>1, <2>3, <2>4, <2>5, <2>6 DEF IInv, SlotsAreQueued, HeldWereWritten
<1> QED
  BY <1>2, <1>3

LEMMA ReleaseSlotPreserves == ASSUME ThreadsAssumption, IInv, ReleaseSlot PROVE IInv'
<1> DEFINE m == lower.sdu
<1>1. /\ lower.at = "release" /\ UNCHANGED <<upper, bs, rx>>
      /\ q' = [q EXCEPT !.slot[SlotOf(m)] = FREE]
  BY DEF ReleaseSlot
<1>2. m \in Sdus /\ m \in Held /\ m \notin Range(q.queue) /\ SlotOf(m) \in Slots
  BY <1>1, SlotOfSdu DEF IInv, TypeOK, QRecord, PastRecord, Held, QueueSound, SlotsMatchQueue
<1>3. /\ q' \in QRecord
      /\ q'.queue = q.queue /\ q'.slot = [q.slot EXCEPT ![SlotOf(m)] = FREE]
  BY <1>1 DEF IInv, TypeOK, QRecord, PastRecord
<1>4. CASE q.slot[SlotOf(m)] = DISCARDED
  <2>1. lower' = [at |-> "pop"] /\ past' = past
    BY <1>4 DEF ReleaseSlot
  <2>2. TypeOK'
    BY <1>1, <1>3, <2>1 DEF IInv, TypeOK, QRecord, PastRecord
  <2>3. Held' = Held \ {m}
    BY <1>1, <1>2, <1>3, <2>1 DEF Held
  <2>4. IsInjective(q'.queue) /\ lower'.at # "release"
    BY <1>3, <2>1 DEF IInv, QueueSound, SlotsMatchQueue
  <2> QED
    BY <1>1, <1>2, <1>3, <2>1, <2>2, <2>3, <2>4, LettingGoPreserves
<1>5. CASE q.slot[SlotOf(m)] # DISCARDED
  <2>1. past.outcome[m] = "queued"
    BY <1>2, <1>5 DEF IInv, QueueSound, SlotsMatchQueue, SlotsAreQueued
  <2>2. /\ lower' = [at |-> "total", sdu |-> m, size |-> q.size[SlotOf(m)]]
        /\ past' = [past EXCEPT !.outcome[m] = "pulled"]
    BY <1>5, <2>1 DEF ReleaseSlot, Outcome
  <2>3. past'.next = past.next /\ past'.outcome = [past.outcome EXCEPT ![m] = "pulled"]
    BY <2>2 DEF IInv, TypeOK, QRecord, PastRecord
  <2>4. TypeOK'
    <3>1. q.size[SlotOf(m)] \in Nat
      BY <1>2 DEF IInv, TypeOK, QRecord, PastRecord
    <3> QED
      BY <1>1, <1>2, <1>3, <2>2, <3>1 DEF IInv, TypeOK, QRecord, PastRecord
  <2>5. Held' = Held \ {m}
    BY <1>1, <1>2, <1>3, <2>2 DEF Held
  <2>6. IsInjective(q'.queue) /\ lower'.at # "release"
    BY <1>3, <2>2 DEF IInv, QueueSound, SlotsMatchQueue
  <2> QED
    BY <1>1, <1>2, <1>3, <2>3, <2>4, <2>5, <2>6, LettingGoPreserves
<1> QED
  BY <1>4, <1>5

LEMMA DropFrontPreserves == ASSUME ThreadsAssumption, IInv, DropFront PROVE IInv'
<1> DEFINE h == Head(q.queue)
<1>1. /\ lower.at = "front" /\ q.queue # <<>> /\ UNCHANGED <<upper, lower, bs, rx, past>>
      /\ q' = [q EXCEPT !.queue = Tail(@), !.slot[SlotOf(h)] = FREE]
  BY DEF DropFront, Dropped
<1>2. /\ Tail(q.queue) \in Seq(Sdus) /\ h \in Sdus
      /\ Range(q.queue) = {h} \cup Range(Tail(q.queue))
      /\ IsInjective(Tail(q.queue)) /\ h \notin Range(Tail(q.queue))
  BY <1>1, RangeOfTail DEF IInv, TypeOK, QRecord, PastRecord, QueueSound, SlotsMatchQueue
<1>3. TypeOK' /\ q'.queue = Tail(q.queue) /\ q'.slot = [q.slot EXCEPT ![SlotOf(h)] = FREE]
  BY <1>1, <1>2 DEF IInv, TypeOK, QRecord, PastRecord
<1>4. h \in Held /\ Held' = Held \ {h}
  BY <1>1, <1>2, <1>3 DEF Held
<1> QED
  BY <1>1, <1>2, <1>3, <1>4, LettingGoPreserves

LEMMA PastUpdates ==
    ASSUME IInv,
           \/ past' = past
           \/ past' = [past EXCEPT !.version = @ + 1]
           \/ past' = [past EXCEPT !.forced = @ + 1]
           \/ past' = [past EXCEPT !.refused = @ \cup {"update"}]
           \/ past' = [past EXCEPT !.refused = @ \cup {"timer"}]
           \/ past' = [past EXCEPT !.serving = past.late, !.late = FALSE]
    PROVE  past'.next = past.next /\ past'.outcome = past.outcome /\ past' \in PastRecord
<1>1. past \in PastRecord
  BY DEF IInv, TypeOK
<1>2. /\ past.version + 1 \in Nat /\ past.forced + 1 \in Nat
      /\ past.refused \cup {"update"} \in SUBSET {"update", "timer"}
      /\ past.refused \cup {"timer"} \in SUBSET {"update", "timer"}
  BY <1>1 DEF PastRecord
<1>3. \/ past' = past
      \/ \E v \in Nat : past' = [past EXCEPT !.version = v]
      \/ \E v \in Nat : past' = [past EXCEPT !.forced = v]
      \/ \E v \in SUBSET {"update", "timer"} : past' = [past EXCEPT !.refused = v]
      \/ past' = [past EXCEPT !.serving = past.late, !.late = FALSE]
  BY <1>2
<1>4. CASE past' = past
  BY <1>1, <1>4
<1>5. ASSUME NEW v \in Nat, past' = [past EXCEPT !.version = v]
      PROVE  past'.next = past.next /\ past'.outcome = past.outcome /\ past' \in PastRecord
  BY <1>1, <1>5 DEF PastRecord
<1>6. ASSUME NEW v \in Nat, past' = [past EXCEPT !.forced = v]
      PROVE  past'.next = past.next /\ past'.outcome = past.outcome /\ past' \in PastRecord
  BY <1>1, <1>6 DEF PastRecord
<1>7. ASSUME NEW v \in SUBSET {"update", "timer"}, past' = [past EXCEPT !.refused = v]
      PROVE  past'.next = past.next /\ past'.outcome = past.outcome /\ past' \in PastRecord
  BY <1>1, <1>7 DEF PastRecord
<1>8. CASE past' = [past EXCEPT !.serving = past.late, !.late = FALSE]
  <2>1. past.late \in BOOLEAN
    BY <1>1 DEF PastRecord
  <2> QED
    BY <1>1, <1>8, <2>1 DEF PastRecord
<1> QED
  BY <1>3, <1>4, <1>5, <1>6, <1>7, <1>8

\* The other steps of the UE executor.
LEMMA UpperPreserves ==
    ASSUME ThreadsAssumption, IInv,
           \/ AddSdu \/ SubtractDiscarded \/ Notify \/ RequestStatus \/ Announce
           \/ RunTimer \/ ExpireTimer \/ \E poll \in BOOLEAN : ReceivePdu(poll)
    PROVE  IInv'
<1>1. lower' = lower
  BY DEF AddSdu, SubtractDiscarded, Notify, RequestStatus, Announce, RunTimer,
         ExpireTimer, ReceivePdu
<1>2. CASE AddSdu \/ SubtractDiscarded
  <2>1. /\ upper' = [at |-> "notify"] /\ past' = past
        /\ q' = [q EXCEPT !.total = q'.total] /\ q'.total \in Int
    <3>1. CASE AddSdu
      <4>1. Add(Size[upper.sdu]) \in Int
        <5>1. Size[upper.sdu] \in Nat
          BY <3>1, SlotOfSdu DEF AddSdu, IInv, TypeOK, QRecord, PastRecord
        <5> QED
          BY <5>1, TotalsAreInt DEF IInv, TypeOK, QRecord, PastRecord
      <4> QED
        BY <3>1, <4>1 DEF AddSdu, IInv, TypeOK, QRecord, PastRecord
    <3>2. CASE SubtractDiscarded
      <4>1. Sub(q.size[SlotOf(upper.sdu)]) \in Int
        <5>1. q.size[SlotOf(upper.sdu)] \in Nat
          BY <3>2, SlotOfSdu DEF SubtractDiscarded, IInv, TypeOK, QRecord, PastRecord
        <5> QED
          BY <5>1, TotalsAreInt DEF IInv, TypeOK, QRecord, PastRecord
      <4> QED
        BY <3>2, <4>1 DEF SubtractDiscarded, IInv, TypeOK, QRecord, PastRecord
    <3> QED
      BY <1>2, <3>1, <3>2
  <2>2. TypeOK' /\ q'.queue = q.queue /\ q'.slot = q.slot
    BY <1>1, <2>1 DEF IInv, TypeOK, QRecord, PastRecord
  <2> QED
    BY <1>1, <2>1, <2>2, ElsewherePreserves
<1>3. ASSUME ~AddSdu, ~SubtractDiscarded PROVE IInv'
  <2>1. /\ q' = q
        /\ upper' \in [at : {"idle", "notify", "request", "announce"}]
    BY <1>3 DEF Notify, RequestStatus, Announce, RunTimer,
                 ExpireTimer, ReceivePdu, Idle, IInv, TypeOK, QRecord, PastRecord
  <2>2. /\ past'.next = past.next /\ past'.outcome = past.outcome
        /\ past' \in PastRecord
    <3>1. CASE RequestStatus
      BY <3>1 DEF RequestStatus, IInv, TypeOK, QRecord, PastRecord
    <3>2. CASE Notify
      <4>1. past' = past \/ past' = [past EXCEPT !.refused = @ \cup {"update"}]
        BY <3>2 DEF Notify, Refused
      <4> QED
        BY <4>1, PastUpdates
    <3>3. CASE \E poll \in BOOLEAN : ReceivePdu(poll)
      <4>1. past' = [past EXCEPT !.version = @ + 1]
        BY <3>3 DEF ReceivePdu
      <4> QED
        BY <4>1, PastUpdates
    <3>4. CASE Announce \/ RunTimer \/ ExpireTimer
      BY <3>4 DEF Announce, RunTimer, ExpireTimer, IInv, TypeOK, QRecord, PastRecord
    <3> QED
      BY <1>3, <3>1, <3>2, <3>3, <3>4
  <2>3. TypeOK'
    BY <1>1, <2>1, <2>2 DEF IInv, TypeOK, QRecord, PastRecord
  <2> QED
    BY <1>1, <2>1, <2>2, <2>3, ElsewherePreserves
<1> QED
  BY <1>2, <1>3

\* The other steps of the cell executor.
LEMMA LowerPreserves ==
    ASSUME ThreadsAssumption, IInv,
           \/ StartPull \/ StartTimer \/ ProhibitReports \/ TakeReport \/ SubtractPulled
           \/ RunUpdate \/ ForceUpdate \/ LoadTotal \/ TellMac
    PROVE  IInv'
<1>1. upper' = upper
  BY DEF StartPull, StartTimer, ProhibitReports, TakeReport, SubtractPulled, RunUpdate,
         ForceUpdate, LoadTotal, TellMac
<1>2. /\ q'.queue = q.queue /\ q'.slot = q.slot
      /\ q' \in QRecord
  <2>1. CASE SubtractPulled
    <3>1. Sub(lower.size) \in Int
      <4>1. lower.size \in Nat
        BY <2>1 DEF SubtractPulled, IInv, TypeOK, QRecord, PastRecord
      <4> QED
        BY <4>1, TotalsAreInt DEF IInv, TypeOK, QRecord, PastRecord
    <3> QED
      BY <2>1, <3>1 DEF SubtractPulled, IInv, TypeOK, QRecord, PastRecord
  <2>2. ASSUME ~SubtractPulled PROVE q' = q
    BY <2>2 DEF StartPull, StartTimer, ProhibitReports, TakeReport, RunUpdate, ForceUpdate,
                LoadTotal, TellMac
  <2> QED
    BY <2>1, <2>2 DEF IInv, TypeOK, QRecord, PastRecord
<1>3. /\ lower.at # "release" /\ lower'.at # "release"
      /\ lower' \in [at : {"idle", "prohibit", "take", "pop", "start_timer"}]
                     \cup [at : {"load"}, for : {"mac", "update", "force"}]
                     \cup [at : {"front"}, for : {"mac", "update", "force"}, total : Int]
  <2>1. CASE StartPull \/ StartTimer \/ ProhibitReports
    BY <2>1 DEF StartPull, StartTimer, ProhibitReports, Lower, IInv, TypeOK, QRecord, PastRecord
  <2>2. CASE TakeReport \/ SubtractPulled \/ RunUpdate \/ ForceUpdate
    BY <2>2 DEF TakeReport, SubtractPulled, RunUpdate, ForceUpdate,
                 IInv, TypeOK, QRecord, PastRecord
  <2>3. CASE LoadTotal \/ TellMac
    BY <2>3 DEF LoadTotal, TellMac, Idle, IInv, TypeOK, QRecord, PastRecord
  <2> QED
    BY <2>1, <2>2, <2>3
<1>4. /\ past'.next = past.next /\ past'.outcome = past.outcome
      /\ past' \in PastRecord
  <2>1. CASE StartTimer
    <3>1. past' = past \/ past' = [past EXCEPT !.refused = @ \cup {"timer"}]
      BY <2>1 DEF StartTimer, Refused
    <3> QED
      BY <3>1, PastUpdates
  <2>2. CASE ForceUpdate
    <3>1. past' = [past EXCEPT !.forced = @ + 1]
      BY <2>2 DEF ForceUpdate
    <3> QED
      BY <3>1, PastUpdates
  <2>3. CASE StartPull
    <3>1. past' = past \/ past' = [past EXCEPT !.serving = past.late, !.late = FALSE]
      BY <2>3 DEF StartPull, Serve
    <3> QED
      BY <3>1, PastUpdates
  <2>4. ASSUME ~StartTimer, ~ForceUpdate, ~StartPull PROVE past' = past
    BY <2>4 DEF ProhibitReports, TakeReport, SubtractPulled, RunUpdate, LoadTotal, TellMac
  <2> QED
    BY <2>1, <2>2, <2>3, <2>4 DEF IInv, TypeOK, QRecord, PastRecord
<1>5. TypeOK' /\ Held' = Held
  BY <1>1, <1>2, <1>3, <1>4 DEF IInv, TypeOK, QRecord, PastRecord, Held
<1>6. QueueSound'
  BY <1>2, <1>3, <1>4, <1>5 DEF IInv, QueueSound, SlotsMatchQueue, DecidedOnce
<1> QED
  BY <1>1, <1>2, <1>4, <1>5, <1>6 DEF IInv, SlotsAreQueued, HeldWereWritten

LEMMA NextPreserves == ASSUME ThreadsAssumption, IInv, [Next]_vars PROVE IInv'
<1>1. CASE UNCHANGED vars
  BY <1>1 DEF vars, IInv, TypeOK, QRecord, PastRecord, QueueSound, SlotsMatchQueue,
              DecidedOnce, Held,
              SlotsAreQueued, HeldWereWritten
<1>2. CASE WriteSdu \/ UpperGoesOn \/ \E n \in Sdus : DiscardSdu(n)
  BY <1>2, WriteSduPreserves, PushSduPreserves, DiscardSduPreserves, UpperPreserves
     DEF UpperGoesOn
<1>3. CASE LowerGoesOn \/ ForceUpdate
  BY <1>3, PopSduPreserves, ReleaseSlotPreserves, DropFrontPreserves, LowerPreserves
     DEF LowerGoesOn
<1>4. CASE \E poll \in BOOLEAN : ReceivePdu(poll)
  BY <1>4, UpperPreserves
<1> QED
  BY <1>1, <1>2, <1>3, <1>4 DEF Next

\* The slots match the queue and every SDU is decided once, whichever of discarding
\* and pulling comes first: check_and_release and try_discard need no lock.
THEOREM QueueIsSound == Spec => []QueueSound
<1>1. Init => IInv
  BY InitIInv, ThreadsAssumption
<1>2. IInv /\ [Next]_vars => IInv'
  BY NextPreserves, ThreadsAssumption
<1>3. IInv => QueueSound
  BY DEF IInv
<1> QED
  BY <1>1, <1>2, <1>3, PTL DEF Spec

--------------------------------------------------------------------------------
(* What the MAC knows.                                                        *)

BsRecord == [pending : BOOLEAN, updates : Nat, mac : Int, prev : Int, prevHol : Int,
             unbarred : BOOLEAN]
RxRecord == [exchange : Nat, reader : Nat, doStatus : BOOLEAN, prohibited : BOOLEAN,
             timer : {"off", "queued", "running"}]
SharedTypeOK == bs \in BsRecord /\ rx \in RxRecord

\* Somebody is about to tell the MAC, or to have it told.
UpdateRefused == "update" \in past.refused
Telling ==
    \/ upper.at = "notify" \/ (upper.at = "announce" /\ StatusRequired)
    \/ lower.at \in {"start_timer", "prohibit", "take", "pop", "release", "total", "load"}
    \/ bs.updates > 0 \/ UpdateRefused

\* The MAC was told these bytes, or knows of more than it can use at once.
Known(bytes) == bs.mac = bytes \/ (bs.mac > MaxDlPdu /\ bytes > MaxDlPdu)

\* The flag stands for an update that is queued.
PendingIsQueued == bs.pending => bs.updates > 0 \/ UpdateRefused

\* A large state is kept from the MAC only if it knows of a large one.
BarringSeen == ~bs.unbarred /\ bs.prev > MaxDlPdu => bs.mac > MaxDlPdu

MacFollows ==
    \/ Telling
    \/ lower.at = "front" /\ lower.total = q.total
    \/ lower.at = "idle" /\ Known(PendingBytes(q.total))

MacInv == SharedTypeOK /\ PendingIsQueued /\ BarringSeen /\ MacFollows

LEMMA PendingBytesType ==
    ASSUME ThreadsAssumption, NEW total \in Int PROVE PendingBytes(total) \in Int
<1>1. /\ Width \in Nat \ {0} /\ HeadSize \in Nat
      /\ \A b \in BOOLEAN : (IF b THEN 1 ELSE 0) \in Int
  BY DEF ThreadsAssumption
<1>2. \A a, h, c \in Int, w \in Nat \ {0} : ((a % w) + (a \div w) * h + c) % w \in Int
  <2>1. \A a \in Int, w \in Nat \ {0} : a % w \in Int /\ a \div w \in Int
    OBVIOUS
  <2>2. \A a, h \in Int : a * h \in Int
    OBVIOUS
  <2>3. \A a, b, c \in Int : a + b + c \in Int
    OBVIOUS
  <2> QED
    BY <2>1, <2>2, <2>3
<1>3. (IF StatusRequired THEN 1 ELSE 0) \in Int
  OBVIOUS
<1> QED
  BY <1>1, <1>2, <1>3 DEF PendingBytes, Bytes, NumSdus

LEMMA MacInvInit == ASSUME ThreadsAssumption, Init PROVE MacInv
<1>1. SharedTypeOK /\ PendingIsQueued /\ BarringSeen
  BY DEF Init, SharedTypeOK, BsRecord, RxRecord, PendingIsQueued, BarringSeen, None
<1>2. PendingBytes(q.total) = 0
  <2>1. q.total = 0 /\ ~StatusRequired
    BY DEF Init, StatusRequired
  <2>2. \A w \in Nat \ {0} : 0 % w = 0 /\ 0 \div w = 0
    OBVIOUS
  <2>3. Width \in Nat \ {0} /\ HeadSize \in Nat
    BY DEF ThreadsAssumption
  <2>4. Bytes(q.total) = 0 /\ NumSdus(q.total) = 0
    BY <2>1, <2>2, <2>3 DEF Bytes, NumSdus
  <2>5. Bytes(q.total) + NumSdus(q.total) * HeadSize + (IF StatusRequired THEN 1 ELSE 0) = 0
    BY <2>1, <2>3, <2>4
  <2> QED
    BY <2>2, <2>3, <2>5 DEF PendingBytes
<1>3. lower.at = "idle" /\ bs.mac = 0
  BY DEF Init, Idle
<1> QED
  BY <1>1, <1>2, <1>3 DEF MacInv, MacFollows, Known

\* The UE executor changes what is pending only on its way to tell of it.
LEMMA UpperMacInv ==
    ASSUME ThreadsAssumption, IInv, MacInv,
           \/ WriteSdu \/ UpperGoesOn \/ (\E n \in Sdus : DiscardSdu(n))
           \/ \E poll \in BOOLEAN : ReceivePdu(poll)
    PROVE  MacInv'
<1>1. lower' = lower
  BY DEF WriteSdu, UpperGoesOn, PushSdu, AddSdu, SubtractDiscarded, Notify, RequestStatus,
         Announce, RunTimer, ExpireTimer, DiscardSdu, ReceivePdu
<1>2. past \in PastRecord /\ past.refused \subseteq past'.refused
  <2>1. past \in PastRecord
    BY DEF IInv, TypeOK
  <2>2. \/ past' = past
        \/ WriteSdu \/ PushSdu \/ (\E n \in Sdus : DiscardSdu(n)) \/ Notify \/ RequestStatus
        \/ \E poll \in BOOLEAN : ReceivePdu(poll)
    BY DEF UpperGoesOn, AddSdu, SubtractDiscarded, Announce, RunTimer, ExpireTimer
  <2>3. CASE WriteSdu
    BY <2>1, <2>3 DEF WriteSdu, PastRecord
  <2>4. CASE PushSdu \/ RequestStatus
    BY <2>1, <2>4 DEF PushSdu, RequestStatus, PastRecord, Outcome
  <2>5. CASE \E n \in Sdus : DiscardSdu(n)
    BY <2>1, <2>5 DEF DiscardSdu, PastRecord, Outcome
  <2>6. CASE Notify
    BY <2>1, <2>6 DEF Notify, PastRecord, Refused
  <2>7. CASE \E poll \in BOOLEAN : ReceivePdu(poll)
    BY <2>1, <2>7 DEF ReceivePdu, PastRecord
  <2> QED
    BY <2>1, <2>2, <2>3, <2>4, <2>5, <2>6, <2>7
<1>3. CASE Notify
  <2>1. /\ rx' = rx /\ q' = q
        /\ \/ past' = past /\ bs' = [bs EXCEPT !.pending = TRUE,
                                               !.updates = @ + (IF bs.pending THEN 0 ELSE 1)]
           \/ UpdateRefused' /\ bs' = [bs EXCEPT !.pending = TRUE]
    BY <1>2, <1>3 DEF Notify, Refused, UpdateRefused, PastRecord
  <2>2. bs \in BsRecord /\ rx \in RxRecord
    BY DEF MacInv, SharedTypeOK
  <2>3. /\ bs' \in BsRecord /\ bs'.mac = bs.mac /\ bs'.prev = bs.prev
        /\ bs'.unbarred = bs.unbarred /\ bs'.updates >= bs.updates
        /\ ~bs.pending => bs'.updates > 0 \/ UpdateRefused'
    <3>1. CASE UpdateRefused' /\ bs' = [bs EXCEPT !.pending = TRUE]
      <4>1. /\ bs' \in BsRecord /\ bs'.mac = bs.mac /\ bs'.prev = bs.prev
            /\ bs'.unbarred = bs.unbarred /\ bs'.updates = bs.updates /\ bs.updates \in Nat
        BY <2>2, <3>1 DEF BsRecord
      <4> QED
        BY <3>1, <4>1
    <3>2. CASE bs' = [bs EXCEPT !.pending = TRUE, !.updates = @ + (IF bs.pending THEN 0 ELSE 1)]
      <4> DEFINE v == bs.updates + (IF bs.pending THEN 0 ELSE 1)
      <4>1. bs.updates \in Nat /\ bs' = [bs EXCEPT !.pending = TRUE, !.updates = v]
        BY <2>2, <3>2 DEF BsRecord
      <4>2. v \in Nat /\ v >= bs.updates /\ (~bs.pending => v > 0)
        BY <4>1
      <4> HIDE DEF v
      <4> QED
        BY <2>2, <4>1, <4>2 DEF BsRecord
    <3> QED
      BY <2>1, <3>1, <3>2
  <2>5. SharedTypeOK' /\ BarringSeen'
    BY <2>1, <2>2, <2>3 DEF MacInv, SharedTypeOK, BarringSeen
  <2>6. bs'.updates > 0 \/ UpdateRefused'
    <3>1. bs.updates \in Nat /\ (UpdateRefused => UpdateRefused')
      BY <1>2, <2>2 DEF BsRecord, UpdateRefused
    <3> QED
      BY <2>2, <2>3, <3>1 DEF MacInv, PendingIsQueued, BsRecord
  <2> QED
    BY <2>5, <2>6 DEF MacInv, PendingIsQueued, MacFollows, Telling
<1>4. ASSUME ~Notify PROVE MacInv'
  <2>1. bs' = bs
    BY <1>4 DEF WriteSdu, UpperGoesOn, PushSdu, AddSdu, SubtractDiscarded, RequestStatus,
                Announce, RunTimer, ExpireTimer, DiscardSdu, ReceivePdu
  <2>2. PendingIsQueued' /\ BarringSeen'
    BY <1>2, <2>1 DEF MacInv, PendingIsQueued, BarringSeen, UpdateRefused
  <2>3. SharedTypeOK'
    <3>1. rx \in RxRecord /\ past.version + 1 \in Nat
      BY <1>2 DEF MacInv, SharedTypeOK, PastRecord
    <3>2. rx' \in RxRecord
      BY <1>4, <3>1 DEF WriteSdu, UpperGoesOn, PushSdu, AddSdu, SubtractDiscarded,
           RequestStatus, Announce, RunTimer, ExpireTimer, DiscardSdu, ReceivePdu, RxRecord
    <3> QED
      BY <2>1, <3>2 DEF MacInv, SharedTypeOK
  <2>4. \/ Telling'
        \/ q'.total = q.total /\ (StatusRequired' <=> StatusRequired)
             /\ (upper.at = "notify" \/ (upper.at = "announce" /\ StatusRequired) => Telling')
    <3>1. CASE AddSdu \/ SubtractDiscarded
      BY <3>1 DEF AddSdu, SubtractDiscarded, Telling
    <3>2. CASE WriteSdu \/ PushSdu \/ \E n \in Sdus : DiscardSdu(n)
      <4>1. q'.total = q.total /\ rx' = rx /\ upper.at \in {"idle", "push"}
        BY <3>2 DEF WriteSdu, PushSdu, DiscardSdu, IInv, TypeOK, QRecord
      <4> QED
        BY <4>1 DEF StatusRequired
    <3>3. CASE RunTimer \/ \E poll \in BOOLEAN : ReceivePdu(poll)
      <4>1. /\ q' = q /\ upper.at = "idle"
            /\ rx'.doStatus = rx.doStatus /\ rx'.prohibited = rx.prohibited
        BY <3>3 DEF RunTimer, ReceivePdu, MacInv, SharedTypeOK, RxRecord
      <4> QED
        BY <4>1 DEF StatusRequired
    <3>4. CASE RequestStatus \/ ExpireTimer
      <4>1. /\ q' = q /\ upper.at \in {"idle", "request"} /\ upper'.at = "announce"
            /\ StatusRequired => StatusRequired'
        <5>1. rx \in RxRecord
          BY DEF MacInv, SharedTypeOK
        <5>2. CASE RequestStatus
          BY <5>1, <5>2 DEF RequestStatus, RxRecord, StatusRequired
        <5>3. CASE ExpireTimer
          BY <5>1, <5>3 DEF ExpireTimer, RxRecord, StatusRequired
        <5> QED
          BY <3>4, <5>2, <5>3
      <4> QED
        BY <4>1 DEF Telling
    <3>5. CASE Announce
      BY <3>5 DEF Announce, Telling, StatusRequired
    <3> QED
      BY <1>4, <3>1, <3>2, <3>3, <3>4, <3>5 DEF UpperGoesOn
  <2>5. MacFollows'
    <3>1. CASE Telling'
      BY <3>1 DEF MacFollows
    <3>2. CASE ~Telling'
      <4>1. /\ q'.total = q.total /\ (StatusRequired' <=> StatusRequired)
            /\ ~(upper.at = "notify" \/ (upper.at = "announce" /\ StatusRequired))
        BY <2>4, <3>2
      <4>2. ~Telling
        BY <1>1, <1>2, <2>1, <3>2, <4>1 DEF Telling, UpdateRefused
      <4>3. PendingBytes(q.total)' = PendingBytes(q.total)
        BY <4>1 DEF PendingBytes
      <4> QED
        BY <1>1, <2>1, <4>1, <4>2, <4>3 DEF MacInv, MacFollows, Known
    <3> QED
      BY <3>1, <3>2
  <2> QED
    BY <2>2, <2>3, <2>5 DEF MacInv
<1> QED
  BY <1>3, <1>4

\* The cell executor tells the MAC the total it has read, or else a large state
\* is barred.
LEMMA TellMacMacInv ==
    ASSUME ThreadsAssumption, IInv, MacInv, TellMac PROVE MacInv'
<1> DEFINE bytes == PendingBytes(lower.total)
<1>1. /\ lower.at = "front" /\ lower'.at = "idle" /\ UNCHANGED <<upper, q, rx, past>>
      /\ bs' = IF lower.for = "mac"
               THEN [bs EXCEPT !.mac = bytes, !.unbarred = @ \/ bytes <= MaxDlPdu]
               ELSE [bs EXCEPT !.mac = IF Barred(bytes) THEN @ ELSE bytes,
                               !.prev = bytes, !.prevHol = HeadOfLine, !.unbarred = FALSE]
  BY DEF TellMac, Idle
<1>2. bytes \in Int /\ HeadOfLine \in Int /\ MaxDlPdu \in Int
  <2>1. lower.total \in Int
    BY <1>1 DEF IInv, TypeOK
  <2>2. HeadOfLine \in Int
    <3>1. \A n \in Sdus : n \in Int
      BY SlotOfSdu
    <3>2. q.queue # <<>> => Head(q.queue) \in Sdus
      BY DEF IInv, TypeOK, QRecord
    <3> QED
      BY <3>1, <3>2 DEF HeadOfLine, None
  <2>3. bytes \in Int
    BY <2>1, PendingBytesType
  <2>4. MaxDlPdu \in Int
    BY DEF ThreadsAssumption
  <2> QED
    BY <2>2, <2>3, <2>4
<1> HIDE DEF bytes
<1>3. SharedTypeOK' /\ bs'.pending = bs.pending /\ bs'.updates = bs.updates
  <2>1. bs \in BsRecord /\ (bs.unbarred \/ bytes <= MaxDlPdu) \in BOOLEAN
    BY DEF MacInv, SharedTypeOK
  <2>2. CASE lower.for = "mac"
    BY <1>1, <1>2, <2>1, <2>2 DEF MacInv, SharedTypeOK, BsRecord
  <2>3. CASE lower.for # "mac"
    BY <1>1, <1>2, <2>1, <2>3 DEF MacInv, SharedTypeOK, BsRecord
  <2> QED
    BY <2>2, <2>3
<1>4. Barred(bytes) => bs.mac > MaxDlPdu /\ bytes > MaxDlPdu
  BY DEF Barred, MacInv, BarringSeen
<1>5. bs'.mac = bytes \/ (bs'.mac > MaxDlPdu /\ bytes > MaxDlPdu)
  BY <1>1, <1>4 DEF MacInv, SharedTypeOK, BsRecord
<1>6. BarringSeen'
  <2>1. CASE lower.for = "mac"
    <3>1. bs'.mac = bytes /\ (bs'.unbarred <=> bs.unbarred \/ bytes <= MaxDlPdu)
      BY <1>1, <2>1 DEF MacInv, SharedTypeOK, BsRecord
    <3> QED
      BY <1>2, <3>1 DEF BarringSeen
  <2>2. CASE lower.for # "mac"
    <3>1. bs'.prev = bytes
      BY <1>1, <2>2 DEF MacInv, SharedTypeOK, BsRecord
    <3> QED
      BY <1>5, <3>1 DEF BarringSeen
  <2> QED
    BY <2>1, <2>2
<1>7. PendingIsQueued'
  BY <1>1, <1>3 DEF MacInv, PendingIsQueued, UpdateRefused
<1>8. MacFollows'
  <2>1. StatusRequired' = StatusRequired /\ UpdateRefused' = UpdateRefused
    BY <1>1 DEF StatusRequired, UpdateRefused
  <2>2. CASE Telling
    BY <1>1, <1>3, <2>1, <2>2 DEF Telling, MacFollows
  <2>3. CASE lower.total = q.total
    <3>1. PendingBytes(q.total)' = bytes
      BY <1>1, <2>1, <2>3 DEF PendingBytes, bytes
    <3> QED
      BY <1>1, <1>5, <3>1 DEF MacFollows, Known
  <2> QED
    BY <1>1, <2>2, <2>3 DEF MacInv, MacFollows
<1> QED
  BY <1>3, <1>6, <1>7, <1>8 DEF MacInv

LEMMA LowerMacInv ==
    ASSUME ThreadsAssumption, IInv, MacInv, LowerGoesOn \/ ForceUpdate PROVE MacInv'
<1>1. CASE TellMac
  BY <1>1, TellMacMacInv
<1>2. CASE DropFront
  <2>1. q'.total = q.total /\ UNCHANGED <<upper, lower, bs, rx, past>>
    BY <1>2 DEF DropFront, IInv, TypeOK, QRecord
  <2>2. StatusRequired' = StatusRequired
    BY <2>1 DEF StatusRequired
  <2>3. PendingBytes(q.total)' = PendingBytes(q.total)
    BY <2>1, <2>2 DEF PendingBytes
  <2> QED
    BY <2>1, <2>2, <2>3 DEF MacInv, SharedTypeOK, PendingIsQueued, BarringSeen, MacFollows,
                            Telling, Known, UpdateRefused
<1>3. CASE ~TellMac /\ ~DropFront
  <2>1. past \in PastRecord /\ past.refused \subseteq past'.refused
    <3>1. past \in PastRecord
      BY DEF IInv, TypeOK
    <3>2. CASE StartPull
      <4>1. past' = past \/ past' = [past EXCEPT !.serving = past.late, !.late = FALSE]
        BY <3>2 DEF StartPull, Serve
      <4> QED
        BY <3>1, <4>1 DEF PastRecord
    <3>3. CASE StartTimer \/ ReleaseSlot \/ ForceUpdate
      BY <3>1, <3>3 DEF StartTimer, ReleaseSlot, ForceUpdate, PastRecord, Outcome, Refused
    <3>4. CASE ~StartPull /\ ~StartTimer /\ ~ReleaseSlot /\ ~ForceUpdate
      BY <1>3, <3>1, <3>4 DEF LowerGoesOn, ProhibitReports, TakeReport, PopSdu,
           SubtractPulled, RunUpdate, LoadTotal
    <3> QED
      BY <3>1, <3>2, <3>3, <3>4
  <2>2. SharedTypeOK'
    <3>1. rx \in RxRecord /\ bs \in BsRecord
      BY DEF MacInv, SharedTypeOK
    <3>2. rx' \in RxRecord
      <4>1. CASE StartPull
        <5>1. (rx.doStatus /\ ~StatusRequired) \in BOOLEAN
          OBVIOUS
        <5> QED
          BY <3>1, <4>1, <5>1 DEF StartPull, RxRecord
      <4>2. CASE StartTimer \/ ProhibitReports
        BY <3>1, <4>2 DEF StartTimer, ProhibitReports, RxRecord
      <4>3. CASE TakeReport
        BY <3>1, <4>3 DEF TakeReport, RxRecord
      <4>4. CASE ~StartPull /\ ~StartTimer /\ ~ProhibitReports /\ ~TakeReport
        BY <1>3, <3>1, <4>4 DEF LowerGoesOn, PopSdu, ReleaseSlot, SubtractPulled, RunUpdate,
           ForceUpdate, LoadTotal
      <4> QED
        BY <4>1, <4>2, <4>3, <4>4
    <3>3. bs' \in BsRecord
      <4>1. CASE RunUpdate
        <5>1. bs.updates - 1 \in Nat
          BY <3>1, <4>1 DEF RunUpdate, BsRecord
        <5> QED
          BY <3>1, <4>1, <5>1 DEF RunUpdate, BsRecord
      <4>2. CASE ForceUpdate
        BY <3>1, <4>2 DEF ForceUpdate, BsRecord
      <4>3. CASE ~RunUpdate /\ ~ForceUpdate
        BY <1>3, <3>1, <4>3 DEF LowerGoesOn, StartPull, StartTimer, ProhibitReports, TakeReport,
           PopSdu, ReleaseSlot, SubtractPulled, LoadTotal
      <4> QED
        BY <4>1, <4>2, <4>3
    <3> QED
      BY <3>2, <3>3 DEF SharedTypeOK
  <2>3. \/ bs' = bs
        \/ bs' = [bs EXCEPT !.updates = @ - 1, !.pending = FALSE]
        \/ bs' = [bs EXCEPT !.pending = FALSE]
    BY <1>3 DEF LowerGoesOn, StartPull, StartTimer, ProhibitReports, TakeReport, PopSdu,
                ReleaseSlot, SubtractPulled, RunUpdate, ForceUpdate, LoadTotal
  <2>4. PendingIsQueued' /\ BarringSeen'
    BY <2>1, <2>3 DEF MacInv, SharedTypeOK, BsRecord, PendingIsQueued, BarringSeen,
                      UpdateRefused
  <2>5. CASE LoadTotal
    <3>1. lower'.at = "front" /\ lower'.total = q.total /\ q' = q
      BY <2>5 DEF LoadTotal
    <3>2. MacFollows'
      BY <3>1 DEF MacFollows
    <3> QED
      BY <2>2, <2>4, <3>2 DEF MacInv
  <2>6. CASE ~LoadTotal
    <3>1. lower'.at \in {"start_timer", "prohibit", "take", "pop", "release", "total", "load"}
      <4>1. CASE StartPull \/ StartTimer \/ ProhibitReports
        BY <4>1 DEF StartPull, StartTimer, ProhibitReports, Lower, IInv, TypeOK
      <4>2. CASE PopSdu \/ ReleaseSlot
        BY <4>2 DEF PopSdu, ReleaseSlot
      <4>3. CASE TakeReport \/ SubtractPulled \/ RunUpdate \/ ForceUpdate
        BY <4>3 DEF TakeReport, SubtractPulled, RunUpdate, ForceUpdate
      <4> QED
        BY <1>3, <2>6, <4>1, <4>2, <4>3 DEF LowerGoesOn
    <3>2. MacFollows'
      BY <3>1 DEF MacFollows, Telling
    <3> QED
      BY <2>2, <2>4, <3>2 DEF MacInv
  <2> QED
    BY <2>5, <2>6
<1> QED
  BY <1>1, <1>2, <1>3

LEMMA MacInvNext ==
    ASSUME ThreadsAssumption, IInv, MacInv, [Next]_vars PROVE MacInv'
<1>1. CASE UNCHANGED vars
  <2>1. StatusRequired' = StatusRequired /\ UpdateRefused' = UpdateRefused
    BY <1>1 DEF vars, StatusRequired, UpdateRefused
  <2>2. PendingBytes(q.total)' = PendingBytes(q.total)
    BY <1>1, <2>1 DEF vars, PendingBytes
  <2> QED
    BY <1>1, <2>1, <2>2 DEF vars, MacInv, SharedTypeOK, PendingIsQueued, BarringSeen,
                            MacFollows, Telling, Known
<1> QED
  BY <1>1, UpperMacInv, LowerMacInv DEF Next

\* No wakeup is lost between a change of what is pending, the flag of an update
\* and the barring of large states (on_buffer_state_update, rlc_tx_am_entity.cpp).
THEOREM MacIsTold == Spec => []MacKnows
<1>1. Init => IInv /\ MacInv
  BY InitIInv, MacInvInit, ThreadsAssumption
<1>2. IInv /\ MacInv /\ [Next]_vars => IInv' /\ MacInv'
  BY NextPreserves, MacInvNext, ThreadsAssumption
<1>3. MacInv => MacKnows
  BY DEF MacInv, MacKnows, MacFollows, Telling, Known, UpdateRefused, Idle
<1> QED
  BY <1>1, <1>2, <1>3, PTL DEF Spec

--------------------------------------------------------------------------------
(* The reports.                                                               *)

\* No report is newer than the last one built, and unless the request for it was
\* late the one to be taken is that one.
ReportsInv ==
    /\ rx.reader <= past.version /\ rx.exchange <= past.version
    /\ rx.doStatus /\ ~past.late => rx.exchange = past.version /\ ~Taking
    /\ Taking /\ ~past.serving => rx.exchange = past.version

LEMMA ReportsInvNext ==
    ASSUME ThreadsAssumption, IInv, SharedTypeOK, ReportsInv, [Next]_vars
    PROVE  ReportsInv' /\ (rx'.reader < rx.reader => past.serving)
<1>1. rx \in RxRecord /\ past \in PastRecord
  BY DEF IInv, TypeOK, SharedTypeOK
<1>2. CASE \E poll \in BOOLEAN : ReceivePdu(poll)
  <2>1. /\ past' = [past EXCEPT !.version = @ + 1] /\ lower' = lower
        /\ rx' = [rx EXCEPT !.exchange = past.version + 1]
    BY <1>2 DEF ReceivePdu
  <2>2. /\ past'.version = past.version + 1 /\ rx'.exchange = past.version + 1
        /\ rx'.reader = rx.reader /\ rx'.doStatus = rx.doStatus
        /\ past'.late = past.late /\ past'.serving = past.serving
    BY <1>1, <2>1 DEF PastRecord, RxRecord
  <2> QED
    BY <1>1, <2>1, <2>2 DEF ReportsInv, Taking, RxRecord, PastRecord
<1>3. CASE RequestStatus
  <2>1. /\ lower' = lower /\ rx' = [rx EXCEPT !.doStatus = TRUE]
        /\ past' = [past EXCEPT !.late = rx.exchange # past.version \/ Taking]
    BY <1>3 DEF RequestStatus
  <2>2. /\ past'.version = past.version /\ rx'.exchange = rx.exchange /\ rx'.reader = rx.reader
        /\ past'.serving = past.serving
        /\ past'.late <=> rx.exchange # past.version \/ Taking
    BY <1>1, <2>1 DEF PastRecord, RxRecord
  <2> QED
    BY <1>1, <2>1, <2>2 DEF ReportsInv, Taking, RxRecord, PastRecord
<1>4. CASE TakeReport
  <2>1. /\ Taking /\ lower'.at = "load" /\ past' = past
        /\ rx' = [rx EXCEPT !.reader = rx.exchange, !.exchange = rx.reader]
    BY <1>4 DEF TakeReport, Taking
  <2>2. rx'.reader = rx.exchange /\ rx'.exchange = rx.reader /\ rx'.doStatus = rx.doStatus
    BY <1>1, <2>1 DEF RxRecord
  <2> QED
    BY <1>1, <2>1, <2>2 DEF ReportsInv, Taking, RxRecord, PastRecord
<1>5. CASE StartPull
  <2>1. /\ lower.at = "idle"
        /\ past' = IF StatusRequired
                   THEN [past EXCEPT !.serving = past.late, !.late = FALSE] ELSE past
        /\ rx' = [rx EXCEPT !.doStatus = @ /\ ~StatusRequired]
        /\ lower'.at = IF StatusRequired THEN "start_timer" ELSE "pop"
    BY <1>5 DEF StartPull, Serve
  <2>2. /\ rx'.reader = rx.reader /\ rx'.exchange = rx.exchange
        /\ rx'.doStatus <=> rx.doStatus /\ ~StatusRequired
    BY <1>1, <2>1 DEF RxRecord
  <2>3. ~Taking /\ (Taking' <=> StatusRequired)
    BY <2>1 DEF Taking
  <2>4. CASE StatusRequired
    <3>1. past'.version = past.version /\ past'.serving = past.late /\ rx.doStatus
      BY <1>1, <2>1, <2>4 DEF PastRecord, StatusRequired
    <3> QED
      BY <1>1, <2>2, <2>3, <2>4, <3>1 DEF ReportsInv, RxRecord, PastRecord
  <2>5. CASE ~StatusRequired
    <3>1. past' = past
      BY <2>1, <2>5
    <3> QED
      BY <1>1, <2>2, <2>3, <2>5, <3>1 DEF ReportsInv, RxRecord, PastRecord
  <2> QED
    BY <2>4, <2>5
<1>6. /\ rx'.reader = rx.reader /\ rx'.exchange = rx.exchange /\ rx'.doStatus = rx.doStatus
      /\ past'.version = past.version /\ past'.late = past.late
      /\ past'.serving = past.serving /\ (Taking' <=> Taking)
      => ReportsInv' /\ ~(rx'.reader < rx.reader)
  BY <1>1 DEF ReportsInv, RxRecord
<1>7. ASSUME ~(\E poll \in BOOLEAN : ReceivePdu(poll)), ~RequestStatus, ~TakeReport, ~StartPull
      PROVE  /\ rx'.reader = rx.reader /\ rx'.exchange = rx.exchange
             /\ rx'.doStatus = rx.doStatus
             /\ past'.version = past.version /\ past'.late = past.late
             /\ past'.serving = past.serving /\ (Taking' <=> Taking)
  <2>1. CASE UNCHANGED vars
    BY <2>1 DEF vars, Taking
  <2>2. CASE WriteSdu \/ PushSdu \/ \E n \in Sdus : DiscardSdu(n)
    <3>1. lower' = lower /\ rx' = rx
      BY <2>2 DEF WriteSdu, PushSdu, DiscardSdu
    <3>2. /\ past'.version = past.version /\ past'.late = past.late
          /\ past'.serving = past.serving
      <4>1. CASE WriteSdu
        BY <1>1, <4>1 DEF WriteSdu, PastRecord
      <4>2. CASE PushSdu
        BY <1>1, <4>2 DEF PushSdu, Outcome, PastRecord
      <4>3. CASE \E n \in Sdus : DiscardSdu(n)
        BY <1>1, <4>3 DEF DiscardSdu, Outcome, PastRecord
      <4> QED
        BY <2>2, <4>1, <4>2, <4>3
    <3> QED
      BY <3>1, <3>2 DEF Taking
  <2>3. CASE AddSdu \/ SubtractDiscarded \/ Announce
    BY <2>3 DEF AddSdu, SubtractDiscarded, Announce, Taking
  <2>4. CASE Notify
    BY <1>1, <2>4 DEF Notify, Refused, PastRecord, Taking
  <2>5. CASE RunTimer \/ ExpireTimer
    BY <1>1, <2>5 DEF RunTimer, ExpireTimer, RxRecord, Taking
  <2>6. CASE StartTimer
    <3>1. /\ Taking /\ Taking'
          /\ past' = past \/ past' = [past EXCEPT !.refused = @ \cup {"timer"}]
          /\ rx' = [rx EXCEPT !.timer = "queued"] \/ rx' = rx
      BY <2>6 DEF StartTimer, Refused, Taking, Lower, IInv, TypeOK
    <3>2. /\ past'.version = past.version /\ past'.late = past.late
          /\ past'.serving = past.serving
      BY <1>1, <3>1 DEF PastRecord
    <3>3. rx'.reader = rx.reader /\ rx'.exchange = rx.exchange /\ rx'.doStatus = rx.doStatus
      BY <1>1, <3>1 DEF RxRecord
    <3> QED
      BY <3>1, <3>2, <3>3
  <2>7. CASE PopSdu \/ SubtractPulled \/ RunUpdate \/ LoadTotal \/ DropFront \/ TellMac
    BY <2>7 DEF PopSdu, SubtractPulled, RunUpdate, LoadTotal, DropFront, TellMac, Idle, Taking
  <2>8. CASE ReleaseSlot
    BY <1>1, <2>8 DEF ReleaseSlot, Outcome, PastRecord, Taking
  <2>9. CASE ForceUpdate
    BY <1>1, <2>9 DEF ForceUpdate, PastRecord, Taking
  <2>10. CASE ProhibitReports
    BY <1>1, <2>10 DEF ProhibitReports, Lower, IInv, TypeOK, RxRecord, Taking
  <2> QED
    BY <1>7, <2>1, <2>2, <2>3, <2>4, <2>5, <2>6, <2>7, <2>8, <2>9, <2>10
       DEF Next, UpperGoesOn, LowerGoesOn
<1> QED
  BY <1>2, <1>3, <1>4, <1>5, <1>6, <1>7

\* A report is stored before it is asked for (handle_data_pdu, rlc_rx_am_entity.cpp),
\* so what get_status_pdu takes is never older than what it took before, unless it
\* answers a request that came late, and only then: a late request spoils its own
\* report and no other.
THEOREM ReportsAreInOrder == Spec => ReportsGoForward
<1>1. Init => IInv /\ MacInv /\ ReportsInv
  <2>1. Init => ReportsInv
    BY DEF Init, Idle, ReportsInv, Taking
  <2> QED
    BY <2>1, InitIInv, MacInvInit, ThreadsAssumption
<1>2. IInv /\ MacInv /\ ReportsInv /\ [Next]_vars => IInv' /\ MacInv' /\ ReportsInv'
  BY NextPreserves, MacInvNext, ReportsInvNext, ThreadsAssumption DEF MacInv
<1>3. IInv /\ MacInv /\ ReportsInv /\ [Next]_vars
      => [rx'.reader < rx.reader => past.serving]_vars
  BY ReportsInvNext, ThreadsAssumption DEF MacInv
<1> QED
  BY <1>1, <1>2, <1>3, PTL DEF Spec, ReportsGoForward

--------------------------------------------------------------------------------
(* Remainders.                                                                *)

LEMMA Multiple == ASSUME NEW k \in Int, NEW m \in Nat \ {0}, k # 0 PROVE k * m >= m \/ k * m <= -m
<1>1. CASE k >= 1
  <2>1. (k - 1) * m >= 0
    BY <1>1
  <2>2. k * m = (k - 1) * m + m
    OBVIOUS
  <2> QED BY <2>1, <2>2
<1>2. CASE k <= -1
  <2>1. (-1 - k) * m >= 0
    BY <1>2
  <2>2. k * m = -((-1 - k) * m) - m
    OBVIOUS
  <2> QED BY <2>1, <2>2
<1> QED BY <1>1, <1>2
LEMMA Division == ASSUME NEW x \in Int, NEW m \in Nat \ {0}
   PROVE x % m \in 0..m-1 /\ x \div m \in Int /\ x = m * (x \div m) + (x % m)
<1>1. x % m \in Int /\ x % m >= 0 /\ x % m < m
  OBVIOUS
<1>2. x \div m \in Int
  OBVIOUS
<1>3. x = m * (x \div m) + (x % m)
  OBVIOUS
<1> QED BY <1>1, <1>2, <1>3
LEMMA Remainder == ASSUME NEW k \in Int, NEW m \in Nat \ {0}, NEW r \in 0..m-1
   PROVE (k * m + r) % m = r
<1> DEFINE x == k * m + r
           d == x \div m
           e == x % m
<1>0. x \in Int
  OBVIOUS
<1>1. e \in 0..m-1 /\ d \in Int /\ x = m * d + e
  BY <1>0, Division
<1>2. x = k * m + r
  OBVIOUS
<1> HIDE DEF x, d, e
<1>3. (k - d) * m = e - r
  <2>1. (k - d) * m = k * m - m * d
    BY <1>1
  <2> QED BY <1>1, <1>2, <2>1
<1>4. CASE k - d # 0
  BY <1>1, <1>3, <1>4, Multiple
<1>5. CASE k - d = 0
  BY <1>1, <1>3, <1>5
<1> QED BY <1>4, <1>5 DEF e, x
\* Adding before the remainder is taken or after it is the same.
LEMMA RemainderOfSum == ASSUME NEW a \in Int, NEW b \in Int, NEW m \in Nat \ {0}
   PROVE ((a % m) + b) % m = (a + b) % m
<1> DEFINE d == a \div m
           e == (a + b) \div m
           r == (a + b) % m
<1>0. a + b \in Int
  OBVIOUS
<1>1. a % m \in 0..m-1 /\ d \in Int /\ a = m * d + (a % m)
  BY Division
<1>2. r \in 0..m-1 /\ e \in Int /\ a + b = m * e + r
  BY <1>0, Division
<1> HIDE DEF d, e, r
<1>3. (a % m) + b = (e - d) * m + r
  <2>1. (e - d) * m = m * e - m * d
    BY <1>1, <1>2
  <2> DEFINE u == m * e
             v == m * d
             w == (e - d) * m
             c == a % m
  <2>2. u \in Int /\ v \in Int /\ w \in Int /\ c \in Int
    BY <1>1, <1>2
  <2>3. w = u - v /\ a = v + c /\ a + b = u + r /\ r \in Int
    BY <1>1, <1>2, <2>1
  <2> HIDE DEF u, v, w, c
  <2>4. c + b = w + r
    BY <2>2, <2>3
  <2> QED BY <2>4 DEF w, c
<1>4. e - d \in Int
  BY <1>1, <1>2
<1>5. ((e - d) * m + r) % m = r
  BY <1>2, <1>4, Remainder
<1> QED BY <1>3, <1>5 DEF r

--------------------------------------------------------------------------------
(* What a set of SDUs adds up to.                                             *)

\* Induction over the natural numbers.
LEMMA CountUp ==
  ASSUME NEW S, 0 \in S, \A n \in S \cap Nat : n + 1 \in S
  PROVE  Nat \subseteq S
<1> SUFFICES ASSUME Nat \ S # {} PROVE FALSE
  OBVIOUS
<1>1. PICK n \in Nat \ S : \A m \in Nat \ S : ~(<<m, n>> \in OpToRel(<, Nat))
  BY NatLessThanWellFounded, WFMin, Zenon
<1>2. n # 0 /\ n - 1 \in Nat /\ n - 1 < n /\ (n - 1) + 1 = n
  OBVIOUS
<1>3. CASE n - 1 \in S
  BY <1>2, <1>3
<1>4. CASE n - 1 \notin S
  <2>1. <<n - 1, n>> \in OpToRel(<, Nat)
    BY <1>2 DEF OpToRel
  <2> QED  BY <1>1, <1>2, <1>4, <2>1
<1> QED  BY <1>3, <1>4

Measures(S) ==
  {g \in [SUBSET S -> Nat] :
     /\ g[{}] = 0
     /\ \A s \in SUBSET S : \A x \in s : g[s] = g[s \ {x}] + Packed(Size[x])}

Folded(S, g) ==
  g = [s \in SUBSET S |->
         IF s = {} THEN 0
         ELSE LET x == CHOOSE x \in s : TRUE IN g[s \ {x}] + Packed(Size[x])]

LEMMA TotalOfFolds ==
  ASSUME NEW S
  PROVE  TotalOf(S) = (CHOOSE g : Folded(S, g))[S]
  BY Zenon DEF TotalOf, FoldSet, MapThenFoldSet, Folded

LEMMA PackedSize == ASSUME NEW n \in Sdus PROVE Packed(Size[n]) \in Nat
  BY ThreadsAssumption DEF Packed, Sdus

\* What is added for one SDU more.
LEMMA MeasureGrows ==
  ASSUME NEW S \in SUBSET Sdus, NEW g \in Measures(S), NEW n \in Sdus \ S
  PROVE  [s \in SUBSET (S \cup {n}) |-> IF n \in s THEN g[s \ {n}] + Packed(Size[n]) ELSE g[s]]
           \in Measures(S \cup {n})
<1> DEFINE h == [s \in SUBSET (S \cup {n}) |->
                   IF n \in s THEN g[s \ {n}] + Packed(Size[n]) ELSE g[s]]
<1>1. g \in [SUBSET S -> Nat] /\ g[{}] = 0 /\ Packed(Size[n]) \in Nat
  BY PackedSize DEF Measures
<1>2. \A s \in SUBSET (S \cup {n}) : s \ {n} \in SUBSET S
  OBVIOUS
<1>3. h \in [SUBSET (S \cup {n}) -> Nat] /\ h[{}] = 0
  BY <1>1, <1>2
<1>4. ASSUME NEW s \in SUBSET (S \cup {n}), NEW x \in s
      PROVE  h[s] = h[s \ {x}] + Packed(Size[x])
  <2>1. s \ {x} \in SUBSET (S \cup {n}) /\ Packed(Size[x]) \in Nat
    BY PackedSize
  <2>2. CASE n \notin s
    <3>1. s \in SUBSET S /\ n \notin s \ {x}
      BY <2>2
    <3>2. g[s] = g[s \ {x}] + Packed(Size[x])
      BY <3>1 DEF Measures
    <3> QED  BY <2>1, <2>2, <3>1, <3>2
  <2>3. CASE n \in s /\ x = n
    BY <2>1, <2>3
  <2>4. CASE n \in s /\ x # n
    <3> DEFINE r == s \ {n}
    <3>1. r \in SUBSET S /\ x \in r /\ n \in s \ {x} /\ (s \ {x}) \ {n} = r \ {x} /\ r \ {x} \in SUBSET S
      BY <2>4
    <3>2. g[r] = g[r \ {x}] + Packed(Size[x])
      BY <3>1 DEF Measures
    <3>3. h[s] = g[r] + Packed(Size[n])
      BY <2>4
    <3>4. h[s \ {x}] = g[r \ {x}] + Packed(Size[n])
      BY <2>1, <3>1
    <3>5. g[r] \in Nat /\ g[r \ {x}] \in Nat
      BY <1>1, <3>1
    <3> HIDE DEF r, h
    <3> QED  BY <1>1, <2>1, <3>2, <3>3, <3>4, <3>5
  <2> QED  BY <2>2, <2>3, <2>4
<1> HIDE DEF h
<1>5. h \in Measures(S \cup {n})
  BY <1>3, <1>4 DEF Measures
<1> QED  BY <1>5 DEF h

LEMMA MeasureExists ==
  ASSUME NEW S \in SUBSET Sdus, IsFiniteSet(S) PROVE Measures(S) # {}
<1> DEFINE Good == {n \in Nat : \A s \in SUBSET S : Cardinality(s) = n => Measures(s) # {}}
<1>1. 0 \in Good
  <2> SUFFICES ASSUME NEW s \in SUBSET S, Cardinality(s) = 0 PROVE Measures(s) # {}
    OBVIOUS
  <2>1. s = {}
    BY FS_EmptySet, FS_Subset
  <2>2. [r \in {{}} |-> 0] \in Measures({}) 
    <3>1. SUBSET {} = {{}}
      OBVIOUS
    <3> QED  BY <3>1, Zenon DEF Measures
  <2> QED  BY <2>1, <2>2
<1>2. ASSUME NEW n \in Good PROVE n + 1 \in Good
  <2> SUFFICES ASSUME NEW s \in SUBSET S, Cardinality(s) = n + 1 PROVE Measures(s) # {}
    OBVIOUS
  <2>1. IsFiniteSet(s) /\ s # {}
    BY FS_Subset, FS_EmptySet
  <2>2. PICK x \in s : TRUE
    BY <2>1
  <2>3. Cardinality(s \ {x}) = n /\ s \ {x} \in SUBSET S
    <3>1. n \in Nat /\ Cardinality(s \ {x}) = Cardinality(s) - 1
      BY <2>1, <2>2, FS_RemoveElement
    <3> QED  BY <3>1
  <2>4. PICK g : g \in Measures(s \ {x})
    BY <2>3
  <2>5. (s \ {x}) \cup {x} = s /\ s \ {x} \in SUBSET Sdus /\ x \in Sdus \ (s \ {x})
    BY <2>2
  <2> QED  BY <2>4, <2>5, MeasureGrows
<1> HIDE DEF Good
<1>3. Nat \subseteq Good
  BY <1>1, <1>2, CountUp
<1>4. Cardinality(S) \in Good
  BY <1>3, FS_CardinalityType
<1> QED  BY <1>4 DEF Good

\* The fold of FoldSet is what any order of adding up gives.
LEMMA FoldIsMeasure ==
  ASSUME NEW S \in SUBSET Sdus, IsFiniteSet(S), NEW g \in Measures(S)
  PROVE  TotalOf(S) = g[S]
<1> DEFINE f == CHOOSE h : Folded(S, h)
<1>1. Folded(S, g)
  <2>1. g \in [SUBSET S -> Nat]
    BY DEF Measures
  <2>2. ASSUME NEW s \in SUBSET S, s # {}
        PROVE  g[s] = g[s \ {CHOOSE x \in s : TRUE}] + Packed(Size[CHOOSE x \in s : TRUE])
    BY <2>2 DEF Measures
  <2>3. g[{}] = 0
    BY DEF Measures
  <2> QED  BY <2>1, <2>2, <2>3 DEF Folded
<1>2. Folded(S, f)
  BY <1>1
<1> HIDE DEF f
<1> DEFINE Good == {n \in Nat : \A s \in SUBSET S : Cardinality(s) = n => f[s] = g[s]}
<1>3. 0 \in Good
  <2> SUFFICES ASSUME NEW s \in SUBSET S, Cardinality(s) = 0 PROVE f[s] = g[s]
    OBVIOUS
  <2>1. s = {}
    BY FS_EmptySet, FS_Subset
  <2> QED  BY <1>1, <1>2, <2>1 DEF Folded
<1>4. ASSUME NEW n \in Good PROVE n + 1 \in Good
  <2> SUFFICES ASSUME NEW s \in SUBSET S, Cardinality(s) = n + 1 PROVE f[s] = g[s]
    OBVIOUS
  <2>1. IsFiniteSet(s) /\ s # {}
    BY FS_Subset, FS_EmptySet
  <2> DEFINE x == CHOOSE x \in s : TRUE
  <2>2. x \in s
    BY <2>1
  <2>3. Cardinality(s \ {x}) = n /\ s \ {x} \in SUBSET S
    <3>1. n \in Nat /\ Cardinality(s \ {x}) = Cardinality(s) - 1
      BY <2>1, <2>2, FS_RemoveElement
    <3> QED  BY <3>1
  <2>4. f[s \ {x}] = g[s \ {x}]
    BY <2>3
  <2>5. f[s] = f[s \ {x}] + Packed(Size[x]) /\ g[s] = g[s \ {x}] + Packed(Size[x])
    BY <1>1, <1>2, <2>1 DEF Folded
  <2> QED  BY <2>4, <2>5
<1> HIDE DEF Good
<1>5. Nat \subseteq Good
  BY <1>3, <1>4, CountUp
<1>6. Cardinality(S) \in Good
  BY <1>5, FS_CardinalityType
<1> QED  BY <1>6, TotalOfFolds DEF Good, f

\* So the total of the SDUs grows with each of them by its length and count.
LEMMA TotalOfMore ==
  ASSUME NEW S \in SUBSET Sdus, IsFiniteSet(S), NEW n \in Sdus \ S
  PROVE  TotalOf(S) \in Nat /\ TotalOf(S \cup {n}) = TotalOf(S) + Packed(Size[n])
<1>1. PICK g : g \in Measures(S)
  BY MeasureExists
<1> DEFINE h == [s \in SUBSET (S \cup {n}) |->
                   IF n \in s THEN g[s \ {n}] + Packed(Size[n]) ELSE g[s]]
<1>2. h \in Measures(S \cup {n})
  BY <1>1, MeasureGrows
<1>3. IsFiniteSet(S \cup {n}) /\ S \cup {n} \in SUBSET Sdus
  BY FS_AddElement
<1>4. h[S \cup {n}] = g[S] + Packed(Size[n])
  <2>1. (S \cup {n}) \ {n} = S
    OBVIOUS
  <2> QED  BY <2>1
<1>5. TotalOf(S) = g[S] /\ g[S] \in Nat
  BY <1>1, FoldIsMeasure DEF Measures
<1>6. TotalOf(S \cup {n}) = h[S \cup {n}]
  BY <1>2, <1>3, FoldIsMeasure
<1> QED  BY <1>4, <1>5, <1>6

BytesOf(S) == TotalOf(S) - Width * Cardinality(S)

LEMMA BytesOfMore ==
  ASSUME ThreadsAssumption, NEW S \in SUBSET Sdus, IsFiniteSet(S), NEW n \in Sdus \ S
  PROVE  /\ BytesOf(S) \in Int
         /\ BytesOf(S \cup {n}) = BytesOf(S) + Size[n]
<1>1. /\ TotalOf(S) \in Nat /\ TotalOf(S \cup {n}) = TotalOf(S) + (Width + Size[n])
      /\ Cardinality(S \cup {n}) = Cardinality(S) + 1 /\ Cardinality(S) \in Nat
  BY TotalOfMore, FS_AddElement, FS_CardinalityType DEF Packed
<1>2. Width \in Nat /\ Size[n] \in Nat
  BY SlotOfSdu DEF ThreadsAssumption
<1> DEFINE c == Cardinality(S)
           p == Width * c
<1>3. Width * (c + 1) = p + Width /\ p \in Int
  <2>1. c \in Nat
    BY <1>1
  <2> HIDE DEF c
  <2> QED
    BY <1>2, <2>1
<1>4. BytesOf(S) = TotalOf(S) - p /\ BytesOf(S \cup {n}) = TotalOf(S \cup {n}) - (p + Width)
  BY <1>1, <1>3, Zenon DEF BytesOf
<1>5. TotalOf(S) \in Nat /\ TotalOf(S \cup {n}) = TotalOf(S) + (Width + Size[n]) /\ p \in Int
  BY <1>1, <1>3
<1> HIDE DEF c, p
<1> QED
  BY SMTT(20), <1>2, <1>4, <1>5

LEMMA BytesOfType ==
  ASSUME ThreadsAssumption, NEW S \in SUBSET Sdus, IsFiniteSet(S)
  PROVE  BytesOf(S) \in Nat /\ TotalOf(S) \in Nat /\ Cardinality(S) \in Nat
<1>1. ASSUME NEW s \in SUBSET S PROVE IsFiniteSet(s) /\ s \in SUBSET Sdus /\ TotalOf(s) \in Nat
  <2>1. IsFiniteSet(s) /\ s \in SUBSET Sdus
    BY FS_Subset
  <2>2. PICK g : g \in Measures(s)
    BY <2>1, MeasureExists
  <2>3. TotalOf(s) = g[s]
    BY <2>1, <2>2, FoldIsMeasure
  <2>4. g[s] \in Nat
    BY <2>2 DEF Measures
  <2> QED
    BY <2>1, <2>3, <2>4
<1> DEFINE Good == {n \in Nat : \A s \in SUBSET S : Cardinality(s) = n => BytesOf(s) \in Nat}
<1>2. 0 \in Good
  <2> SUFFICES ASSUME NEW s \in SUBSET S, Cardinality(s) = 0 PROVE BytesOf(s) \in Nat
    OBVIOUS
  <2>1. Width \in Nat /\ Width * 0 = 0
    BY DEF ThreadsAssumption
  <2> QED
    BY <1>1, <2>1 DEF BytesOf
<1>3. ASSUME NEW n \in Good PROVE n + 1 \in Good
  <2> SUFFICES ASSUME NEW s \in SUBSET S, Cardinality(s) = n + 1 PROVE BytesOf(s) \in Nat
    OBVIOUS
  <2>1. IsFiniteSet(s) /\ s # {} /\ s \in SUBSET Sdus
    BY <1>1, FS_EmptySet
  <2>2. PICK x \in s : TRUE
    BY <2>1
  <2>3. Cardinality(s \ {x}) = n /\ s \ {x} \in SUBSET S
    <3>1. n \in Nat /\ Cardinality(s \ {x}) = Cardinality(s) - 1
      BY <2>1, <2>2, FS_RemoveElement
    <3> QED
      BY <3>1
  <2>4. BytesOf(s \ {x}) \in Nat
    BY <2>3
  <2>5. (s \ {x}) \cup {x} = s /\ x \in Sdus \ (s \ {x}) /\ Size[x] \in Nat
    BY <2>1, <2>2, SlotOfSdu
  <2>6. IsFiniteSet(s \ {x}) /\ s \ {x} \in SUBSET Sdus
    BY <1>1, <2>3
  <2>7. BytesOf((s \ {x}) \cup {x}) = BytesOf(s \ {x}) + Size[x]
    BY <2>5, <2>6, BytesOfMore
  <2>8. BytesOf(s) = BytesOf(s \ {x}) + Size[x]
    BY <2>5, <2>7
  <2> QED
    BY <2>4, <2>5, <2>8
<1> HIDE DEF Good
<1>4. Nat \subseteq Good
  BY <1>2, <1>3, CountUp
<1>5. Cardinality(S) \in Good
  BY <1>4, FS_CardinalityType
<1> QED
  BY <1>1, <1>5, FS_CardinalityType DEF Good

--------------------------------------------------------------------------------
(* The totals.                                                                *)

\* What an executor has changed in the queue and not in the totals yet.
Adding == IF upper.at = "add" THEN Packed(Size[upper.sdu]) ELSE 0
Discarding == IF upper.at = "subtract" THEN Packed(Size[upper.sdu]) ELSE 0
Pulling == IF lower.at = "total" THEN Packed(lower.size) ELSE 0
Ahead == TotalOf(Waiting) - Adding + Discarding + Pulling

\* An SDU keeps its slot and its size there until it is taken off the totals.
SizesKept ==
    /\ \A n \in Waiting : /\ n \in Held /\ q.slot[SlotOf(n)] = n
                          /\ q.size[SlotOf(n)] = Size[n]
    /\ upper.at = "subtract" => q.size[SlotOf(upper.sdu)] = Size[upper.sdu]
    /\ upper.at = "push" => past.outcome[upper.sdu] = "none"
    /\ \A n \in Sdus : n >= past.next => past.outcome[n] = "none"

\* The bytes pulled are subtracted late, and those to be pushed counted already.
PulledBytes == IF lower.at = "total" THEN lower.size ELSE 0
PushedBytes == IF upper.at = "push" THEN Size[upper.sdu] ELSE 0
WithinLimit == BytesOf(Waiting) + PulledBytes + PushedBytes < ByteLimit

TotalAhead == q.total = Ahead % (Width * Width)

TotalsInv == SizesKept /\ WithinLimit /\ TotalAhead

LEMMA QuantitiesType ==
    ASSUME ThreadsAssumption, IInv
    PROVE  /\ Waiting \in SUBSET Sdus /\ IsFiniteSet(Waiting)
           /\ TotalOf(Waiting) \in Nat /\ BytesOf(Waiting) \in Nat
           /\ Adding \in Nat /\ Discarding \in Nat /\ Pulling \in Nat
           /\ PulledBytes \in Nat /\ PushedBytes \in Nat /\ Ahead \in Int
<1>1. Waiting \in SUBSET Sdus /\ IsFiniteSet(Waiting)
  <2>1. Sdus = 1..Len(Size) /\ Len(Size) \in Nat
    BY DEF ThreadsAssumption, Sdus
  <2>2. IsFiniteSet(Sdus)
    BY <2>1, FS_Interval
  <2> QED
    BY <2>2, FS_Subset DEF Waiting
<1>2. TotalOf(Waiting) \in Nat /\ BytesOf(Waiting) \in Nat
  BY <1>1, BytesOfType
<1>3. Width \in Nat /\ \A n \in Sdus : Packed(Size[n]) \in Nat /\ Size[n] \in Nat
  BY PackedSize, SlotOfSdu DEF ThreadsAssumption
<1>4. Adding \in Nat /\ Discarding \in Nat /\ PushedBytes \in Nat
  <2>1. upper.at \in {"add", "subtract", "push"} => upper.sdu \in Sdus
    BY DEF IInv, TypeOK
  <2> QED
    BY <1>3, <2>1 DEF Adding, Discarding, PushedBytes
<1>5. Pulling \in Nat /\ PulledBytes \in Nat
  <2>1. lower.at = "total" => lower.size \in Nat
    BY DEF IInv, TypeOK
  <2> QED
    BY <1>3, <2>1 DEF Pulling, PulledBytes, Packed
<1> QED
  BY <1>1, <1>2, <1>4, <1>5 DEF Ahead

LEMMA WrapType == ASSUME ThreadsAssumption PROVE Width \in Nat \ {0} /\ Width * Width \in Nat \ {0}
<1>1. \A w \in Nat \ {0} : w * w \in Nat \ {0}
  OBVIOUS
<1>2. Width \in Nat \ {0}
  BY DEF ThreadsAssumption
<1> QED
  BY <1>1, <1>2

\* What write reads: the bytes of the SDUs waiting and those being pulled.
LEMMA BytesRead ==
    ASSUME ThreadsAssumption, IInv, TotalsInv, upper.at \notin {"add", "subtract", "push"}
    PROVE  Bytes(q.total) = BytesOf(Waiting) + PulledBytes
<1> DEFINE c == Cardinality(Waiting)
           k == IF lower.at = "total" THEN c + 1 ELSE c
           x == BytesOf(Waiting) + PulledBytes
           w == Width
           d == Ahead \div (w * w)
<1>1. c \in Nat /\ k \in Nat /\ w \in Nat \ {0} /\ w * w \in Nat \ {0}
  <2>1. c \in Nat
    BY QuantitiesType, FS_CardinalityType
  <2>2. w \in Nat \ {0} /\ w * w \in Nat \ {0}
    BY WrapType
  <2> HIDE DEF c, w
  <2> QED
    BY <2>1, <2>2
<1>2. x \in 0..w-1
  <2>1. ByteLimit \in Nat /\ ByteLimit < Width
    BY DEF ThreadsAssumption
  <2>2. x \in Nat /\ x + PushedBytes < ByteLimit /\ PushedBytes = 0
    BY SMTT(20), QuantitiesType DEF TotalsInv, WithinLimit, PushedBytes
  <2> HIDE DEF x
  <2> QED
    BY <1>1, <2>1, <2>2
<1>3. Ahead = k * w + x
  <2> DEFINE t == TotalOf(Waiting)
             p == w * c
             b == PulledBytes
  <2>1. t \in Nat /\ b \in Nat /\ p \in Int
    BY <1>1, QuantitiesType
  <2>2. BytesOf(Waiting) = t - p
    BY Zenon DEF BytesOf
  <2>3. Ahead = t + Pulling /\ Pulling = (IF lower.at = "total" THEN w + b ELSE 0)
    BY SMTT(20), <1>1, <2>1 DEF Ahead, Adding, Discarding, Pulling, Packed, PulledBytes
  <2>4. k * w = p + (IF lower.at = "total" THEN w ELSE 0)
    <3>1. (c + 1) * w = w * c + w /\ c * w = w * c
      <4> HIDE DEF c, w
      <4> QED
        BY <1>1
    <3>2. p + 0 = p
      BY <2>1
    <3> QED
      BY <3>1, <3>2
  <2>5. lower.at # "total" => b = 0
    BY DEF PulledBytes
  <2> HIDE DEF t, p, b, c, w, k
  <2>6. x = (t - p) + b
    BY <2>2 DEF b
  <2> HIDE DEF x
  <2> QED
    BY <1>1, <2>1, <2>3, <2>4, <2>5, <2>6
<1>4. d \in Int /\ Ahead = (w * w) * d + (Ahead % (w * w)) /\ Ahead % (w * w) \in Int
  <2>1. Ahead \in Int
    BY QuantitiesType
  <2> DEFINE m == w * w
  <2>2. m \in Nat \ {0}
    BY <1>1
  <2> HIDE DEF m
  <2>3. /\ Ahead % m \in 0..m-1 /\ Ahead \div m \in Int
        /\ Ahead = m * (Ahead \div m) + (Ahead % m)
    BY <2>1, <2>2, Division
  <2>4. Ahead % m \in Int
    BY <2>2, <2>3
  <2> QED
    BY <2>3, <2>4 DEF m
<1>5. q.total = Ahead % (w * w)
  BY DEF TotalsInv, TotalAhead
<1> HIDE DEF c, k, x, w, d
<1>6. q.total = (k - w * d) * w + x
  <2>1. (k - w * d) * w = k * w - (w * w) * d
    BY <1>1, <1>4
  <2>2. k * w \in Int /\ (w * w) * d \in Int
    BY <1>1, <1>4
  <2> DEFINE y == k * w
             z == (w * w) * d
             u == (k - w * d) * w
             r == q.total
  <2>3. /\ y \in Int /\ z \in Int /\ r \in Int /\ x \in Int
        /\ u = y - z /\ Ahead = y + x /\ Ahead = z + r
    BY <1>2, <1>3, <1>4, <1>5, <2>1, <2>2
  <2> HIDE DEF y, z, u, r
  <2>4. y + x = z + r
    BY <2>3
  <2>5. r = u + x
    BY <2>3, <2>4
  <2> QED
    BY <2>5 DEF u, r
<1>7. k - w * d \in Int
  BY <1>1, <1>4
<1>8. q.total % w = x
  BY <1>1, <1>2, <1>6, <1>7, Remainder
<1> QED
  BY <1>8 DEF Bytes, x, w

\* A step that adds to the totals, or takes from them, what was late.
LEMMA CatchingUp ==
    ASSUME ThreadsAssumption, IInv, TotalAhead, NEW by \in Int,
           q'.total = (q.total + by) % (Width * Width), Ahead' = Ahead + by
    PROVE  TotalAhead'
<1>1. Ahead \in Int /\ Width * Width \in Nat \ {0}
  BY QuantitiesType, WrapType
<1>2. ((Ahead % (Width * Width)) + by) % (Width * Width) = (Ahead + by) % (Width * Width)
  BY <1>1, RemainderOfSum
<1> QED
  BY <1>2 DEF TotalAhead

\* Steps that leave the SDUs, their slots and the totals alone.
LEMMA TotalsKept ==
    ASSUME IInv, TotalsInv, q'.total = q.total, q'.slot = q.slot, q'.size = q.size,
           past'.outcome = past.outcome, Held' = Held,
           past'.next = past.next,
           upper' = upper \/ (upper.at \notin {"add", "subtract", "push"}
                              /\ upper'.at \notin {"add", "subtract", "push"}),
           lower' = lower \/ (lower.at # "total" /\ lower'.at # "total")
    PROVE  TotalsInv'
<1>1. Waiting' = Waiting
  BY DEF Waiting
<1>2. /\ Adding' = Adding /\ Discarding' = Discarding /\ PushedBytes' = PushedBytes
      /\ Pulling' = Pulling /\ PulledBytes' = PulledBytes
  BY Zenon DEF Adding, Discarding, PushedBytes, Pulling, PulledBytes
<1>3. SizesKept'
  <2>1. (upper'.at \in {"subtract", "push"} => upper' = upper)
    OBVIOUS
  <2> QED
    BY <1>1, <2>1 DEF TotalsInv, SizesKept
<1>4. WithinLimit'
  BY <1>1, <1>2 DEF TotalsInv, WithinLimit
<1>5. TotalAhead'
  <2>1. Ahead' = Ahead
    BY <1>1, <1>2 DEF Ahead
  <2> QED
    BY <2>1 DEF TotalsInv, TotalAhead
<1> QED
  BY <1>3, <1>4, <1>5 DEF TotalsInv

LEMMA TotalsInit == ASSUME ThreadsAssumption, Init PROVE TotalsInv
<1>1. Waiting = {}
  BY DEF Init, Waiting
<1>2. /\ Adding = 0 /\ Discarding = 0 /\ PushedBytes = 0 /\ Pulling = 0 /\ PulledBytes = 0
      /\ q.total = 0
  BY DEF Init, Idle, Adding, Discarding, PushedBytes, Pulling, PulledBytes
<1>3. TotalOf({}) = 0
  <2>1. PICK g : g \in Measures({})
    BY FS_EmptySet, MeasureExists
  <2>2. TotalOf({}) = g[{}]
    BY <2>1, FS_EmptySet, FoldIsMeasure
  <2> QED
    BY <2>1, <2>2 DEF Measures
<1>4. BytesOf({}) = 0
  <2>1. Width * 0 = 0
    BY DEF ThreadsAssumption
  <2> QED
    BY <1>3, <2>1, FS_EmptySet DEF BytesOf
<1>5. SizesKept
  BY <1>1 DEF Init, Idle, SizesKept
<1>6. WithinLimit
  BY <1>1, <1>2, <1>4 DEF WithinLimit, ThreadsAssumption
<1>7. TotalAhead
  <2>1. Ahead = 0
    BY <1>1, <1>2, <1>3 DEF Ahead
  <2>2. \A m \in Nat \ {0} : 0 % m = 0
    OBVIOUS
  <2> QED
    BY <1>2, <2>1, <2>2, WrapType DEF TotalAhead
<1> QED
  BY <1>5, <1>6, <1>7 DEF TotalsInv

LEMMA WriteSduTotals ==
    ASSUME ThreadsAssumption, IInv, TotalsInv, WriteSdu PROVE TotalsInv'
<1> DEFINE n == past.next
           full == Size[n] + Bytes(q.total) >= ByteLimit
<1>1. /\ upper.at = "idle" /\ UNCHANGED <<lower, q>> /\ past \in PastRecord
      /\ past' = [past EXCEPT !.next = n + 1, !.outcome[n] = IF full THEN "dropped" ELSE "none"]
      /\ upper' = IF full THEN Idle ELSE [at |-> "push", sdu |-> n]
  BY DEF WriteSdu, IInv, TypeOK
<1>2. n \in Sdus /\ n \in Nat \ {0} /\ Size[n] \in Nat
  <2>1. Sdus = 1..Len(Size) /\ Len(Size) \in Nat /\ n \in Nat \ {0}
    BY <1>1 DEF ThreadsAssumption, Sdus, PastRecord
  <2>2. n \in Sdus
    BY <2>1 DEF WriteSdu
  <2> QED
    BY <2>1, <2>2, SlotOfSdu
<1>3. past.outcome[n] = "none"
  BY <1>2 DEF TotalsInv, SizesKept
<1>4. /\ past'.next = n + 1
      /\ past'.outcome = [past.outcome EXCEPT ![n] = IF full THEN "dropped" ELSE "none"]
  BY <1>1 DEF PastRecord
<1> HIDE DEF full
<1>5. /\ past'.outcome[n] \in {"dropped", "none"} /\ (~full => past'.outcome[n] = "none")
      /\ \A m \in Sdus : m # n => past'.outcome[m] = past.outcome[m]
  BY <1>1, <1>2, <1>4 DEF PastRecord
<1>6. Waiting' = Waiting
  BY <1>2, <1>3, <1>5 DEF Waiting
<1>7. Held' = Held
  BY <1>1 DEF Held
<1>8. SizesKept'
  <2>1. \A m \in Waiting' : /\ m \in Held' /\ q'.slot[SlotOf(m)] = m
                            /\ q'.size[SlotOf(m)] = Size[m]
    BY <1>1, <1>6, <1>7 DEF TotalsInv, SizesKept
  <2>2. upper'.at # "subtract" /\ (upper'.at = "push" => ~full /\ upper'.sdu = n)
    BY <1>1 DEF Idle
  <2>3. \A m \in Sdus : m >= past'.next => m # n /\ m >= past.next
    BY <1>2, <1>4, SlotOfSdu
  <2>4. \A m \in Sdus : m >= past'.next => past'.outcome[m] = "none"
    BY <1>5, <2>3 DEF TotalsInv, SizesKept
  <2> QED
    BY <1>5, <2>1, <2>2, <2>4 DEF SizesKept
<1>9. /\ Adding' = 0 /\ Discarding' = 0 /\ Adding = 0 /\ Discarding = 0
      /\ Pulling' = Pulling /\ PulledBytes' = PulledBytes
      /\ PushedBytes' = IF full THEN 0 ELSE Size[n]
  BY <1>1 DEF Idle, Adding, Discarding, Pulling, PulledBytes, PushedBytes
<1>10. WithinLimit'
  <2>1. Bytes(q.total) = BytesOf(Waiting) + PulledBytes
    BY <1>1, BytesRead
  <2>2. BytesOf(Waiting) \in Nat /\ PulledBytes \in Nat /\ PushedBytes \in Nat
        /\ ByteLimit \in Nat
    BY QuantitiesType DEF ThreadsAssumption
  <2>3. BytesOf(Waiting)' = BytesOf(Waiting)
    BY <1>6
  <2>4. ~full => Size[n] + (BytesOf(Waiting) + PulledBytes) < ByteLimit
    BY SMTT(20), <1>2, <2>1, <2>2 DEF full
  <2>5. BytesOf(Waiting) + PulledBytes + PushedBytes < ByteLimit
    BY DEF TotalsInv, WithinLimit
  <2> QED
    BY SMTT(20), <1>2, <1>9, <2>2, <2>3, <2>4, <2>5 DEF WithinLimit
<1>11. TotalAhead'
  <2>1. Ahead' = Ahead
    BY <1>6, <1>9 DEF Ahead
  <2> QED
    BY <1>1, <2>1 DEF TotalsInv, TotalAhead
<1> QED
  BY <1>8, <1>10, <1>11 DEF TotalsInv

LEMMA PushSduTotals ==
    ASSUME ThreadsAssumption, IInv, TotalsInv, PushSdu PROVE TotalsInv'
<1> DEFINE n == upper.sdu
           i == SlotOf(n)
<1>1. /\ upper.at = "push" /\ n \in Sdus /\ Size[n] \in Nat /\ i \in Slots /\ n \in Nat \ {0}
      /\ lower' = lower /\ past \in PastRecord /\ q \in QRecord /\ past.outcome[n] = "none"
      /\ n < past.next /\ past.next \in Nat
  BY SlotOfSdu DEF PushSdu, IInv, TypeOK, TotalsInv, SizesKept, HeldWereWritten, PastRecord
<1>2. n \notin Waiting
  BY <1>1 DEF Waiting
<1>3. /\ Adding = 0 /\ Discarding = 0 /\ Discarding' = 0 /\ Pulling' = Pulling
      /\ PulledBytes' = PulledBytes /\ PushedBytes = Size[n] /\ PushedBytes' = 0
  <2>1. upper'.at \in {"idle", "add"}
    <3>1. upper' = Idle \/ upper' = [upper EXCEPT !.at = "add"]
      BY DEF PushSdu, Upper
    <3>2. upper \in [at : {"push"}, sdu : Sdus]
      BY <1>1 DEF IInv, TypeOK
    <3> QED
      BY <3>1, <3>2 DEF Idle
  <2> QED
    BY <1>1, <2>1 DEF Adding, Discarding, Pulling, PulledBytes, PushedBytes
<1>4. /\ BytesOf(Waiting) \in Nat /\ PulledBytes \in Nat /\ ByteLimit \in Nat
      /\ Waiting \in SUBSET Sdus /\ IsFiniteSet(Waiting)
      /\ TotalOf(Waiting) \in Nat /\ Pulling \in Nat
  BY QuantitiesType DEF ThreadsAssumption
<1>5. BytesOf(Waiting) + PulledBytes + Size[n] < ByteLimit
  BY <1>3 DEF TotalsInv, WithinLimit
<1>6. CASE q.slot[i] # FREE \/ Len(q.queue) >= Capacity
  <2>1. upper' = Idle /\ past' = [past EXCEPT !.outcome[n] = "dropped"] /\ q' = q
    BY <1>6 DEF PushSdu, Outcome
  <2>2. /\ past'.next = past.next /\ past'.outcome[n] = "dropped"
        /\ \A m \in Sdus : m # n => past'.outcome[m] = past.outcome[m]
    BY <1>1, <2>1 DEF PastRecord
  <2>3. Waiting' = Waiting /\ Held' = Held
    BY <1>1, <2>1, <2>2 DEF Waiting, Held
  <2>4. SizesKept'
    <3>1. \A m \in Sdus : m >= past'.next => m # n
      BY <1>1, <2>2, SlotOfSdu
    <3> QED
      BY <2>1, <2>2, <2>3, <3>1 DEF TotalsInv, SizesKept, Idle
  <2>5. WithinLimit'
    <3>1. BytesOf(Waiting)' = BytesOf(Waiting)
      BY <2>3
    <3> QED
      BY SMTT(20), <1>1, <1>3, <1>4, <1>5, <3>1 DEF WithinLimit
  <2>6. TotalAhead'
    <3>1. Ahead' = Ahead
      BY <1>3, <2>1, <2>3 DEF Ahead, Adding, Idle
    <3> QED
      BY <2>1, <3>1 DEF TotalsInv, TotalAhead
  <2> QED
    BY <2>4, <2>5, <2>6 DEF TotalsInv
<1>7. CASE q.slot[i] = FREE /\ Len(q.queue) < Capacity
  <2>1. /\ upper' = [upper EXCEPT !.at = "add"] /\ past' = [past EXCEPT !.outcome[n] = "queued"]
        /\ q' = [q EXCEPT !.size[i] = Size[n], !.slot[i] = n, !.queue = Append(@, n)]
    <3>1. ~(q.slot[i] # FREE \/ Len(q.queue) >= Capacity)
      BY <1>1, <1>7 DEF QRecord, ThreadsAssumption
    <3> QED
      BY <3>1 DEF PushSdu, Outcome, Upper
  <2>2. /\ past'.next = past.next /\ past'.outcome[n] = "queued"
        /\ \A m \in Sdus : m # n => past'.outcome[m] = past.outcome[m]
    BY <1>1, <2>1 DEF PastRecord
  <2>3. /\ q'.total = q.total /\ q'.queue = Append(q.queue, n)
        /\ q'.slot[i] = n /\ q'.size[i] = Size[n]
        /\ \A j \in Slots : j # i => q'.slot[j] = q.slot[j] /\ q'.size[j] = q.size[j]
    BY <1>1, <2>1 DEF QRecord
  <2>4. upper'.at = "add" /\ upper'.sdu = n
    BY <1>1, <2>1 DEF IInv, TypeOK
  <2>5. Waiting' = Waiting \cup {n}
    BY <1>1, <2>2 DEF Waiting
  <2>6. Held' = Held \cup {n}
    <3>1. Range(q'.queue) = Range(q.queue) \cup {n}
      BY SMTT(20), <1>1, <2>3, RangeOfAppend DEF QRecord
    <3> QED
      BY <1>1, <3>1 DEF Held
  <2>7. SizesKept'
    <3>1. ASSUME NEW m \in Waiting
          PROVE  m \in Held' /\ q'.slot[SlotOf(m)] = m /\ q'.size[SlotOf(m)] = Size[m]
      <4>1. m \in Sdus /\ m \in Held /\ q.slot[SlotOf(m)] = m /\ q.size[SlotOf(m)] = Size[m]
        BY <1>4 DEF TotalsInv, SizesKept
      <4>2. SlotOf(m) \in Slots /\ SlotOf(m) # i
        BY <1>7, <4>1, SlotOfSdu DEF FREE
      <4> QED
        BY <2>3, <2>6, <4>1, <4>2
    <3>2. \A m \in Waiting' : /\ m \in Held' /\ q'.slot[SlotOf(m)] = m
                              /\ q'.size[SlotOf(m)] = Size[m]
      BY <2>3, <2>5, <2>6, <3>1
    <3>3. \A m \in Sdus : m >= past'.next => m # n
      BY <1>1, <2>2, SlotOfSdu
    <3>4. \A m \in Sdus : m >= past'.next => past'.outcome[m] = "none"
      BY <2>2, <3>3 DEF TotalsInv, SizesKept
    <3> QED
      BY <2>4, <3>2, <3>4 DEF SizesKept
  <2>8. WithinLimit'
    <3>1. BytesOf(Waiting)' = BytesOf(Waiting) + Size[n]
      BY <1>1, <1>2, <1>4, <2>5, BytesOfMore
    <3> QED
      BY SMTT(20), <1>1, <1>3, <1>4, <1>5, <3>1 DEF WithinLimit
  <2>9. TotalAhead'
    <3>1. TotalOf(Waiting)' = TotalOf(Waiting) + Packed(Size[n])
      BY <1>1, <1>2, <1>4, <2>5, TotalOfMore
    <3>2. Adding' = Packed(Size[n]) /\ Packed(Size[n]) \in Nat
      BY <1>1, <2>4, PackedSize DEF Adding
    <3>3. Ahead' = Ahead
      BY <1>3, <1>4, <3>1, <3>2 DEF Ahead
    <3> QED
      BY <2>3, <3>3 DEF TotalsInv, TotalAhead
  <2> QED
    BY <2>7, <2>8, <2>9 DEF TotalsInv
<1> QED
  BY <1>1, <1>6, <1>7 DEF QRecord, ThreadsAssumption

LEMMA AddSduTotals ==
    ASSUME ThreadsAssumption, IInv, TotalsInv, AddSdu \/ SubtractDiscarded PROVE TotalsInv'
<1>1. /\ upper.at \in {"add", "subtract"} /\ upper'.at = "notify" /\ UNCHANGED <<lower, past>>
      /\ q \in QRecord /\ upper.sdu \in Sdus
  BY DEF AddSdu, SubtractDiscarded, IInv, TypeOK
<1>2. /\ q'.slot = q.slot /\ q'.size = q.size /\ q'.queue = q.queue
      /\ upper.at = "add" => q'.total = (q.total + Adding) % (Width * Width)
      /\ upper.at = "subtract" => q'.total = (q.total - Discarding) % (Width * Width)
  <2>1. CASE AddSdu
    BY <1>1, <2>1 DEF AddSdu, Add, Adding, QRecord
  <2>2. CASE SubtractDiscarded
    BY <1>1, <2>2 DEF SubtractDiscarded, Sub, Discarding, QRecord, TotalsInv, SizesKept
  <2> QED
    BY <2>1, <2>2
<1>3. Waiting' = Waiting /\ Held' = Held
  BY <1>1, <1>2 DEF Waiting, Held
<1>4. /\ Adding' = 0 /\ Discarding' = 0 /\ PushedBytes' = 0 /\ PushedBytes = 0
      /\ Pulling' = Pulling /\ PulledBytes' = PulledBytes
      /\ upper.at = "add" => Discarding = 0
      /\ upper.at = "subtract" => Adding = 0
  BY <1>1 DEF Adding, Discarding, PushedBytes, Pulling, PulledBytes
<1>5. SizesKept'
  BY <1>1, <1>2, <1>3 DEF TotalsInv, SizesKept
<1>6. WithinLimit'
  <2>1. BytesOf(Waiting)' = BytesOf(Waiting)
    BY <1>3
  <2> QED
    BY <1>4, <2>1 DEF TotalsInv, WithinLimit
<1>7. TotalAhead'
  <2>1. /\ TotalOf(Waiting)' = TotalOf(Waiting) /\ TotalOf(Waiting) \in Int
        /\ Adding \in Int /\ Discarding \in Int /\ Pulling \in Int /\ q.total \in Int
    BY <1>1, <1>3, QuantitiesType DEF QRecord
  <2>2. CASE upper.at = "add"
    <3>1. Ahead' = Ahead + Adding
      BY <1>4, <2>1, <2>2 DEF Ahead
    <3> QED
      BY <1>2, <2>1, <2>2, <3>1, CatchingUp DEF TotalsInv
  <2>3. CASE upper.at = "subtract"
    <3> DEFINE by == -Discarding
    <3>1. by \in Int /\ q.total - Discarding = q.total + by
      BY <2>1
    <3>0. Ahead' = Ahead + by
      <4>1. /\ Ahead = TotalOf(Waiting) + Discarding + Pulling
            /\ Ahead' = TotalOf(Waiting) + Pulling
        BY <1>4, <2>1, <2>3 DEF Ahead
      <4> QED
        BY SMTT(20), <2>1, <4>1
    <3>2. q'.total = (q.total + by) % (Width * Width)
      BY <1>2, <2>3, <3>1
    <3> HIDE DEF by
    <3> QED
      BY <3>0, <3>1, <3>2, CatchingUp DEF TotalsInv
  <2> QED
    BY <1>1, <2>2, <2>3
<1> QED
  BY <1>5, <1>6, <1>7 DEF TotalsInv

LEMMA DiscardSduTotals ==
    ASSUME ThreadsAssumption, IInv, TotalsInv, NEW n \in Sdus, DiscardSdu(n) PROVE TotalsInv'
<1> DEFINE i == SlotOf(n)
           Rest == Waiting \ {n}
<1>1. /\ upper.at = "idle" /\ q.slot[i] = n /\ lower' = lower
      /\ q' = [q EXCEPT !.slot[i] = DISCARDED]
      /\ upper'.at = "subtract" /\ upper'.sdu = n
      /\ past' = [past EXCEPT !.outcome[n] = "discarded"]
      /\ past \in PastRecord /\ q \in QRecord
  BY DEF DiscardSdu, Outcome, IInv, TypeOK
<1>2. i \in Slots /\ n \in Nat \ {0} /\ Size[n] \in Nat
  BY SlotOfSdu
<1>3. /\ q'.total = q.total /\ q'.size = q.size /\ q'.queue = q.queue
      /\ \A j \in Slots : j # i => q'.slot[j] = q.slot[j]
  BY <1>1, <1>2 DEF QRecord
<1>4. /\ past'.next = past.next /\ past'.outcome[n] = "discarded"
      /\ \A m \in Sdus : m # n => past'.outcome[m] = past.outcome[m]
  BY <1>1 DEF PastRecord
<1>5. n \in Held /\ past.outcome[n] = "queued"
  <2>1. PICK m \in Held : SlotOf(m) = i
    BY <1>1, <1>2 DEF IInv, QueueSound, SlotsMatchQueue, FREE
  <2>2. q.slot[i] \in {m, DISCARDED}
    BY <2>1 DEF IInv, QueueSound, SlotsMatchQueue
  <2>3. m = n
    BY <1>1, <1>2, <2>2 DEF DISCARDED
  <2> QED
    BY <1>1, <2>1, <2>3 DEF IInv, SlotsAreQueued
<1>6. Waiting' = Rest /\ Waiting = Rest \cup {n} /\ n \in Sdus \ Rest
  BY <1>4, <1>5 DEF Waiting
<1>7. Held' = Held
  BY <1>1, <1>3 DEF Held
<1>8. q.size[i] = Size[n]
  BY <1>6 DEF TotalsInv, SizesKept
<1>9. SizesKept'
  <2>1. ASSUME NEW m \in Rest
        PROVE  m \in Held' /\ q'.slot[SlotOf(m)] = m /\ q'.size[SlotOf(m)] = Size[m]
    <3>1. m \in Sdus /\ m \in Held /\ q.slot[SlotOf(m)] = m /\ q.size[SlotOf(m)] = Size[m] /\ m # n
      BY QuantitiesType DEF TotalsInv, SizesKept
    <3>2. SlotOf(m) \in Slots /\ SlotOf(m) # i
      BY <1>1, <3>1, SlotOfSdu
    <3> QED
      BY <1>3, <1>7, <3>1, <3>2
  <2>2. \A m \in Sdus : m >= past'.next => past'.outcome[m] = "none"
    BY <1>4, <1>5 DEF TotalsInv, SizesKept
  <2> HIDE DEF Rest
  <2> QED
    BY <1>1, <1>3, <1>6, <1>8, <2>1, <2>2 DEF SizesKept
<1>10. /\ Adding = 0 /\ Discarding = 0 /\ PushedBytes = 0 /\ Pulling' = Pulling
       /\ PulledBytes' = PulledBytes
       /\ Adding' = 0 /\ Discarding' = Packed(Size[n]) /\ PushedBytes' = 0
  BY <1>1 DEF Adding, Discarding, PushedBytes, Pulling, PulledBytes
<1>11. /\ Rest \in SUBSET Sdus /\ IsFiniteSet(Rest) /\ Pulling \in Nat /\ PulledBytes \in Nat
       /\ TotalOf(Rest) \in Nat /\ BytesOf(Rest) \in Nat /\ ByteLimit \in Nat
  <2>1. Waiting \in SUBSET Sdus /\ IsFiniteSet(Waiting) /\ Pulling \in Nat /\ PulledBytes \in Nat
    BY QuantitiesType
  <2>2. Rest \in SUBSET Sdus /\ IsFiniteSet(Rest)
    BY <2>1, FS_Subset
  <2> QED
    BY <2>1, <2>2, BytesOfType DEF ThreadsAssumption
<1> HIDE DEF Rest
<1>12. /\ TotalOf(Waiting)' = TotalOf(Rest) /\ TotalOf(Waiting) = TotalOf(Rest) + Packed(Size[n])
       /\ BytesOf(Waiting)' = BytesOf(Rest) /\ BytesOf(Waiting) = BytesOf(Rest) + Size[n]
       /\ Packed(Size[n]) \in Nat
  BY <1>6, <1>11, TotalOfMore, BytesOfMore, PackedSize
<1>13. WithinLimit'
  BY SMTT(20), <1>2, <1>10, <1>11, <1>12 DEF TotalsInv, WithinLimit
<1>14. TotalAhead'
  <2>1. Ahead' = Ahead
    BY <1>10, <1>11, <1>12 DEF Ahead
  <2> QED
    BY <1>3, <2>1 DEF TotalsInv, TotalAhead
<1> QED
  BY <1>9, <1>13, <1>14 DEF TotalsInv

\* A slot is let go once its SDU has left, or is marked.
LEMMA LettingGoKeepsSizes ==
    ASSUME ThreadsAssumption, IInv, TotalsInv, NEW n \in Held, n \notin Waiting',
           q'.size = q.size, q'.slot = [q.slot EXCEPT ![SlotOf(n)] = FREE],
           Waiting' \subseteq Waiting, Held \ {n} \subseteq Held', upper' = upper,
           past'.next = past.next,
           \A m \in Sdus : m # n => past'.outcome[m] = past.outcome[m]
    PROVE  SizesKept'
<1>1. /\ Held \subseteq Sdus /\ q \in QRecord /\ Waiting \subseteq Sdus
      /\ \A m \in Sdus : SlotOf(m) \in Slots
  BY HeldAreSdus, SlotOfSdu DEF IInv, TypeOK, Waiting
<1>2. \A m \in Waiting' : /\ m \in Held' /\ q'.slot[SlotOf(m)] = m
                          /\ q'.size[SlotOf(m)] = Size[m]
  <2> SUFFICES ASSUME NEW m \in Waiting'
               PROVE  m \in Held' /\ q'.slot[SlotOf(m)] = m /\ q'.size[SlotOf(m)] = Size[m]
    OBVIOUS
  <2>1. m \in Held /\ m # n /\ q.slot[SlotOf(m)] = m /\ q.size[SlotOf(m)] = Size[m]
    BY DEF TotalsInv, SizesKept
  <2>2. SlotOf(m) # SlotOf(n)
    BY <2>1 DEF IInv, QueueSound, SlotsMatchQueue
  <2>3. q'.slot[SlotOf(m)] = q.slot[SlotOf(m)]
    BY <1>1, <2>1, <2>2 DEF QRecord
  <2> QED
    BY <2>1, <2>3
<1>3. n < past.next /\ n \in Nat /\ past.next \in Nat
  BY <1>1, SlotOfSdu DEF IInv, HeldWereWritten, TypeOK, PastRecord
<1>4. \A m \in Sdus : m >= past'.next => past'.outcome[m] = "none"
  <2>1. \A m \in Sdus : m >= past'.next => m # n
    BY <1>3, SlotOfSdu
  <2> QED
    BY <2>1 DEF TotalsInv, SizesKept
<1>5. /\ upper'.at = "push" => past'.outcome[upper'.sdu] = "none"
      /\ upper'.at = "subtract" => q'.size[SlotOf(upper'.sdu)] = Size[upper'.sdu]
  <2>1. upper.at = "push" => upper.sdu \in Sdus /\ upper.sdu # n
    BY DEF IInv, HeldWereWritten, TypeOK
  <2> QED
    BY <2>1 DEF TotalsInv, SizesKept
<1> QED
  BY <1>2, <1>4, <1>5 DEF SizesKept

LEMMA ReleaseSlotTotals ==
    ASSUME ThreadsAssumption, IInv, TotalsInv, ReleaseSlot PROVE TotalsInv'
<1> DEFINE n == lower.sdu
           i == SlotOf(n)
<1>1. /\ lower.at = "release" /\ n \in Sdus /\ i \in Slots /\ Size[n] \in Nat /\ n \in Nat \ {0}
      /\ q \in QRecord /\ past \in PastRecord /\ upper' = upper
      /\ q' = [q EXCEPT !.slot[i] = FREE]
  BY SlotOfSdu DEF ReleaseSlot, IInv, TypeOK
<1>2. /\ q'.slot = [q.slot EXCEPT ![i] = FREE] /\ q'.size = q.size /\ q'.total = q.total
      /\ q'.queue = q.queue
  BY <1>1 DEF QRecord
<1>3. n \in Held /\ Held \ {n} \subseteq Held'
  BY <1>1, <1>2 DEF Held
<1>4. Adding' = Adding /\ Discarding' = Discarding /\ PushedBytes' = PushedBytes
  BY <1>1 DEF Adding, Discarding, PushedBytes
<1>5. Pulling = 0 /\ PulledBytes = 0
  BY <1>1 DEF Pulling, PulledBytes
<1>6. CASE q.slot[i] = DISCARDED
  <2>1. lower'.at = "pop" /\ past' = past
    BY <1>6 DEF ReleaseSlot
  <2>2. Waiting' = Waiting /\ n \notin Waiting
    BY <1>1, <1>6, <2>1 DEF Waiting, TotalsInv, SizesKept, DISCARDED
  <2>3. SizesKept'
    BY <1>1, <1>2, <1>3, <2>1, <2>2, LettingGoKeepsSizes
  <2>4. Pulling' = 0 /\ PulledBytes' = 0
    BY <2>1 DEF Pulling, PulledBytes
  <2>5. WithinLimit'
    BY <1>4, <1>5, <2>2, <2>4 DEF TotalsInv, WithinLimit
  <2>6. TotalAhead'
    <3>1. Ahead' = Ahead
      BY <1>4, <1>5, <2>2, <2>4 DEF Ahead
    <3> QED
      BY <1>2, <3>1 DEF TotalsInv, TotalAhead
  <2> QED
    BY <2>3, <2>5, <2>6 DEF TotalsInv
<1>7. CASE q.slot[i] # DISCARDED
  <2> DEFINE Rest == Waiting \ {n}
  <2>1. q.slot[i] = n /\ past.outcome[n] = "queued"
    BY <1>1, <1>3, <1>7 DEF IInv, QueueSound, SlotsMatchQueue, SlotsAreQueued
  <2>2. /\ lower'.at = "total" /\ lower'.size = q.size[i]
        /\ past' = [past EXCEPT !.outcome[n] = "pulled"]
    BY <1>7, <2>1 DEF ReleaseSlot, Outcome
  <2>3. /\ past'.next = past.next /\ past'.outcome[n] = "pulled"
        /\ \A m \in Sdus : m # n => past'.outcome[m] = past.outcome[m]
    BY <1>1, <2>2 DEF PastRecord
  <2>4. Waiting' = Rest /\ Waiting = Rest \cup {n} /\ n \in Sdus \ Rest
    BY <1>1, <2>1, <2>3 DEF Waiting
  <2>5. lower'.size = Size[n]
    BY <2>2, <2>4 DEF TotalsInv, SizesKept
  <2>6. SizesKept'
    BY <1>1, <1>2, <1>3, <2>3, <2>4, LettingGoKeepsSizes
  <2>7. /\ Rest \in SUBSET Sdus /\ IsFiniteSet(Rest)
        /\ Adding \in Nat /\ Discarding \in Nat /\ PushedBytes \in Nat
        /\ TotalOf(Rest) \in Nat /\ BytesOf(Rest) \in Nat
    <3>1. /\ Waiting \in SUBSET Sdus /\ IsFiniteSet(Waiting)
          /\ Adding \in Nat /\ Discarding \in Nat /\ PushedBytes \in Nat
      BY QuantitiesType
    <3>2. Rest \in SUBSET Sdus /\ IsFiniteSet(Rest)
      BY <3>1, FS_Subset
    <3> QED
      BY <3>1, <3>2, BytesOfType
  <2>8. Pulling' = Packed(Size[n]) /\ PulledBytes' = Size[n] /\ Packed(Size[n]) \in Nat
    BY <1>1, <2>2, <2>5, PackedSize DEF Pulling, PulledBytes
  <2> HIDE DEF Rest
  <2>9. /\ TotalOf(Waiting)' = TotalOf(Rest)
        /\ TotalOf(Waiting) = TotalOf(Rest) + Packed(Size[n])
        /\ BytesOf(Waiting)' = BytesOf(Rest) /\ BytesOf(Waiting) = BytesOf(Rest) + Size[n]
    BY <2>4, <2>7, TotalOfMore, BytesOfMore
  <2>10. WithinLimit'
    BY SMTT(20), <1>1, <1>4, <1>5, <2>7, <2>8, <2>9 DEF TotalsInv, WithinLimit
  <2>11. TotalAhead'
    <3>1. Ahead' = Ahead
      BY <1>4, <1>5, <2>7, <2>8, <2>9 DEF Ahead
    <3> QED
      BY <1>2, <3>1 DEF TotalsInv, TotalAhead
  <2> QED
    BY <2>6, <2>10, <2>11 DEF TotalsInv
<1> QED
  BY <1>6, <1>7

LEMMA SubtractPulledTotals ==
    ASSUME ThreadsAssumption, IInv, TotalsInv, SubtractPulled PROVE TotalsInv'
<1>1. /\ lower.at = "total" /\ lower'.at = "load" /\ UNCHANGED <<upper, past>> /\ q \in QRecord
      /\ q' = [q EXCEPT !.total = (q.total - Pulling) % (Width * Width)]
  BY DEF SubtractPulled, Sub, Pulling, IInv, TypeOK
<1>2. /\ q'.slot = q.slot /\ q'.size = q.size /\ q'.queue = q.queue
      /\ q'.total = (q.total - Pulling) % (Width * Width)
  BY <1>1 DEF QRecord
<1>3. Waiting' = Waiting /\ Held' = Held
  BY <1>1, <1>2 DEF Waiting, Held
<1>4. /\ Adding' = Adding /\ Discarding' = Discarding /\ PushedBytes' = PushedBytes
      /\ Pulling' = 0 /\ PulledBytes' = 0
  BY <1>1 DEF Adding, Discarding, PushedBytes, Pulling, PulledBytes
<1>5. /\ BytesOf(Waiting) \in Nat /\ TotalOf(Waiting) \in Int /\ Adding \in Int
      /\ Discarding \in Int /\ Pulling \in Int /\ PulledBytes \in Nat /\ PushedBytes \in Nat
      /\ q.total \in Int /\ ByteLimit \in Nat
  BY <1>1, QuantitiesType DEF QRecord, ThreadsAssumption
<1>6. SizesKept'
  BY <1>1, <1>2, <1>3 DEF TotalsInv, SizesKept
<1>7. WithinLimit'
  <2>1. BytesOf(Waiting)' = BytesOf(Waiting)
    BY <1>3
  <2> QED
    BY <1>4, <1>5, <2>1 DEF TotalsInv, WithinLimit
<1>8. TotalAhead'
  <2> DEFINE by == -Pulling
  <2>1. by \in Int /\ q.total - Pulling = q.total + by
    BY <1>5
  <2>2. Ahead' = Ahead + by
    <3>1. /\ Ahead = TotalOf(Waiting) - Adding + Discarding + Pulling
          /\ Ahead' = TotalOf(Waiting) - Adding + Discarding
      BY <1>3, <1>4, <1>5 DEF Ahead
    <3> QED
      BY <1>5, <3>1
  <2>3. q'.total = (q.total + by) % (Width * Width)
    BY <1>2, <2>1
  <2> HIDE DEF by
  <2> QED
    BY <2>1, <2>2, <2>3, CatchingUp DEF TotalsInv
<1> QED
  BY <1>6, <1>7, <1>8 DEF TotalsInv

\* The front is dropped only when its slot is marked, or popped with its slot kept.
LEMMA TakeFrontTotals ==
    ASSUME ThreadsAssumption, IInv, TotalsInv, PopSdu \/ DropFront PROVE TotalsInv'
<1>1. UNCHANGED <<upper, past>> /\ q \in QRecord /\ lower.at # "total" /\ lower'.at # "total"
      /\ lower.at # "release"
  BY DEF PopSdu, DropFront, IInv, TypeOK
<1>2. CASE q.queue = <<>>
  <2>1. q' = q /\ lower'.at # "release"
    BY <1>2 DEF PopSdu, DropFront, Dropped
  <2>2. Held' = Held
    BY <1>1, <2>1 DEF Held
  <2> QED
    BY <1>1, <2>1, <2>2, TotalsKept
<1>3. CASE q.queue # <<>>
  <2> DEFINE n == Head(q.queue)
  <2>1. /\ n \in Range(q.queue) /\ Range(q.queue) = Range(Tail(q.queue)) \cup {n}
    BY <1>1, <1>3, RangeOfTail DEF QRecord, IInv, QueueSound, SlotsMatchQueue
  <2>2. CASE PopSdu
    <3>1. /\ lower'.at = "release" /\ lower'.sdu = n /\ q' = [q EXCEPT !.queue = Tail(@)]
      BY <1>3, <2>2 DEF PopSdu
    <3>2. q'.slot = q.slot /\ q'.size = q.size /\ q'.total = q.total /\ q'.queue = Tail(q.queue)
      BY <1>1, <3>1 DEF QRecord
    <3>3. Held' = Held
      BY <1>1, <2>1, <3>1, <3>2 DEF Held
    <3> QED
      BY <1>1, <3>2, <3>3, TotalsKept
  <2>3. CASE DropFront
    <3>1. /\ lower' = lower /\ q.slot[SlotOf(n)] # n
          /\ q' = [q EXCEPT !.queue = Tail(@), !.slot[SlotOf(n)] = FREE]
      BY <2>3 DEF DropFront, Dropped
    <3>2. /\ q'.slot = [q.slot EXCEPT ![SlotOf(n)] = FREE] /\ q'.size = q.size
          /\ q'.total = q.total /\ q'.queue = Tail(q.queue)
      BY <1>1, <3>1 DEF QRecord
    <3>3. n \in Held /\ Held \ {n} \subseteq Held'
      BY <1>1, <2>1, <3>1, <3>2 DEF Held
    <3>4. Waiting' = Waiting /\ n \notin Waiting
      BY <1>1, <3>1 DEF Waiting, TotalsInv, SizesKept
    <3>5. SizesKept'
      <4> HIDE DEF n
      <4> QED
        BY <1>1, <3>2, <3>3, <3>4, LettingGoKeepsSizes
    <3>6. /\ Adding' = Adding /\ Discarding' = Discarding /\ PushedBytes' = PushedBytes
          /\ Pulling' = Pulling /\ PulledBytes' = PulledBytes
      BY <1>1, <3>1 DEF Adding, Discarding, PushedBytes, Pulling, PulledBytes
    <3>7. WithinLimit'
      BY <3>4, <3>6 DEF TotalsInv, WithinLimit
    <3>8. TotalAhead'
      <4>1. Ahead' = Ahead
        BY <3>4, <3>6 DEF Ahead
      <4> QED
        BY <3>2, <4>1 DEF TotalsInv, TotalAhead
    <3> QED
      BY <3>5, <3>7, <3>8 DEF TotalsInv
  <2> QED
    BY <2>2, <2>3
<1> QED
  BY <1>2, <1>3

LEMMA TotalsNext ==
    ASSUME ThreadsAssumption, IInv, TotalsInv, [Next]_vars PROVE TotalsInv'
<1>1. CASE WriteSdu \/ PushSdu \/ AddSdu \/ SubtractDiscarded \/ \E n \in Sdus : DiscardSdu(n)
  BY <1>1, WriteSduTotals, PushSduTotals, AddSduTotals, DiscardSduTotals
<1>2. CASE ReleaseSlot \/ SubtractPulled \/ PopSdu \/ DropFront
  BY <1>2, ReleaseSlotTotals, SubtractPulledTotals, TakeFrontTotals
<1>3. CASE UNCHANGED vars
  <2>1. Held' = Held
    BY <1>3 DEF vars, Held
  <2> QED
    BY <1>3, <2>1, TotalsKept DEF vars
<1>4. CASE \/ Notify \/ RequestStatus \/ Announce \/ RunTimer \/ ExpireTimer
           \/ \E poll \in BOOLEAN : ReceivePdu(poll)
  <2>1. UNCHANGED <<lower, q>>
    BY <1>4 DEF Notify, RequestStatus, Announce, RunTimer, ExpireTimer, ReceivePdu
  <2>2. /\ upper.at \notin {"add", "subtract", "push"}
        /\ upper'.at \notin {"add", "subtract", "push"}
    BY <1>4 DEF Notify, RequestStatus, Announce, RunTimer, ExpireTimer, ReceivePdu, Idle
  <2>3. past'.next = past.next /\ past'.outcome = past.outcome
    <3>1. CASE Notify
      <4>1. past' = past \/ past' = [past EXCEPT !.refused = @ \cup {"update"}]
        BY <3>1 DEF Notify, Refused
      <4> QED
        BY <4>1, PastUpdates
    <3>2. CASE RequestStatus
      BY <3>2 DEF RequestStatus, IInv, TypeOK, PastRecord
    <3>3. CASE Announce \/ RunTimer \/ ExpireTimer
      BY <3>3 DEF Announce, RunTimer, ExpireTimer
    <3>4. CASE \E poll \in BOOLEAN : ReceivePdu(poll)
      <4>1. past' = [past EXCEPT !.version = @ + 1]
        BY <3>4 DEF ReceivePdu
      <4> QED
        BY <4>1, PastUpdates
    <3> QED
      BY <1>4, <3>1, <3>2, <3>3, <3>4
  <2>4. Held' = Held
    BY <2>1 DEF Held
  <2> QED
    BY <2>1, <2>2, <2>3, <2>4, TotalsKept
<1>5. CASE \/ StartPull \/ StartTimer \/ ProhibitReports \/ TakeReport
           \/ RunUpdate \/ ForceUpdate \/ LoadTotal \/ TellMac
  <2>1. UNCHANGED <<upper, q>>
    BY <1>5 DEF StartPull, StartTimer, ProhibitReports, TakeReport, RunUpdate, ForceUpdate,
                LoadTotal, TellMac
  <2>2. lower.at \notin {"total", "release"} /\ lower'.at \notin {"total", "release"}
    <3>1. CASE StartTimer \/ ProhibitReports
      BY <3>1 DEF StartTimer, ProhibitReports, Lower, IInv, TypeOK
    <3>2. CASE ~StartTimer /\ ~ProhibitReports
      BY <1>5, <3>2 DEF StartPull, TakeReport, RunUpdate, ForceUpdate, LoadTotal, TellMac, Idle
    <3> QED
      BY <3>1, <3>2
  <2>3. past'.next = past.next /\ past'.outcome = past.outcome
    <3>1. CASE StartTimer
      <4>1. past' = past \/ past' = [past EXCEPT !.refused = @ \cup {"timer"}]
        BY <3>1 DEF StartTimer, Refused
      <4> QED
        BY <4>1, PastUpdates
    <3>2. CASE ForceUpdate
      <4>1. past' = [past EXCEPT !.forced = @ + 1]
        BY <3>2 DEF ForceUpdate
      <4> QED
        BY <4>1, PastUpdates
    <3>3. CASE StartPull
      <4>1. past' = past \/ past' = [past EXCEPT !.serving = past.late, !.late = FALSE]
        BY <3>3 DEF StartPull, Serve
      <4> QED
        BY <4>1, PastUpdates
    <3>4. CASE ~StartTimer /\ ~ForceUpdate /\ ~StartPull
      BY <1>5, <3>4 DEF ProhibitReports, TakeReport, RunUpdate, LoadTotal, TellMac
    <3> QED
      BY <3>1, <3>2, <3>3, <3>4
  <2>4. Held' = Held
    BY <2>1, <2>2 DEF Held
  <2> QED
    BY <2>1, <2>2, <2>3, <2>4, TotalsKept
<1> QED
  BY <1>1, <1>2, <1>3, <1>4, <1>5 DEF Next, UpperGoesOn, LowerGoesOn

\* The SDUs waiting have a slot each.
LEMMA AtMostCapacity ==
    ASSUME ThreadsAssumption, IInv, TotalsInv PROVE Cardinality(Waiting) <= Capacity
<1> DEFINE f == [n \in Waiting |-> SlotOf(n)]
<1>1. Waiting \subseteq Sdus /\ Waiting \subseteq Held
  BY QuantitiesType DEF TotalsInv, SizesKept
<1>2. f \in [Waiting -> Slots]
  BY <1>1, SlotOfSdu
<1>3. \A m, n \in Waiting : f[m] = f[n] => m = n
  BY <1>1 DEF IInv, QueueSound, SlotsMatchQueue
<1>4. f \in Injection(Waiting, Slots)
  BY <1>2, <1>3 DEF Injection, IsInjective
<1>5. IsFiniteSet(Slots) /\ Cardinality(Slots) = Capacity
  <2> DEFINE last == Capacity - 1
  <2>1. last \in Nat /\ last - 0 + 1 = Capacity /\ ~(0 > last)
    BY DEF ThreadsAssumption
  <2> HIDE DEF last
  <2>2. /\ IsFiniteSet(0..last)
        /\ Cardinality(0..last) = IF 0 > last THEN 0 ELSE last - 0 + 1
    <3>1. 0 \in Int /\ last \in Int
      BY <2>1
    <3> QED
      BY <3>1, FS_Interval, Zenon
  <2>3. Slots = 0..last
    BY Zenon DEF Slots, last
  <2> QED
    BY <2>1, <2>2, <2>3
<1> HIDE DEF f
<1> QED
  BY <1>4, <1>5, FS_Injection

\* Once what was late has been added or taken off, the totals are those of the
\* SDUs waiting, however the additions and subtractions of the two executors fell
\* and however often the packed total wrapped (rlc_sdu_queue_lockfree.h).
THEOREM TotalsAreExact == Spec => []TotalsExact
<1>1. Init => IInv /\ TotalsInv
  BY InitIInv, TotalsInit, ThreadsAssumption
<1>2. IInv /\ TotalsInv /\ [Next]_vars => IInv' /\ TotalsInv'
  BY NextPreserves, TotalsNext, ThreadsAssumption
<1>3. IInv /\ TotalsInv => TotalsExact
  <2> SUFFICES ASSUME IInv, TotalsInv, upper.at \notin {"add", "subtract"}, lower.at # "total"
               PROVE  q.total = TotalOf(Waiting)
    BY DEF TotalsExact
  <2> DEFINE t == TotalOf(Waiting)
             c == Cardinality(Waiting)
             b == BytesOf(Waiting)
             w == Width
  <2>1. t \in Nat /\ Ahead = t
    BY ThreadsAssumption, QuantitiesType DEF Ahead, Adding, Discarding, Pulling
  <2>2. c \in Nat /\ c < w /\ w \in Nat \ {0}
    <3>1. c <= Capacity /\ Capacity < Width /\ Width \in Nat \ {0} /\ Capacity \in Nat
      BY ThreadsAssumption, AtMostCapacity DEF ThreadsAssumption
    <3>2. c \in Nat
      BY ThreadsAssumption, QuantitiesType, FS_CardinalityType
    <3> HIDE DEF c
    <3> QED
      BY <3>1, <3>2
  <2>3. b \in Nat /\ b < w
    <3>1. b \in Nat /\ PulledBytes \in Nat /\ PushedBytes \in Nat
      BY ThreadsAssumption, QuantitiesType
    <3>2. b + PulledBytes + PushedBytes < ByteLimit /\ ByteLimit < Width /\ ByteLimit \in Nat
          /\ Width \in Nat
      BY ThreadsAssumption DEF TotalsInv, WithinLimit, ThreadsAssumption
    <3> HIDE DEF b
    <3> QED
      BY <3>1, <3>2
  <2>4. b = t - w * c
    BY Zenon DEF BytesOf
  <2> HIDE DEF t, c, b, w
  <2>5. t < w * w
    <3>1. w * c <= w * (w - 1)
      <4>1. c <= w - 1
        BY <2>2
      <4>2. w * ((w - 1) - c) >= 0
        BY <2>2, <4>1
      <4>3. w * ((w - 1) - c) = w * (w - 1) - w * c
        BY <2>2
      <4>4. w * (w - 1) \in Int /\ w * c \in Int
        BY <2>2
      <4> QED
        BY <4>2, <4>3, <4>4
    <3>2. w * (w - 1) = w * w - w
      BY <2>2
    <3> DEFINE p == w * c
               s == w * w
    <3>3. p \in Int /\ s \in Int /\ p <= s - w /\ b = t - p
      BY <2>2, <2>4, <3>1, <3>2
    <3> HIDE DEF p, s
    <3>4. t < s
      BY <2>1, <2>2, <2>3, <3>3
    <3> QED
      BY <3>4 DEF s
  <2>6. w * w \in Nat \ {0}
    BY ThreadsAssumption, WrapType DEF w
  <2>7. \A x, m \in Int : 0 <= x /\ x < m => x % m = x
    OBVIOUS
  <2>8. t % (w * w) = t
    BY <2>1, <2>5, <2>6, <2>7
  <2> QED
    BY <2>1, <2>8 DEF TotalsInv, TotalAhead, t, w
<1> QED
  BY <1>1, <1>2, <1>3, PTL DEF Spec
=============================================================================
