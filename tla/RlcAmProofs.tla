------------------------------ MODULE RlcAmProofs ------------------------------
(***************************************************************************)
(* Proofs about module RlcAm, for SDUs of any lengths, any window, any     *)
(* grants, and any number of PDUs lost, late or out of order.              *)
(***************************************************************************)
EXTENDS RlcAm, FiniteSetTheorems, SequenceTheorems, WellFoundedInduction, TLAPS

--------------------------------------------------------------------------------
(* The inductive invariant.                                                   *)

\* The sequence number of the SDU with i SDUs before it.
SnOf(i) == (start + i) % Mod

\* The lengths of the SDUs that have a sequence number.
Sizes == [k \in 1 .. Len(sent) |-> Length[sent[k]]]

EntryType == [k : Nat, nextSo : Nat, retx : Int]
RetxType == [sn : Sn, so : Nat, len : Nat \ {0}]
TxTyped(t) ==
    /\ t \in [queue : Seq([n : Sdus, discarded : BOOLEAN]), next : Sn,
             nextAck : Sn, pollSn : Sn, pdus : Nat, bytes : Nat,
             window : {t.window}, sus : Sn \cup {None}, retx : Seq(RetxType),
             retxSn : Sn \cup {None}, pollTimer : BOOLEAN, halted : BOOLEAN]
    /\ t.window \in [DOMAIN t.window -> EntryType]

\* How much of the k-th SDU was sent at least once.
Begun(t, size) ==
    [k \in 1 .. Len(size) |-> IF t.sus # None /\ k = Len(size)
                              THEN t.window[t.sus].nextSo ELSE size[k]]

\* A transmitting entity whose window begins after the first a SDUs.
TxOk(t, a, size) ==
    /\ TxTyped(t)
    /\ a \in Nat /\ a <= Len(size) /\ Len(size) <= a + Window
    /\ t.nextAck = SnOf(a)
    /\ t.next = SnOf(IF t.sus = None THEN Len(size) ELSE Len(size) - 1)
    /\ DOMAIN t.window = { SnOf(i) : i \in a .. Len(size) - 1 }
    /\ \A i \in a .. Len(size) - 1 : t.window[SnOf(i)].k = i + 1
    /\ t.sus # None =>
          /\ a < Len(size) /\ t.sus = SnOf(Len(size) - 1)
          /\ t.window[t.sus].nextSo \in 1 .. size[Len(size)] - 1
    /\ \A j \in DOMAIN t.retx :
          \E i \in a .. Len(size) - 1 :
             /\ t.retx[j].sn = SnOf(i)
             /\ t.retx[j].so + t.retx[j].len <= Begun(t, size)[i + 1]

PduOk(pdu, size, begun) ==
    /\ pdu \in [sn : Sn, k : 1 .. Len(size), so : Nat, len : Nat \ {0},
                poll : BOOLEAN]
    /\ pdu.sn = SnOf(pdu.k - 1)
    /\ pdu.so + pdu.len <= begun[pdu.k]

InfoType == [bytes : SUBSET Nat, last : BOOLEAN, from : SUBSET Nat]

InfoOk(info, k, size, begun) ==
    /\ info.bytes # {} /\ info.bytes \subseteq 0 .. begun[k] - 1
    /\ info.last <=> size[k] - 1 \in info.bytes
    /\ info.from = {k}

RxTyped(r) ==
    /\ r \in [next : Sn, nextHighest : Sn, highestStatus : Sn, trigger : Sn,
             window : {r.window}, reassembly : BOOLEAN, doStatus : BOOLEAN,
             prohibit : BOOLEAN]
    /\ r.window \in [DOMAIN r.window -> InfoType]

\* The window of a receiving entity that has delivered the first n SDUs without
\* a gap, with high before RX_Next_Highest.
RxWindow(r, n, high, size, begun) ==
    /\ RxTyped(r)
    /\ n \in Nat /\ high \in Nat
    /\ n <= high /\ high <= Len(size) /\ high <= n + Window
    /\ r.next = SnOf(n) /\ r.nextHighest = SnOf(high)
    /\ DOMAIN r.window \subseteq { SnOf(i) : i \in n .. high - 1 }
    /\ \A i \in n .. high - 1 :
          HasSn(r.window, SnOf(i)) => InfoOk(r.window[SnOf(i)], i + 1, size, begun)
    /\ high > n => HasSn(r.window, SnOf(high - 1))

\* h SDUs are before RX_Highest_Status.
StatusEdge(r, n, h, high) ==
    /\ h \in Nat /\ n <= h /\ h <= high
    /\ r.highestStatus = SnOf(h)
    /\ h = high \/ ~Complete(r.window, SnOf(h))

\* t-Reassembly waits for an SDU after one that was received in part.
Triggered(r, n, high) ==
    r.reassembly => \E i \in n + 1 .. high :
                       r.trigger = SnOf(i) /\ HasSn(r.window, SnOf(i - 1))

RxOk(r, n, h, high, size, begun) ==
    /\ RxWindow(r, n, high, size, begun)
    /\ ~Complete(r.window, SnOf(n))
    /\ StatusEdge(r, n, h, high)
    /\ Triggered(r, n, high)

\* What was delivered once: the first n SDUs and the complete ones in the window.
Deliveries(window, n) ==
    [k \in Sdus |-> IF k <= n \/ (k <= n + Window /\ Complete(window, SnOf(k - 1)))
                    THEN 1 ELSE 0]

NackType == [sn : Sn, range : Nat \ {0}, from : Nat, to : Nat]

\* A nack of the SDUs i + 1 to i + range asks for no byte that was never sent.
NackOk(nack, i, size, begun) ==
    LET l == i + nack.range IN
    /\ nack.sn = SnOf(i)
    /\ l <= Len(size) /\ nack.from < size[i + 1]
    /\ nack.to = EndOfSdu /\ (nack.from = 0 \/ nack.range > 1) => l < Len(size)
    /\ nack.to # EndOfSdu =>
          nack.to < begun[l] /\ (nack.range = 1 => nack.from <= nack.to)

\* A report by a receiver that had delivered the first f SDUs, up to some more.
ReportOk(report, f, upto, size, begun) ==
    /\ report \in [ack : Sn, nacks : Seq(NackType)]
    /\ report.ack = SnOf(upto)
    /\ upto \in Nat /\ f <= upto /\ upto <= f + Window /\ upto <= Len(size)
    /\ report.nacks = <<>> => f = upto
    /\ report.nacks # <<>> => report.nacks[1].sn = SnOf(f)
    /\ \A j \in DOMAIN report.nacks :
          \E i \in f .. upto - 1 : NackOk(report.nacks[j], i, size, begun)
    /\ \A j \in 1 .. Len(report.nacks) - 1 :
          Above(SnOf(f), report.nacks[j].sn) + report.nacks[j].range - 1
             <= Above(SnOf(f), report.nacks[j + 1].sn)

Small == 0 .. Len(Length) + Window   \* the numbers that count SDUs

\* The transmitter has dropped the first a SDUs, the receiver delivered the first n.
InvAt(a, n) ==
    LET size == Sizes
        begun == Begun(tx, size)
    IN
    /\ start \in Sn /\ sent \in Seq(Sdus) /\ submitted \in 0 .. Len(Length)
    /\ Len(sent) + Len(tx.queue) <= submitted
    /\ confirmed = 1 .. a /\ Settled = 1 .. n /\ a <= n
    /\ TxOk(tx, a, size)
    /\ tx.sus # None => n < Len(sent)   \* an SDU sent in part is not delivered
    /\ \E h \in Small, high \in Small : RxOk(rx, n, h, high, size, begun)
    /\ received = Deliveries(rx.window, n)
    /\ \A pdu \in BagToSet(data) : PduOk(pdu, size, begun)
    /\ \A r \in BagToSet(reports) :
          \E f \in 0 .. n : ReportOk(r.report, f, r.upto, size, begun)
    /\ "protocol_failure" \notin alarms

IInv == InvAt(Cardinality(confirmed), Cardinality(Settled))

--------------------------------------------------------------------------------
(* Sequence numbers.                                                          *)

\* A nonzero multiple of m is m away from zero at least.
LEMMA Multiple == ASSUME NEW k \in Int, NEW m \in Nat \ {0}, k # 0 PROVE k * m >= m \/ k * m <= -m
<1>1. CASE k >= 1
  <2>1. (k - 1) * m >= 0
    BY <1>1
  <2>2. k * m = (k - 1) * m + m
    OBVIOUS
  <2> QED BY <2>1, <2>2
<1>2. CASE k <= -1
  <2>1. (-1 - k) * m >= 0
    BY <1>2
  <2>2. k * m = -((-1 - k) * m) - m
    OBVIOUS
  <2> QED BY <2>1, <2>2
<1> QED BY <1>1, <1>2

\* Quotient and remainder, for negative numbers too.
LEMMA Division == ASSUME NEW x \in Int, NEW m \in Nat \ {0}
   PROVE x % m \in 0..m-1 /\ x \div m \in Int /\ x = m * (x \div m) + (x % m)
<1>1. x % m \in Int /\ x % m >= 0 /\ x % m < m
  OBVIOUS
<1>2. x \div m \in Int
  OBVIOUS
<1>3. x = m * (x \div m) + (x % m)
  OBVIOUS
<1> QED BY <1>1, <1>2, <1>3

\* A multiple of m more or less has the same remainder.
LEMMA Remainder == ASSUME NEW k \in Int, NEW m \in Nat \ {0}, NEW r \in 0..m-1
   PROVE (k * m + r) % m = r
<1> DEFINE x == k * m + r
           d == x \div m
           e == x % m
<1>0. x \in Int
  OBVIOUS
<1>1. e \in 0..m-1 /\ d \in Int /\ x = m * d + e
  BY <1>0, Division
<1>2. x = k * m + r
  OBVIOUS
<1> HIDE DEF x, d, e
<1>3. (k - d) * m = e - r
  <2>1. (k - d) * m = k * m - m * d
    BY <1>1
  <2> QED BY <1>1, <1>2, <2>1
<1>4. CASE k - d # 0
  BY <1>1, <1>3, <1>4, Multiple
<1>5. CASE k - d = 0
  BY <1>1, <1>3, <1>5
<1> QED BY <1>4, <1>5 DEF e, x

\* Adding before the remainder is taken or after it is the same.
LEMMA RemainderOfSum == ASSUME NEW a \in Int, NEW b \in Int, NEW m \in Nat \ {0}
   PROVE ((a % m) + b) % m = (a + b) % m
<1> DEFINE d == a \div m
           e == (a + b) \div m
           r == (a + b) % m
<1>0. a + b \in Int
  OBVIOUS
<1>1. a % m \in 0..m-1 /\ d \in Int /\ a = m * d + (a % m)
  BY Division
<1>2. r \in 0..m-1 /\ e \in Int /\ a + b = m * e + r
  BY <1>0, Division
<1> HIDE DEF d, e, r
<1>3. (a % m) + b = (e - d) * m + r
  <2>1. (e - d) * m = m * e - m * d
    BY <1>1, <1>2
  <2> DEFINE u == m * e
             v == m * d
             w == (e - d) * m
             c == a % m
  <2>2. u \in Int /\ v \in Int /\ w \in Int /\ c \in Int
    BY <1>1, <1>2
  <2>3. w = u - v /\ a = v + c /\ a + b = u + r /\ r \in Int
    BY <1>1, <1>2, <2>1
  <2> HIDE DEF u, v, w, c
  <2>4. c + b = w + r
    BY <2>2, <2>3
  <2> QED BY <2>4 DEF w, c
<1>4. e - d \in Int
  BY <1>1, <1>2
<1>5. ((e - d) * m + r) % m = r
  BY <1>2, <1>4, Remainder
<1> QED BY <1>3, <1>5 DEF r

\* And so for subtracting.
LEMMA RemainderOfDifference == ASSUME NEW a \in Int, NEW b \in Int, NEW m \in Nat \ {0}
   PROVE (a - (b % m)) % m = (a - b) % m
<1> DEFINE e == b % m
           d == b \div m
           f == (a - b) % m
           g == (a - b) \div m
           u == m * d
           v == m * g
           w == (g + d) * m
<1>1. e \in 0..m-1 /\ d \in Int /\ b = u + e
  BY Division
<1>2. a - b \in Int
  OBVIOUS
<1>3. f \in 0..m-1 /\ g \in Int /\ a - b = v + f
  BY <1>2, Division
<1> HIDE DEF e, d, f, g
<1>4. u \in Int /\ v \in Int /\ w \in Int /\ w = v + u
  BY <1>1, <1>3
<1>5. (w + f) % m = f
  <2>1. g + d \in Int
    BY <1>1, <1>3
  <2> QED BY <1>3, <2>1, Remainder DEF w
<1> HIDE DEF u, v, w
<1>6. a - e = w + f
  BY <1>1, <1>3, <1>4
<1> QED BY <1>5, <1>6 DEF e, f

\* The sequence numbers are two windows.
LEMMA ModIs ==
   /\ Window \in Nat /\ Window >= 2
   /\ Mod \in Nat \ {0} /\ Mod = Window + Window /\ Window < Mod
BY WindowAssumption DEF Mod

LEMMA SnOfType == ASSUME start \in Sn, NEW i \in Int PROVE SnOf(i) \in Sn
<1>1. Mod \in Nat \ {0} /\ start + i \in Int
  BY ModIs DEF Sn
<1> QED BY <1>1, Division DEF SnOf, Sn

\* Adding to a sequence number is going on by as many SDUs.
LEMMA SnOfSum == ASSUME start \in Sn, NEW i \in Int, NEW d \in Int
   PROVE (SnOf(i) + d) % Mod = SnOf(i + d)
<1>1. Mod \in Nat \ {0} /\ start + i \in Int /\ (start + i) + d = start + (i + d)
  BY ModIs DEF Sn
<1> QED BY <1>1, RemainderOfSum DEF SnOf

\* The distance of two sequence numbers, of which the second may not be reduced.
LEMMA AboveIs ==
   ASSUME start \in Sn, NEW i \in Int, NEW j \in Int, NEW e \in Int,
          NEW c \in Int, NEW d \in 0..Mod-1, j + e - i = c * Mod + d
   PROVE  Above(SnOf(i), SnOf(j) + e) = d
<1> DEFINE x == start + i
           y == start + j
<1>1. Mod \in Nat \ {0} /\ x \in Int /\ y \in Int
  BY ModIs DEF Sn
<1>2. x % Mod \in Int /\ y % Mod \in Int
  BY <1>1, Division
<1>3. (((y % Mod) + e) - (x % Mod)) % Mod = (((y % Mod) + e) - x) % Mod
  <2>1. (y % Mod) + e \in Int
    BY <1>2
  <2> HIDE DEF x, y
  <2> QED BY <1>1, <1>2, <2>1, RemainderOfDifference
<1>4. (((y % Mod) + e) - x) % Mod = (y + (e - x)) % Mod
  <2>1. e - x \in Int /\ ((y % Mod) + e) - x = (y % Mod) + (e - x)
    BY <1>1, <1>2
  <2>2. ((y % Mod) + (e - x)) % Mod = (y + (e - x)) % Mod
    <3> HIDE DEF x, y
    <3> QED BY <1>1, <2>1, RemainderOfSum
  <2> QED BY <2>1, <2>2
<1>5. y + (e - x) = c * Mod + d
  <2>1. y + (e - x) = j + e - i
    BY <1>1 DEF Sn
  <2> QED BY <2>1
<1>6. (c * Mod + d) % Mod = d
  BY <1>1, Remainder
<1> QED BY <1>3, <1>4, <1>5, <1>6 DEF Above, SnOf

\* Within half of the numbers, distances of sequence numbers are those of SDUs.
LEMMA AboveUp ==
   ASSUME start \in Sn, NEW i \in Int, NEW j \in Int, i <= j, j < i + Mod
   PROVE  Above(SnOf(i), SnOf(j)) = j - i
<1>1. j - i \in 0..Mod-1 /\ j + 0 - i = 0 * Mod + (j - i) /\ 0 \in Int
  BY ModIs
<1>2. Above(SnOf(i), SnOf(j) + 0) = j - i
  BY <1>1, AboveIs
<1>3. SnOf(j) + 0 = SnOf(j)
  BY SnOfType DEF Sn
<1> QED BY <1>2, <1>3

\* An SDU before the edge is seen as one far above it.
LEMMA AboveDown ==
   ASSUME start \in Sn, NEW i \in Int, NEW j \in Int, j < i, i <= j + Mod
   PROVE  Above(SnOf(i), SnOf(j)) = (j - i) + Mod
<1>1. /\ (j - i) + Mod \in 0..Mod-1 /\ 0 \in Int /\ -1 \in Int
      /\ j + 0 - i = (-1) * Mod + ((j - i) + Mod)
  BY ModIs
<1>2. Above(SnOf(i), SnOf(j) + 0) = (j - i) + Mod
  BY <1>1, AboveIs
<1>3. SnOf(j) + 0 = SnOf(j)
  BY SnOfType DEF Sn
<1> QED BY <1>2, <1>3

LEMMA AboveNext ==
   ASSUME start \in Sn, NEW i \in Int, NEW j \in Int, i <= j + 1, j + 1 < i + Mod
   PROVE  Above(SnOf(i), SnOf(j) + 1) = (j + 1) - i
<1>1. (j + 1) - i \in 0..Mod-1 /\ j + 1 - i = 0 * Mod + ((j + 1) - i) /\ 0 \in Int /\ 1 \in Int
  BY ModIs
<1> QED BY <1>1, AboveIs

LEMMA AboveType == ASSUME start \in Sn, NEW i \in Int, NEW sn \in Sn
   PROVE Above(SnOf(i), sn) \in 0..Mod-1
<1>1. Mod \in Nat \ {0} /\ sn - SnOf(i) \in Int
  BY ModIs, SnOfType DEF Sn
<1> QED BY <1>1, Division DEF Above

\* SDUs less than Mod apart have different sequence numbers.
LEMMA SnOfInjective ==
   ASSUME start \in Sn, NEW i \in Int, NEW j \in Int, SnOf(i) = SnOf(j),
          i < j + Mod, j < i + Mod
   PROVE  i = j
<1>1. Above(SnOf(i), SnOf(i)) = 0 /\ Above(SnOf(j), SnOf(j)) = 0
  BY AboveUp, ModIs
<1>2. CASE i <= j
  BY <1>1, <1>2, AboveUp
<1>3. CASE j <= i
  BY <1>1, <1>3, AboveUp
<1> QED BY <1>2, <1>3

\* Every sequence number is that of one of the Mod indices from any one on.
LEMMA SnIsOf ==
   ASSUME start \in Sn, NEW i \in Int, NEW sn \in Sn
   PROVE  sn = SnOf(i + Above(SnOf(i), sn))
<1> DEFINE a == SnOf(i)
<1>1. Mod \in Nat \ {0} /\ a \in Int /\ sn \in Int /\ sn - a \in Int
  BY ModIs, SnOfType DEF Sn
<1>2. Above(a, sn) \in Int
  BY AboveType
<1>3. (a + Above(a, sn)) % Mod = SnOf(i + Above(a, sn))
  BY <1>2, SnOfSum
<1>4. (((sn - a) % Mod) + a) % Mod = ((sn - a) + a) % Mod
  <2> HIDE DEF a
  <2> QED BY <1>1, RemainderOfSum
<1>5. (sn - a) + a = sn /\ ((sn - a) % Mod) + a = a + ((sn - a) % Mod)
  <2>1. (sn - a) % Mod \in Int
    BY <1>1, Division
  <2> HIDE DEF a
  <2> QED BY <1>1, <2>1
<1>6. sn % Mod = sn
  <2>1. sn \in 0..Mod-1 /\ sn = 0 * Mod + sn /\ 0 \in Int
    BY <1>1 DEF Sn
  <2> QED BY <1>1, <2>1, Remainder
<1> QED BY <1>3, <1>4, <1>5, <1>6 DEF Above

\* The sequence numbers between two edges.
LEMMA BetweenIs ==
   ASSUME start \in Sn, NEW i \in Int, NEW j \in Int, i <= j, j < i + Mod
   PROVE  Between(SnOf(i), SnOf(j)) = { SnOf(x) : x \in i .. j - 1 }
<1>1. Above(SnOf(i), SnOf(j)) = j - i
  BY AboveUp
<1>2. ASSUME NEW sn \in Sn, Above(SnOf(i), sn) < j - i
      PROVE  sn \in { SnOf(x) : x \in i .. j - 1 }
  <2>1. Above(SnOf(i), sn) \in 0..Mod-1
    BY AboveType
  <2>2. i + Above(SnOf(i), sn) \in i .. j - 1
    BY <1>2, <2>1, ModIs
  <2> QED BY <2>2, SnIsOf
<1>3. ASSUME NEW x \in i .. j - 1
      PROVE  SnOf(x) \in Sn /\ Above(SnOf(i), SnOf(x)) < j - i
  <2>1. Above(SnOf(i), SnOf(x)) = x - i
    BY AboveUp, ModIs
  <2> QED BY <2>1, SnOfType
<1> QED BY <1>1, <1>2, <1>3 DEF Between

\* There are as many of them as SDUs: the window's size is the distance of its edges.
LEMMA CountOfSns ==
   ASSUME start \in Sn, NEW i \in Int, NEW j \in Int, i <= j, j <= i + Mod
   PROVE  /\ IsFiniteSet({ SnOf(x) : x \in i .. j - 1 })
          /\ Cardinality({ SnOf(x) : x \in i .. j - 1 }) = j - i
<1> DEFINE T == { SnOf(x) : x \in i .. j - 1 }
           f == [x \in i .. j - 1 |-> SnOf(x)]
<1>1. IsFiniteSet(i .. j - 1) /\ Cardinality(i .. j - 1) = j - i
  <2>1. j - 1 \in Int
    OBVIOUS
  <2>2. IsFiniteSet(i .. j - 1) /\ Cardinality(i .. j - 1) = IF i > j - 1 THEN 0 ELSE (j - 1) - i + 1
    BY <2>1, FS_Interval, Zenon
  <2> QED BY <2>2
<1>2. f \in Bijection(i .. j - 1, T)
  <2>1. f \in [i .. j - 1 -> T]
    OBVIOUS
  <2>2. ASSUME NEW x \in i .. j - 1, NEW y \in i .. j - 1, f[x] = f[y] PROVE x = y
    BY <2>2, SnOfInjective, ModIs
  <2>3. \A t \in T : \E x \in i .. j - 1 : f[x] = t
    OBVIOUS
  <2> QED BY <2>1, <2>2, <2>3 DEF Bijection, Injection, Surjection, IsInjective
<1> HIDE DEF T, f
<1>3. ExistsBijection(i .. j - 1, T)
  BY <1>2 DEF ExistsBijection
<1> QED BY <1>1, <1>3, FS_Bijection DEF T

--------------------------------------------------------------------------------
(* Sets of natural numbers.                                                   *)

\* Induction over the natural numbers.
LEMMA CountUp ==
  ASSUME NEW S, 0 \in S, \A n \in S \cap Nat : n + 1 \in S
  PROVE  Nat \subseteq S
<1> SUFFICES ASSUME Nat \ S # {} PROVE FALSE
  OBVIOUS
<1>1. PICK n \in Nat \ S : \A m \in Nat \ S : ~(<<m, n>> \in OpToRel(<, Nat))
  BY NatLessThanWellFounded, WFMin, Zenon
<1>2. n # 0 /\ n - 1 \in Nat /\ n - 1 < n /\ (n - 1) + 1 = n
  OBVIOUS
<1>3. CASE n - 1 \in S
  BY <1>2, <1>3
<1>4. CASE n - 1 \notin S
  <2>1. <<n - 1, n>> \in OpToRel(<, Nat)
    BY <1>2 DEF OpToRel
  <2> QED  BY <1>1, <1>2, <1>4, <2>1
<1> QED  BY <1>3, <1>4

\* The least number of a set of natural numbers, which Min chooses.
LEMMA MinIs ==
  ASSUME NEW S \in SUBSET Nat, S # {}
  PROVE  Min(S) \in S /\ \A x \in S : Min(S) <= x
<1>1. PICK n \in S : \A m \in S : ~(<<m, n>> \in OpToRel(<, Nat))
  BY NatLessThanWellFounded, WFMin, Zenon
<1>2. \A m \in S : n <= m
  <2> SUFFICES ASSUME NEW m \in S PROVE n <= m
    OBVIOUS
  <2>1. m \in Nat /\ n \in Nat /\ ~(m < n)
    BY <1>1 DEF OpToRel
  <2> QED BY <2>1
<1> QED BY <1>2, Zenon DEF Min

LEMMA MinOfTwo ==
  ASSUME NEW a \in Nat, NEW b \in Nat
  PROVE  Min({a, b}) = IF a <= b THEN a ELSE b
<1>1. {a, b} \in SUBSET Nat /\ {a, b} # {}
  OBVIOUS
<1>2. Min({a, b}) \in {a, b} /\ \A x \in {a, b} : Min({a, b}) <= x
  BY <1>1, MinIs
<1> QED BY <1>2

\* The greatest number of a bounded set.
LEMMA MaxIs ==
  ASSUME NEW S \in SUBSET Nat, S # {}, NEW m \in Nat, \A x \in S : x <= m
  PROVE  Max(S) \in S /\ \A x \in S : x <= Max(S)
<1> DEFINE T == { m - x : x \in S }
<1>0. \A x \in S : x \in Nat /\ x <= m /\ m - x \in Nat
  OBVIOUS
<1>1. T \in SUBSET Nat /\ T # {}
  BY <1>0
<1>2. Min(T) \in T /\ \A y \in T : Min(T) <= y
  BY <1>1, MinIs
<1>3. PICK x \in S : Min(T) = m - x
  BY <1>2
<1>4. \A y \in S : y <= x
  <2> SUFFICES ASSUME NEW y \in S PROVE y <= x
    OBVIOUS
  <2>1. m - y \in T
    OBVIOUS
  <2>2. Min(T) <= m - y
    BY <1>2, <2>1
  <2> HIDE DEF T
  <2> QED BY <1>0, <1>3, <2>2
<1> QED BY <1>4, Zenon DEF Max

\* A finite set of naturals has a bound.
LEMMA Bounded ==
  ASSUME NEW S \in SUBSET Nat, IsFiniteSet(S)
  PROVE  \E m \in Nat : \A x \in S : x <= m
<1> DEFINE P == { n \in Nat : \A T \in SUBSET Nat :
                    IsFiniteSet(T) /\ Cardinality(T) = n =>
                       \E m \in Nat : \A x \in T : x <= m }
<1>1. 0 \in P
  BY FS_EmptySet
<1>2. ASSUME NEW n \in P PROVE n + 1 \in P
  <2> SUFFICES ASSUME NEW T \in SUBSET Nat, IsFiniteSet(T), Cardinality(T) = n + 1
               PROVE  \E m \in Nat : \A x \in T : x <= m
    OBVIOUS
  <2>1. T # {}
    BY FS_EmptySet
  <2>2. PICK t \in T : TRUE
    BY <2>1
  <2>3. IsFiniteSet(T \ {t}) /\ Cardinality(T \ {t}) = n
    <3>1. Cardinality(T \ {t}) = Cardinality(T) - 1
      BY <2>2, FS_RemoveElement, Zenon
    <3>2. IsFiniteSet(T \ {t})
      BY FS_RemoveElement, Zenon
    <3> QED BY <3>1, <3>2
  <2>4. PICK m \in Nat : \A x \in T \ {t} : x <= m
    BY <2>3
  <2>5. t \in Nat /\ m + t \in Nat
    BY <2>2
  <2>6. \A x \in T : x <= m + t
    <3> SUFFICES ASSUME NEW x \in T PROVE x <= m + t
      OBVIOUS
    <3>1. x = t \/ x <= m
      BY <2>4
    <3> QED BY <2>5, <3>1
  <2> QED BY <2>5, <2>6
<1> HIDE DEF P
<1>3. Nat \subseteq P
  BY <1>1, <1>2, CountUp
<1>4. Cardinality(S) \in P
  BY <1>3, FS_CardinalityType
<1> QED BY <1>4 DEF P

\* The greatest number of a finite set.
LEMMA MaxOfFinite ==
  ASSUME NEW S \in SUBSET Nat, S # {}, IsFiniteSet(S)
  PROVE  Max(S) \in S /\ \A x \in S : x <= Max(S)
<1>1. PICK m \in Nat : \A x \in S : x <= m
  BY Bounded
<1> QED BY <1>1, MaxIs

\* A finite set of naturals without a gap.
LEMMA NoGaps ==
  ASSUME NEW S \in SUBSET Nat, IsFiniteSet(S), \A x \in S : x = 0 \/ x - 1 \in S
  PROVE  S = 0 .. Cardinality(S) - 1
<1>1. CASE S = {}
  <2>1. Cardinality(S) = 0
    BY <1>1, FS_EmptySet
  <2> QED BY <1>1, <2>1
<1>2. CASE S # {}
  <2> DEFINE m == Max(S)
  <2>1. m \in S /\ \A x \in S : x <= m
    BY <1>2, MaxOfFinite
  <2>0. m \in Nat
    BY <2>1
  <2> HIDE DEF m
  <2>2. ASSUME NEW x \in 0..m PROVE x \in S
    <3> DEFINE P == { n \in Nat : n <= m => m - n \in S }
    <3>1. 0 \in P
      BY <2>0, <2>1
    <3>2. ASSUME NEW n \in P PROVE n + 1 \in P
      <4> SUFFICES ASSUME n + 1 <= m PROVE m - (n + 1) \in S
        OBVIOUS
      <4>1. m - n \in S /\ m - n # 0 /\ (m - n) - 1 = m - (n + 1)
        BY <2>0, <2>1
      <4> QED BY <4>1
    <3> HIDE DEF P
    <3>3. Nat \subseteq P
      BY <3>1, <3>2, CountUp
    <3>4. m - x \in Nat /\ m - x <= m /\ m - (m - x) = x
      BY <2>0
    <3> QED BY <3>3, <3>4 DEF P
  <2>3. S = 0..m
    <3>1. \A x \in S : x \in 0..m
      BY <2>0, <2>1
    <3> QED BY <2>2, <3>1
  <2>5. Cardinality(0..m) = m + 1
    <3>1. 0 \in Int /\ m \in Int
      BY <2>0
    <3>2. Cardinality(0..m) = IF 0 > m THEN 0 ELSE m - 0 + 1
      BY <3>1, FS_Interval, Zenon
    <3> QED BY <2>0, <3>2
  <2> QED BY <2>0, <2>3, <2>5
<1> QED BY <1>1, <1>2

\* The elements of a finite set of naturals can be counted from below.
LEMMA Ranked ==
  ASSUME NEW S \in SUBSET Nat, IsFiniteSet(S), NEW i \in 1 .. Cardinality(S)
  PROVE  \E b \in S : Cardinality({ a \in S : a < b }) = i - 1
<1> DEFINE P == { n \in Nat : \A T \in SUBSET Nat :
                    IsFiniteSet(T) /\ Cardinality(T) = n =>
                       \A k \in 1..n :
                          \E b \in T : Cardinality({ a \in T : a < b }) = k - 1 }
<1>1. 0 \in P
  OBVIOUS
<1>2. ASSUME NEW n \in P PROVE n + 1 \in P
  <2> SUFFICES ASSUME NEW T \in SUBSET Nat, IsFiniteSet(T), Cardinality(T) = n + 1,
                      NEW k \in 1 .. n + 1
               PROVE  \E b \in T : Cardinality({ a \in T : a < b }) = k - 1
    OBVIOUS
  <2> DEFINE m == Max(T)
  <2>1. m \in T /\ \A x \in T : x <= m
    <3>1. T # {}
      BY FS_EmptySet
    <3> QED BY <3>1, MaxOfFinite
  <2> HIDE DEF m
  <2>2. IsFiniteSet(T \ {m}) /\ Cardinality(T \ {m}) = n /\ T \ {m} \in SUBSET Nat
    <3>1. Cardinality(T \ {m}) = Cardinality(T) - 1
      BY <2>1, FS_RemoveElement, Zenon
    <3>2. IsFiniteSet(T \ {m})
      BY FS_RemoveElement, Zenon
    <3>3. T \ {m} \in SUBSET Nat
      BY Zenon
    <3> QED BY <3>1, <3>2, <3>3
  <2>3. CASE k = n + 1
    <3>0. \A a \in T : a < m <=> a # m
      <4> SUFFICES ASSUME NEW a \in T PROVE a < m <=> a # m
        OBVIOUS
      <4>1. a \in Nat /\ m \in Nat /\ a <= m
        BY <2>1
      <4> QED BY <4>1
    <3>1. { a \in T : a < m } = T \ {m}
      BY <2>1, <3>0, Zenon
    <3>2. Cardinality({ a \in T : a < m }) = k - 1
      BY <2>2, <2>3, <3>1
    <3> QED BY <2>1, <3>2
  <2>4. CASE k \in 1..n
    <3>1. PICK b \in T \ {m} : Cardinality({ a \in T \ {m} : a < b }) = k - 1
      BY <2>2, <2>4
    <3>2. { a \in T \ {m} : a < b } = { a \in T : a < b }
      BY <2>1
    <3> QED BY <3>1, <3>2
  <2> QED BY <2>3, <2>4
<1> HIDE DEF P
<1>3. Nat \subseteq P
  BY <1>1, <1>2, CountUp
<1>4. Cardinality(S) \in P
  BY <1>3, FS_CardinalityType
<1> QED BY <1>4 DEF P

--------------------------------------------------------------------------------
(* Sequences and folds.                                                       *)

\* A part of a sequence.
LEMMA SubSeqIs ==
  ASSUME NEW T, NEW q \in Seq(T), NEW a \in Nat, NEW b \in Nat,
         1 <= a, a <= b + 1, b <= Len(q)
  PROVE  /\ SubSeq(q, a, b) \in Seq(T)
         /\ Len(SubSeq(q, a, b)) = b - a + 1
         /\ \A i \in 1 .. b - a + 1 : SubSeq(q, a, b)[i] = q[a + i - 1]
<1>1. a \in Int /\ b \in Int /\ \A i \in a..b : q[i] \in T
  OBVIOUS
<1>2. /\ SubSeq(q, a, b) \in Seq(T)
      /\ Len(SubSeq(q, a, b)) = IF a <= b THEN b - a + 1 ELSE 0
      /\ \A i \in 1 .. b - a + 1 : SubSeq(q, a, b)[i] = q[a + i - 1]
  <2>1. SubSeq(q, a, b) \in Seq(T)
    BY <1>1, SubSeqProperties
  <2>2. Len(SubSeq(q, a, b)) = IF a <= b THEN b - a + 1 ELSE 0
    BY <1>1, SubSeqProperties
  <2>3. \A i \in 1 .. b - a + 1 : SubSeq(q, a, b)[i] = q[a + i - 1]
    BY <1>1, SubSeqProperties
  <2> QED BY <2>1, <2>2, <2>3
<1> DEFINE f == SubSeq(q, a, b)
<1> HIDE DEF f
<1>3. (IF a <= b THEN b - a + 1 ELSE 0) = b - a + 1
  OBVIOUS
<1> QED BY <1>2, <1>3

Sorted(q, key) == \A x \in 1 .. Len(q), y \in 1 .. Len(q) : x < y => key[q[x]] <= key[q[y]]

Flattens(P, g) ==
    g = [i \in 1 .. Len(P) |-> IF i = 1 THEN P[i] ELSE g[i - 1] \o P[i]]

\* FlattenSeq without its local definition.
LEMMA FlattenIs ==
  ASSUME NEW P
  PROVE  FlattenSeq(P) = IF Len(P) = 0 THEN P
                         ELSE (CHOOSE g : Flattens(P, g))[Len(P)]
BY Zenon DEF FlattenSeq, Flattens

\* The function FlattenSeq chooses, step by step.
LEMMA FlattenSteps ==
  ASSUME NEW T, NEW P \in Seq(Seq(T)), Len(P) # 0
  PROVE  \E g : /\ FlattenSeq(P) = g[Len(P)]
                /\ g[1] = P[1]
                /\ \A i \in 1 .. Len(P) - 1 : g[i + 1] = g[i] \o P[i + 1]
<1> DEFINE l == Len(P)
           Steps(g, n) == /\ DOMAIN g = 1..n
                          /\ \A i \in 1..n : g[i] = IF i = 1 THEN P[i] ELSE g[i - 1] \o P[i]
           Q == { n \in Nat : \E g : Steps(g, n) }
<1>0. l \in Nat /\ l >= 1
  OBVIOUS
<1>1. 0 \in Q
  <2>1. Steps([i \in 1..0 |-> 0], 0)
    OBVIOUS
  <2> QED BY <2>1
<1>2. ASSUME NEW n \in Q PROVE n + 1 \in Q
  <2>1. PICK g : Steps(g, n)
    OBVIOUS
  <2> DEFINE g2 == [i \in 1 .. n + 1 |-> IF i = 1 THEN P[i]
                                         ELSE IF i = n + 1 THEN g[n] \o P[i] ELSE g[i]]
  <2>5. ASSUME NEW j \in 1..n PROVE g2[j] = g[j]
    <3>1. j \in 1 .. n + 1 /\ j # n + 1
      OBVIOUS
    <3>2. j = 1 => g[j] = P[j]
      BY <2>1
    <3> QED BY <3>1, <3>2
  <2>2. ASSUME NEW i \in 1 .. n + 1 PROVE g2[i] = IF i = 1 THEN P[i] ELSE g2[i - 1] \o P[i]
    <3>1. CASE i = 1
      BY <3>1
    <3>2. CASE i # 1 /\ i = n + 1
      <4>1. i - 1 \in 1..n /\ i - 1 = n
        BY <3>2
      <4>2. g2[i - 1] = g[n]
        BY <2>5, <4>1
      <4> QED BY <3>2, <4>2
    <3>3. CASE i # 1 /\ i # n + 1
      <4>1. i - 1 \in 1..n /\ i \in 1..n /\ i - 1 # n + 1
        BY <3>3
      <4>2. g2[i - 1] = g[i - 1] /\ g2[i] = g[i]
        BY <2>5, <4>1
      <4> QED BY <2>1, <3>3, <4>1, <4>2
    <3> QED BY <3>1, <3>2, <3>3
  <2>3. DOMAIN g2 = 1 .. n + 1
    OBVIOUS
  <2> HIDE DEF g2
  <2>4. Steps(g2, n + 1)
    BY <2>2, <2>3
  <2>6. n + 1 \in Nat
    OBVIOUS
  <2> HIDE DEF Steps
  <2> QED BY <2>4, <2>6
<1> HIDE DEF Q
<1>3. l \in Q
  BY <1>0, <1>1, <1>2, CountUp
<1>4. PICK g : Steps(g, l)
  BY <1>3 DEF Q
<1>5. Flattens(P, [i \in 1..l |-> g[i]])
  <2> DEFINE h == [i \in 1..l |-> g[i]]
  <2>1. ASSUME NEW i \in 1..l PROVE g[i] = IF i = 1 THEN P[i] ELSE h[i - 1] \o P[i]
    <3>1. i # 1 => i - 1 \in 1..l
      BY <1>0
    <3> QED BY <1>4, <3>1
  <2> QED BY <2>1, Zenon DEF Flattens
<1> DEFINE c == CHOOSE c : Flattens(P, c)
<1>6. Flattens(P, c)
  BY <1>5
<1> HIDE DEF c
<1>7. c = [i \in 1 .. Len(P) |-> IF i = 1 THEN P[i] ELSE c[i - 1] \o P[i]]
  BY <1>6 DEF Flattens
<1>8. c[1] = P[1]
  <2>1. 1 \in 1 .. Len(P)
    BY <1>0
  <2> QED BY <1>7, <2>1
<1>9. ASSUME NEW i \in 1 .. Len(P) - 1 PROVE c[i + 1] = c[i] \o P[i + 1]
  <2>1. i + 1 \in 1 .. Len(P) /\ i + 1 # 1 /\ (i + 1) - 1 = i
    BY <1>0
  <2>2. c[i + 1] = c[(i + 1) - 1] \o P[i + 1]
    BY <1>7, <2>1
  <2> QED BY <2>1, <2>2
<1>10. FlattenSeq(P) = c[Len(P)]
  BY FlattenIs DEF c
<1> QED BY <1>8, <1>9, <1>10

\* What flattening keeps: the elements, the first of them, and their order.
LEMMA FlattenKeeps ==
  ASSUME NEW T, NEW P \in Seq(Seq(T)), Len(P) # 0, NEW key,
         \A i \in 1 .. Len(P) : Sorted(P[i], key),
         \A i \in 1 .. Len(P), j \in 1 .. Len(P) : i < j =>
            \A x \in 1 .. Len(P[i]), y \in 1 .. Len(P[j]) : key[P[i][x]] <= key[P[j][y]]
  PROVE  /\ FlattenSeq(P) \in Seq(T)
         /\ P[1] # <<>> => FlattenSeq(P) # <<>> /\ FlattenSeq(P)[1] = P[1][1]
         /\ Sorted(FlattenSeq(P), key)
<1>1. PICK g : /\ FlattenSeq(P) = g[Len(P)]
               /\ g[1] = P[1]
               /\ \A i \in 1 .. Len(P) - 1 : g[i + 1] = g[i] \o P[i + 1]
  BY FlattenSteps
<1>0. Len(P) \in Nat /\ Len(P) >= 1 /\ \A i \in 1 .. Len(P) : P[i] \in Seq(T)
  OBVIOUS
<1> DEFINE From(q, i) == \A x \in 1 .. Len(q) : \E j \in 1..i : \E y \in 1 .. Len(P[j]) :
                             q[x] = P[j][y]
           Good(i) == /\ g[i] \in Seq(T)
                      /\ P[1] # <<>> => g[i] # <<>> /\ g[i][1] = P[1][1]
                      /\ From(g[i], i)
                      /\ Sorted(g[i], key)
           Q == { n \in Nat : n + 1 <= Len(P) => Good(n + 1) }
<1>2. 0 \in Q
  <2>1. Good(1)
    <3>1. From(g[1], 1)
      BY <1>1
    <3> QED BY <1>0, <1>1, <3>1
  <2> QED BY <2>1
<1>3. ASSUME NEW n \in Q PROVE n + 1 \in Q
  <2> DEFINE i == n + 1
             a == g[i]
             b == P[i + 1]
  <2> SUFFICES ASSUME i + 1 <= Len(P) PROVE Good(i + 1)
    OBVIOUS
  <2>1. i \in 1 .. Len(P) - 1 /\ i + 1 \in 1 .. Len(P) /\ Good(i)
    <3>1. n \in Nat /\ n + 1 <= Len(P) => Good(n + 1)
      <4> HIDE DEF Good
      <4> QED OBVIOUS
    <3>2. i \in 1 .. Len(P) - 1 /\ i + 1 \in 1 .. Len(P)
      BY <1>0
    <3> HIDE DEF Good
    <3> QED BY <1>0, <3>1, <3>2
  <2>2. g[i + 1] = a \o b
    BY <1>1, <2>1
  <2>3. a \in Seq(T) /\ b \in Seq(T)
    BY <1>0, <2>1
  <2>4. /\ a \o b \in Seq(T) /\ Len(a \o b) = Len(a) + Len(b)
        /\ Len(a) \in Nat /\ Len(b) \in Nat
        /\ \A x \in 1 .. Len(a) + Len(b) :
              (a \o b)[x] = IF x <= Len(a) THEN a[x] ELSE b[x - Len(a)]
    <3> HIDE DEF a, b
    <3> QED BY <2>3
  <2>5. P[1] # <<>> => a \o b # <<>> /\ (a \o b)[1] = P[1][1]
    <3> SUFFICES ASSUME P[1] # <<>> PROVE a \o b # <<>> /\ (a \o b)[1] = P[1][1]
      OBVIOUS
    <3>1. a # <<>> /\ a[1] = P[1][1]
      BY <2>1
    <3> HIDE DEF a, b
    <3>2. Len(a) >= 1
      BY <2>3, <3>1
    <3> QED BY <2>4, <3>1, <3>2
  <2>6. From(a \o b, i + 1)
    <3> SUFFICES ASSUME NEW x \in 1 .. Len(a \o b)
                 PROVE  \E j \in 1 .. i + 1 : \E y \in 1 .. Len(P[j]) : (a \o b)[x] = P[j][y]
      OBVIOUS
    <3>1. CASE x <= Len(a)
      <4>1. x \in 1 .. Len(a) /\ (a \o b)[x] = a[x]
        <5> HIDE DEF a, b
        <5> QED BY <2>4, <3>1
      <4>2. From(a, i)
        BY <2>1
      <4>3. PICK j \in 1..i : \E y \in 1 .. Len(P[j]) : a[x] = P[j][y]
        BY <4>1, <4>2
      <4>4. j \in 1 .. i + 1
        BY <2>1
      <4> QED BY <4>1, <4>3, <4>4
    <3>2. CASE x > Len(a)
      <4>1. x - Len(a) \in 1 .. Len(b) /\ (a \o b)[x] = b[x - Len(a)]
        <5> HIDE DEF a, b
        <5> QED BY <2>4, <3>2
      <4>2. i + 1 \in 1 .. i + 1
        BY <2>1
      <4> QED BY <4>1, <4>2
    <3> QED BY <2>4, <3>1, <3>2
  <2>7. Sorted(a \o b, key)
    <3> SUFFICES ASSUME NEW x \in 1 .. Len(a \o b), NEW y \in 1 .. Len(a \o b), x < y
                 PROVE  key[(a \o b)[x]] <= key[(a \o b)[y]]
      BY DEF Sorted
    <3>1. CASE y <= Len(a)
      <4>1. /\ x \in 1 .. Len(a) /\ (a \o b)[x] = a[x]
            /\ y \in 1 .. Len(a) /\ (a \o b)[y] = a[y]
        <5> HIDE DEF a, b
        <5> QED BY <2>4, <3>1
      <4>2. Sorted(a, key)
        BY <2>1
      <4> HIDE DEF a, b
      <4> QED BY <4>1, <4>2 DEF Sorted
    <3>2. CASE x > Len(a)
      <4>1. /\ x - Len(a) \in 1 .. Len(b) /\ (a \o b)[x] = b[x - Len(a)]
            /\ y - Len(a) \in 1 .. Len(b) /\ (a \o b)[y] = b[y - Len(a)]
            /\ x - Len(a) < y - Len(a)
        <5> HIDE DEF a, b
        <5> QED BY <2>4, <3>2
      <4>2. Sorted(b, key)
        BY <2>1
      <4> HIDE DEF a, b
      <4> QED BY <4>1, <4>2 DEF Sorted
    <3>3. CASE x <= Len(a) /\ y > Len(a)
      <4>1. /\ x \in 1 .. Len(a) /\ (a \o b)[x] = a[x]
            /\ y - Len(a) \in 1 .. Len(b) /\ (a \o b)[y] = b[y - Len(a)]
        <5> HIDE DEF a, b
        <5>1. x \in 1 .. Len(a)
          BY <2>4, <3>3
        <5>2. y - Len(a) \in 1 .. Len(b)
          BY <2>4, <3>3
        <5>3. (a \o b)[x] = a[x]
          BY <2>4, <3>3, <5>1
        <5>4. (a \o b)[y] = b[y - Len(a)]
          BY <2>4, <3>3, <5>2
        <5> QED BY <5>1, <5>2, <5>3, <5>4
      <4>2. From(a, i)
        BY <2>1
      <4>3. PICK j \in 1..i : \E z \in 1 .. Len(P[j]) : a[x] = P[j][z]
        BY <4>1, <4>2
      <4>4. PICK z \in 1 .. Len(P[j]) : a[x] = P[j][z]
        BY <4>3
      <4>5. j \in 1 .. Len(P) /\ j < i + 1
        BY <2>1
      <4>6. key[P[j][z]] <= key[b[y - Len(a)]]
        BY <2>1, <4>1, <4>5
      <4> QED BY <4>1, <4>4, <4>6
    <3> QED BY <2>4, <3>1, <3>2, <3>3
  <2>8. /\ g[i + 1] \in Seq(T)
        /\ P[1] # <<>> => g[i + 1] # <<>> /\ g[i + 1][1] = P[1][1]
        /\ From(g[i + 1], i + 1)
        /\ Sorted(g[i + 1], key)
    <3> HIDE DEF From, a, b
    <3> QED BY <2>2, <2>4, <2>5, <2>6, <2>7
  <2> QED BY <2>8
<1> HIDE DEF Q
<1>4. Len(P) - 1 \in Q
  BY <1>0, <1>2, <1>3, CountUp
<1>5. Good(Len(P))
  BY <1>0, <1>4 DEF Q
<1> QED BY <1>1, <1>5

\* A sequence of sequences over T is flattened to a sequence over T.
LEMMA FlattenType ==
  ASSUME NEW T, NEW P \in Seq(Seq(T))
  PROVE  FlattenSeq(P) \in Seq(T)
<1>1. CASE Len(P) = 0
  <2>1. P = <<>>
    BY <1>1
  <2>2. FlattenSeq(P) = P
    BY <1>1, FlattenIs, Zenon
  <2>3. <<>> \in Seq(T)
    OBVIOUS
  <2> QED BY <2>1, <2>2, <2>3, Zenon
<1>2. CASE Len(P) # 0
  <2>1. PICK g : /\ FlattenSeq(P) = g[Len(P)]
                 /\ g[1] = P[1]
                 /\ \A i \in 1 .. Len(P) - 1 : g[i + 1] = g[i] \o P[i + 1]
    BY <1>2, FlattenSteps
  <2> DEFINE Q == { n \in Nat : n + 1 <= Len(P) => g[n + 1] \in Seq(T) }
  <2>0. Len(P) \in Nat /\ Len(P) >= 1 /\ \A i \in 1 .. Len(P) : P[i] \in Seq(T)
    BY <1>2
  <2>2. 0 \in Q
    BY <2>0, <2>1
  <2>3. ASSUME NEW n \in Q PROVE n + 1 \in Q
    <3> SUFFICES ASSUME (n + 1) + 1 <= Len(P) PROVE g[(n + 1) + 1] \in Seq(T)
      OBVIOUS
    <3>1. n + 1 \in 1 .. Len(P) - 1 /\ (n + 1) + 1 \in 1 .. Len(P) /\ g[n + 1] \in Seq(T)
      BY <2>0
    <3>2. g[(n + 1) + 1] = g[n + 1] \o P[(n + 1) + 1] /\ P[(n + 1) + 1] \in Seq(T)
      BY <2>0, <2>1, <3>1
    <3> QED BY <3>1, <3>2
  <2> HIDE DEF Q
  <2>4. Len(P) - 1 \in Q
    BY <2>0, <2>2, <2>3, CountUp
  <2> QED BY <2>0, <2>1, <2>4 DEF Q
<1> QED BY <1>1, <1>2

Folds(g, n, base, op) ==
    \A s \in SUBSET (1..n) :
       g[s] = IF s = {} THEN base ELSE op[<<Max(s), g[s \ {Max(s)}]>>]

\* A fold over a sequence exists: one that takes its values from V.
LEMMA FoldExists ==
  ASSUME NEW n \in Nat, NEW V, NEW base \in V, NEW op \in [(1..n) \X V -> V]
  PROVE  \E g \in [SUBSET (1..n) -> V] : Folds(g, n, base, op)
<1> DEFINE D == 1..n
           Body(g, s) == IF s = {} THEN base ELSE op[<<Max(s), g[s \ {Max(s)}]>>]
           Q == { k \in Nat : \E g \in [SUBSET D -> V] :
                     \A s \in SUBSET D : Cardinality(s) <= k => g[s] = Body(g, s) }
<1>1. ASSUME NEW s \in SUBSET D, s # {}
      PROVE  /\ Max(s) \in s /\ s \ {Max(s)} \in SUBSET D /\ Max(s) \in 1..n
             /\ Cardinality(s) \in Nat /\ Cardinality(s \ {Max(s)}) = Cardinality(s) - 1
  <2>1. s \in SUBSET Nat /\ \A x \in s : x <= n
    OBVIOUS
  <2>2. Max(s) \in s
    BY <1>1, <2>1, MaxIs
  <2>3. IsFiniteSet(s)
    BY <2>1, FS_BoundedSetOfNaturals
  <2>4. Cardinality(s) \in Nat
    BY <2>3, FS_CardinalityType
  <2>5. Cardinality(s \ {Max(s)}) = Cardinality(s) - 1
    BY <2>2, <2>3, FS_RemoveElement, Zenon
  <2> QED BY <2>2, <2>4, <2>5
<1>2. 0 \in Q
  <2> DEFINE g == [s \in SUBSET D |-> base]
  <2>1. g \in [SUBSET D -> V]
    OBVIOUS
  <2>2. ASSUME NEW s \in SUBSET D, Cardinality(s) <= 0 PROVE g[s] = Body(g, s)
    <3>1. CASE s = {}
      BY <3>1
    <3>2. CASE s # {}
      <4>1. Cardinality(s) - 1 \in Nat
        <5>1. IsFiniteSet(s)
          <6>1. s \in SUBSET Nat /\ \A x \in s : x <= n
            OBVIOUS
          <6> QED BY <6>1, FS_BoundedSetOfNaturals
        <5>2. IsFiniteSet(s \ {Max(s)})
          BY <5>1, FS_RemoveElement, Zenon
        <5>3. Cardinality(s \ {Max(s)}) \in Nat
          BY <5>2, FS_CardinalityType
        <5> QED BY <1>1, <3>2, <5>3
      <4> QED BY <1>1, <2>2, <3>2, <4>1
    <3> QED BY <3>1, <3>2
  <2>3. 0 \in Nat
    OBVIOUS
  <2> HIDE DEF g, Body
  <2> QED BY <2>1, <2>2, <2>3
<1>3. ASSUME NEW k \in Q PROVE k + 1 \in Q
  <2>1. PICK g \in [SUBSET D -> V] :
                \A s \in SUBSET D : Cardinality(s) <= k => g[s] = Body(g, s)
    <3> HIDE DEF Body
    <3> QED OBVIOUS
  <2>0. k \in Nat /\ k + 1 \in Nat
    OBVIOUS
  <2> HIDE DEF Q
  <2> DEFINE h == [s \in SUBSET D |-> IF Cardinality(s) <= k THEN g[s] ELSE Body(g, s)]
  <2>2. h \in [SUBSET D -> V]
    <3> SUFFICES ASSUME NEW s \in SUBSET D PROVE Body(g, s) \in V
      BY <2>1 DEF h
    <3>1. CASE s = {}
      BY <3>1
    <3>2. CASE s # {}
      <4>1. g[s \ {Max(s)}] \in V
        BY <1>1, <2>1, <3>2
      <4>2. <<Max(s), g[s \ {Max(s)}]>> \in (1..n) \X V
        BY <1>1, <3>2, <4>1
      <4> QED BY <3>2, <4>2
    <3> QED BY <3>1, <3>2
  <2>3. ASSUME NEW s \in SUBSET D, Cardinality(s) <= k + 1 PROVE h[s] = Body(h, s)
    <3>1. h[s] = Body(g, s)
      <4> HIDE DEF Body
      <4> QED BY <2>1
    <3>2. CASE s = {}
      BY <3>1, <3>2
    <3>3. CASE s # {}
      <4>1. Cardinality(s \ {Max(s)}) <= k
        BY <1>1, <2>0, <2>3, <3>3
      <4>2. h[s \ {Max(s)}] = g[s \ {Max(s)}]
        BY <1>1, <3>3, <4>1
      <4> HIDE DEF h
      <4> QED BY <3>1, <3>3, <4>2
    <3> QED BY <3>2, <3>3
  <2> HIDE DEF h, Body
  <2> QED BY <2>0, <2>2, <2>3 DEF Q
<1> HIDE DEF Q
<1>4. n \in Q
  BY <1>2, <1>3, CountUp
<1>5. PICK g \in [SUBSET D -> V] :
              \A s \in SUBSET D : Cardinality(s) <= n => g[s] = Body(g, s)
  BY <1>4 DEF Q
<1>6. ASSUME NEW s \in SUBSET D PROVE Cardinality(s) <= n
  <2>1. IsFiniteSet(D) /\ Cardinality(D) = n
    <3>1. 1 \in Int /\ n \in Int
      OBVIOUS
    <3>2. IsFiniteSet(1..n) /\ Cardinality(1..n) = IF 1 > n THEN 0 ELSE n - 1 + 1
      BY <3>1, FS_Interval, Zenon
    <3> QED BY <3>2
  <2>2. Cardinality(s) <= Cardinality(D)
    <3> HIDE DEF D
    <3> QED BY <2>1, FS_Subset
  <2> QED BY <2>1, <2>2
<1>7. Folds(g, n, base, op)
  BY <1>5, <1>6 DEF Folds
<1> QED BY <1>7

\* What a fold over the first m elements is made from.
LEMMA Prefix ==
  ASSUME NEW n \in Nat, NEW m \in 1..n
  PROVE  1..m \in SUBSET (1..n) /\ 1..m # {} /\ Max(1..m) = m /\ (1..m) \ {m} = 1 .. m - 1
<1>1. 1..m \in SUBSET Nat /\ 1..m # {} /\ m \in 1..m /\ \A x \in 1..m : x <= m
  OBVIOUS
<1>2. Max(1..m) \in 1..m /\ \A x \in 1..m : x <= Max(1..m)
  BY <1>1, MaxIs
<1>3. Max(1..m) = m
  BY <1>1, <1>2
<1> QED BY <1>1, <1>3

--------------------------------------------------------------------------------
(* The receiving entity: windows.                                             *)

\* The edges move to the first SDU that is not complete.
LEMMA FirstMissingIs ==
  ASSUME start \in Sn, NEW r, NEW n \in Nat, NEW x \in Nat, NEW high \in Nat,
         n <= x, x <= high, high <= n + Window,
         r.next = SnOf(n), r.nextHighest = SnOf(high)
  PROVE  \E y \in x .. high :
            /\ FirstMissing(r, SnOf(x)) = SnOf(y)
            /\ \A i \in x .. y - 1 : Complete(r.window, SnOf(i))
            /\ y = high \/ ~Complete(r.window, SnOf(y))
<1> DEFINE span == Above(r.next, r.nextHighest) - Above(r.next, SnOf(x))
           Miss(i) == ~Complete(r.window, (SnOf(x) + i) % Mod)
           I == { i \in 0 .. span : i = span \/ Miss(i) }
<1>1. span = high - x
  <2>1. Above(SnOf(n), SnOf(high)) = high - n /\ Above(SnOf(n), SnOf(x)) = x - n
    BY AboveUp, ModIs
  <2> QED BY <2>1
<1>2. \A i \in Nat : (SnOf(x) + i) % Mod = SnOf(x + i)
  BY SnOfSum
<1>3. FirstMissing(r, SnOf(x)) = IF span <= 0 THEN SnOf(x) ELSE (SnOf(x) + Min(I)) % Mod
  BY DEF FirstMissing
<1> HIDE DEF span
<1>4. CASE span <= 0
  <2>1. x \in x .. high /\ x = high
    BY <1>1, <1>4
  <2> QED BY <1>3, <1>4, <2>1
<1>5. CASE span > 0
  <2>1. I \in SUBSET Nat /\ span \in I
    BY <1>1, <1>5
  <2>2. Min(I) \in I /\ \A i \in I : Min(I) <= i
    BY <2>1, MinIs
  <2> DEFINE m == Min(I)
  <2>3. m \in 0 .. span /\ (m = span \/ Miss(m))
    BY <2>2
  <2>4. \A i \in 0 .. m - 1 : ~Miss(i)
    <3> SUFFICES ASSUME NEW i \in 0 .. m - 1, Miss(i) PROVE FALSE
      OBVIOUS
    <3>0. m \in Nat /\ m <= span /\ span \in Nat
      BY <1>1, <1>5, <2>3
    <3> HIDE DEF m
    <3>1. i \in I
      BY <3>0
    <3>2. m <= i
      BY <2>2, <3>1 DEF m
    <3> QED BY <3>0, <3>2
  <2>9. FirstMissing(r, SnOf(x)) = (SnOf(x) + m) % Mod
    BY <1>1, <1>3, <1>5
  <2> HIDE DEF m
  <2>5. x + m \in x .. high
    BY <1>1, <2>3
  <2>6. FirstMissing(r, SnOf(x)) = SnOf(x + m)
    <3>1. m \in Nat
      BY <2>3
    <3> QED BY <1>2, <2>9, <3>1
  <2>7. ASSUME NEW i \in x .. (x + m) - 1 PROVE Complete(r.window, SnOf(i))
    <3>1. i - x \in 0 .. m - 1 /\ x + (i - x) = i
      BY <2>3
    <3>2. (SnOf(x) + (i - x)) % Mod = SnOf(i)
      BY <1>2, <3>1
    <3> QED BY <2>4, <3>1, <3>2
  <2>8. x + m = high \/ ~Complete(r.window, SnOf(x + m))
    <3>1. (SnOf(x) + m) % Mod = SnOf(x + m)
      BY <1>2, <2>3
    <3> QED BY <1>1, <2>3, <3>1
  <2> QED BY <2>5, <2>6, <2>7, <2>8
<1> QED BY <1>1, <1>4, <1>5

\* Different SDUs of a window have different sequence numbers.
LEMMA Apart ==
  ASSUME start \in Sn, NEW n \in Int, NEW i \in Int, NEW j \in Int,
         n <= i, i <= n + Window, n <= j, j <= n + Window, SnOf(i) = SnOf(j)
  PROVE  i = j
BY SnOfInjective, ModIs

\* An entry of the receiver's window is that of the SDU of its number.
LEMMA RxWindowIs ==
  ASSUME start \in Sn, NEW r, NEW n, NEW high, NEW size, NEW begun,
         RxWindow(r, n, high, size, begun), NEW i \in Nat, n <= i, i <= n + Window,
         HasSn(r.window, SnOf(i))
  PROVE  /\ i < high /\ r.window[SnOf(i)] \in InfoType
         /\ InfoOk(r.window[SnOf(i)], i + 1, size, begun)
<1>1. n \in Nat /\ high \in Nat /\ high <= n + Window
  BY DEF RxWindow
<1>2. PICK j \in n .. high - 1 : SnOf(i) = SnOf(j)
  BY DEF RxWindow, HasSn
<1>3. i = j
  BY <1>1, <1>2, Apart, ModIs
<1>4. i \in n .. high - 1 /\ i < high
  BY <1>1, <1>3
<1>5. r.window[SnOf(i)] \in InfoType
  BY DEF RxWindow, RxTyped, HasSn
<1>6. InfoOk(r.window[SnOf(i)], i + 1, size, begun)
  BY <1>4 DEF RxWindow
<1> QED BY <1>4, <1>5, <1>6

--------------------------------------------------------------------------------
(* The receiving entity: data PDUs.                                           *)

Placed(r, pdu) ==
    LET held == [r EXCEPT !.window = Stored(@, pdu)]
    IN IF Above(r.next, pdu.sn) >= Above(r.next, r.nextHighest)
       THEN [held EXCEPT !.nextHighest = (pdu.sn + 1) % Mod] ELSE held

\* The lengths and what was sent of the SDUs.
SizesOk(size, begun) ==
    /\ size \in Seq(Nat) /\ begun \in [1 .. Len(size) -> Nat]
    /\ \A k \in 1 .. Len(size) : begun[k] <= size[k] /\ 1 <= size[k] /\ size[k] <= EndOfSdu

LEMMA SizesAt ==
  ASSUME NEW size, NEW begun, SizesOk(size, begun), NEW k \in 1 .. Len(size)
  PROVE  /\ size[k] \in Nat /\ begun[k] \in Nat /\ begun[k] <= size[k]
         /\ 1 <= size[k] /\ size[k] <= EndOfSdu /\ Len(size) \in Nat
BY DEF SizesOk

StoredOk(r, pdu, begun) ==
    /\ DOMAIN Stored(r.window, pdu) = DOMAIN r.window \cup {pdu.sn}
    /\ Stored(r.window, pdu)[pdu.sn] \in InfoType
    /\ InfoOk(Stored(r.window, pdu)[pdu.sn], pdu.k, Sizes, begun)
    /\ \A sn \in DOMAIN r.window : sn # pdu.sn =>
          Stored(r.window, pdu)[sn] = r.window[sn]

\* Another PDU in the receive buffer of its SDU.
LEMMA StoredInfo ==
  ASSUME start \in Sn, NEW r, NEW n, NEW high, NEW begun, NEW pdu,
         SizesOk(Sizes, begun), RxWindow(r, n, high, Sizes, begun),
         PduOk(pdu, Sizes, begun), n <= pdu.k - 1, pdu.k - 1 < n + Window
  PROVE  StoredOk(r, pdu, begun)
<1> DEFINE held == IF HasSn(r.window, pdu.sn) /\ ~IsFull(pdu)
                   THEN r.window[pdu.sn] ELSE NoBytes
           new == pdu.so .. pdu.so + pdu.len - 1
           info == [bytes |-> held.bytes \cup new,
                    last |-> held.last \/ IsLast(pdu),
                    from |-> held.from \cup {pdu.k}]
           k == pdu.k
<1>1. Stored(r.window, pdu) = WithSn(r.window, pdu.sn, info)
  BY DEF Stored
<1>2. /\ k \in 1 .. Len(Sizes) /\ pdu.so \in Nat /\ pdu.len \in Nat /\ pdu.len >= 1
      /\ pdu.sn = SnOf(k - 1) /\ pdu.so + pdu.len <= begun[k]
      /\ begun[k] \in Nat /\ begun[k] <= Sizes[k] /\ Sizes[k] \in Nat
      /\ Sizes[k] = Length[sent[k]] /\ k \in Nat /\ k - 1 \in Nat
  <2>1. /\ k \in 1 .. Len(Sizes) /\ pdu.so \in Nat /\ pdu.len \in Nat /\ pdu.len >= 1
        /\ pdu.sn = SnOf(k - 1) /\ pdu.so + pdu.len <= begun[k]
    BY DEF PduOk
  <2>2. begun[k] \in Nat /\ begun[k] <= Sizes[k] /\ Sizes[k] \in Nat
    BY <2>1 DEF SizesOk
  <2>3. Len(Sizes) \in Nat /\ k \in DOMAIN Sizes
    BY <2>1 DEF SizesOk
  <2>4. Sizes[k] = Length[sent[k]]
    BY <2>3 DEF Sizes
  <2> QED BY <2>1, <2>2, <2>3, <2>4
<1>3. /\ \/ held = NoBytes
         \/ held \in InfoType /\ InfoOk(held, k, Sizes, begun)
  <2> SUFFICES ASSUME HasSn(r.window, pdu.sn), ~IsFull(pdu)
               PROVE  held \in InfoType /\ InfoOk(held, k, Sizes, begun)
    BY Zenon
  <2>1. k - 1 <= n + Window /\ (k - 1) + 1 = k
    BY <1>2, ModIs DEF RxWindow
  <2>2. r.window[SnOf(k - 1)] \in InfoType /\ InfoOk(r.window[SnOf(k - 1)], (k - 1) + 1, Sizes, begun)
    BY <1>2, <2>1, RxWindowIs
  <2> QED BY <1>2, <2>1, <2>2
<1>4. /\ held.bytes \in SUBSET Nat /\ held.bytes \subseteq 0 .. begun[k] - 1
      /\ held.from \subseteq {k}
      /\ held.last \in BOOLEAN /\ (held.last <=> Sizes[k] - 1 \in held.bytes)
  <2>1. CASE held = NoBytes
    <3> HIDE DEF held
    <3>1. held.bytes = {} /\ held.from = {} /\ held.last = FALSE
      BY <2>1 DEF NoBytes
    <3> QED BY <3>1
  <2>2. CASE held \in InfoType /\ InfoOk(held, k, Sizes, begun)
    <3> HIDE DEF held
    <3> QED BY <2>2 DEF InfoType, InfoOk
  <2> QED BY <1>3, <2>1, <2>2
<1> HIDE DEF held
<1>5. new \in SUBSET Nat /\ new # {} /\ new \subseteq 0 .. begun[k] - 1
  <2> DEFINE so == pdu.so
             len == pdu.len
             b == begun[k]
  <2>1. so \in Nat /\ len \in Nat /\ len >= 1 /\ b \in Nat /\ so + len <= b
    BY <1>2
  <2> HIDE DEF so, len, b
  <2>2. /\ so .. so + len - 1 \in SUBSET Nat /\ so .. so + len - 1 # {}
        /\ so .. so + len - 1 \subseteq 0 .. b - 1
    <3>1. so \in so .. so + len - 1
      BY <2>1
    <3>2. \A x \in so .. so + len - 1 : x \in Nat /\ x \in 0 .. b - 1
      BY <2>1
    <3> QED BY <3>1, <3>2
  <2> QED BY <2>2 DEF so, len, b
<1>6. Sizes[k] - 1 \in new <=> IsLast(pdu)
  <2>1. IsLast(pdu) <=> pdu.so + pdu.len = Sizes[k]
    BY <1>2 DEF IsLast
  <2> DEFINE so == pdu.so
             len == pdu.len
             s == Sizes[k]
  <2>2. so \in Nat /\ len \in Nat /\ len >= 1 /\ s \in Nat /\ so + len <= s
    BY <1>2
  <2> HIDE DEF so, len, s
  <2>3. s - 1 \in so .. so + len - 1 <=> so + len = s
    BY <2>2
  <2> QED BY <2>1, <2>3 DEF so, len, s
<1>7. IsLast(pdu) \in BOOLEAN
  BY DEF IsLast
<1> HIDE DEF new
<1>8. info \in InfoType
  BY <1>2, <1>4, <1>5, <1>7 DEF InfoType
<1>9. InfoOk(info, k, Sizes, begun)
  BY <1>4, <1>5, <1>6 DEF InfoOk
<1> HIDE DEF info
<1> QED BY <1>1, <1>8, <1>9 DEF WithSn, StoredOk

PlacedOk(r, pdu, n, top, begun) ==
    LET p == Placed(r, pdu) IN
    /\ RxWindow(p, n, top, Sizes, begun)
    /\ p.highestStatus = r.highestStatus /\ p.trigger = r.trigger
    /\ p.reassembly = r.reassembly
    /\ p.window = Stored(r.window, pdu)

\* A data PDU stored in the window keeps the window, its edge raised to the PDU's SDU.
LEMMA PlacedIs ==
  ASSUME start \in Sn, NEW r, NEW n, NEW high, NEW begun, NEW pdu,
         SizesOk(Sizes, begun), RxWindow(r, n, high, Sizes, begun),
         PduOk(pdu, Sizes, begun), n <= pdu.k - 1, pdu.k - 1 < n + Window
  PROVE  PlacedOk(r, pdu, n, IF pdu.k > high THEN pdu.k ELSE high, begun)
<1>0. StoredOk(r, pdu, begun)
  BY StoredInfo, Zenon
<1> DEFINE p == Placed(r, pdu)
           k == pdu.k
           w == Stored(r.window, pdu)
           top == IF k > high THEN k ELSE high
           held == [r EXCEPT !.window = w]
<1>1. /\ DOMAIN w = DOMAIN r.window \cup {pdu.sn}
      /\ w[pdu.sn] \in InfoType
      /\ InfoOk(w[pdu.sn], k, Sizes, begun)
      /\ \A sn \in DOMAIN r.window : sn # pdu.sn => w[sn] = r.window[sn]
  BY <1>0 DEF StoredOk
<1>2. k \in 1 .. Len(Sizes) /\ Len(Sizes) \in Nat /\ pdu.sn = SnOf(k - 1) /\ pdu.sn \in Sn
  BY DEF PduOk, SizesOk
<1>3. /\ n \in Nat /\ high \in Nat /\ n <= high /\ high <= Len(Sizes) /\ high <= n + Window
      /\ r.next = SnOf(n) /\ r.nextHighest = SnOf(high) /\ RxTyped(r)
  BY DEF RxWindow
<1>4. w \in [DOMAIN w -> InfoType]
  <2>1. w = [s \in DOMAIN w |-> w[s]]
    BY Zenon DEF Stored, WithSn
  <2>2. \A s \in DOMAIN w : w[s] \in InfoType
    BY <1>1, <1>3 DEF RxTyped
  <2> HIDE DEF w
  <2> QED BY <2>1, <2>2
<1>5. top \in Nat /\ n <= top /\ top <= Len(Sizes) /\ top <= n + Window /\ high <= top /\ k <= top
  BY <1>2, <1>3, ModIs
<1>6. (Above(r.next, pdu.sn) >= Above(r.next, r.nextHighest)) <=> k > high
  <2>1. Above(SnOf(n), SnOf(k - 1)) = (k - 1) - n /\ Above(SnOf(n), SnOf(high)) = high - n
    BY <1>2, <1>3, AboveUp, ModIs
  <2> QED BY <1>2, <1>3, <2>1
<1>7. (pdu.sn + 1) % Mod = SnOf(k)
  <2>1. k - 1 \in Int /\ 1 \in Int /\ (k - 1) + 1 = k
    BY <1>2
  <2>2. (SnOf(k - 1) + 1) % Mod = SnOf((k - 1) + 1)
    BY <2>1, SnOfSum, Zenon
  <2> QED BY <1>2, <2>1, <2>2
<1>8. p = IF k > high THEN [held EXCEPT !.nextHighest = SnOf(k)] ELSE held
  BY <1>6, <1>7 DEF Placed
<1>9. SnOf(k) \in Sn
  BY <1>2, SnOfType
<1> HIDE DEF w
<1>10. /\ RxTyped(p) /\ p.window = w /\ p.next = r.next
       /\ p.nextHighest = SnOf(top)
       /\ p.highestStatus = r.highestStatus /\ p.trigger = r.trigger
       /\ p.reassembly = r.reassembly
  <2>1. CASE k > high
    BY <1>3, <1>4, <1>8, <1>9, <2>1 DEF RxTyped
  <2>2. CASE ~(k > high)
    BY <1>3, <1>4, <1>8, <2>2 DEF RxTyped
  <2> QED BY <2>1, <2>2
<1> HIDE DEF p, held, top
<1>11. DOMAIN w \subseteq { SnOf(i) : i \in n .. top - 1 }
  <2>1. ASSUME NEW s \in DOMAIN r.window PROVE s \in { SnOf(i) : i \in n .. top - 1 }
    <3>1. PICK i \in n .. high - 1 : s = SnOf(i)
      BY DEF RxWindow
    <3>2. i \in n .. top - 1
      BY <1>3, <1>5
    <3> QED BY <3>1, <3>2
  <2>2. k - 1 \in n .. top - 1
    BY <1>2, <1>3, <1>5
  <2> QED BY <1>1, <1>2, <2>1, <2>2
<1>12. ASSUME NEW i \in n .. top - 1, HasSn(w, SnOf(i))
       PROVE  InfoOk(w[SnOf(i)], i + 1, Sizes, begun)
  <2>1. CASE SnOf(i) = pdu.sn
    <3>1. i = k - 1
      BY <1>2, <1>3, <1>5, <2>1, Apart, ModIs
    <3>2. i + 1 = k
      BY <1>2, <3>1
    <3> QED BY <1>1, <2>1, <3>2
  <2>2. CASE SnOf(i) # pdu.sn
    <3>1. HasSn(r.window, SnOf(i)) /\ w[SnOf(i)] = r.window[SnOf(i)]
      BY <1>1, <1>12, <2>2 DEF HasSn
    <3>2. i \in Nat /\ n <= i /\ i <= n + Window
      BY <1>3, <1>5, ModIs
    <3> QED BY <3>1, <3>2, RxWindowIs
  <2> QED BY <2>1, <2>2
<1>13. top > n => HasSn(w, SnOf(top - 1))
  <2>1. CASE k > high
    <3>1. top = k
      BY <2>1 DEF top
    <3> QED BY <1>1, <1>2, <3>1 DEF HasSn
  <2>2. CASE ~(k > high)
    <3>1. top = high
      BY <2>2 DEF top
    <3> QED BY <1>1, <3>1 DEF HasSn, RxWindow
  <2> QED BY <2>1, <2>2
<1>14. RxWindow(p, n, top, Sizes, begun)
  BY <1>3, <1>5, <1>10, <1>11, <1>12, <1>13 DEF RxWindow
<1> QED BY <1>10, <1>14 DEF p, w, top, PlacedOk

AdvancedOk(p, i, n, high, size, begun) ==
    LET q == Advanced(p, SnOf(i)) IN
    \E n2 \in n .. high, h2 \in n .. high :
       /\ RxWindow(q, n2, high, size, begun)
       /\ StatusEdge(q, n2, h2, high)
       /\ ~Complete(q.window, SnOf(n2))
       /\ q.trigger = p.trigger /\ q.reassembly = p.reassembly
       /\ \A j \in n .. n2 - 1 : Complete(p.window, SnOf(j))
       /\ DOMAIN q.window = DOMAIN p.window \ { SnOf(j) : j \in n .. n2 - 1 }
       /\ \A sn \in DOMAIN q.window : q.window[sn] = p.window[sn]

\* Once the SDU with i before it is complete.
LEMMA AdvancedIs ==
  ASSUME start \in Sn, NEW p, NEW n, NEW high, NEW h, NEW i, NEW size, NEW begun,
         RxWindow(p, n, high, size, begun), i \in n .. high - 1, h \in n .. high,
         p.highestStatus = SnOf(h), Complete(p.window, SnOf(i)),
         i # n => ~Complete(p.window, SnOf(n)),
         h = i \/ h = high \/ ~Complete(p.window, SnOf(h))
  PROVE  AdvancedOk(p, i, n, high, size, begun)
<1>1. /\ n \in Nat /\ high \in Nat /\ n <= high /\ high <= Len(size) /\ high <= n + Window
      /\ p.next = SnOf(n) /\ p.nextHighest = SnOf(high) /\ RxTyped(p)
  BY DEF RxWindow
<1>2. i \in Nat /\ n <= i /\ i < high /\ h \in Nat /\ n <= h /\ h <= high
  BY <1>1
<1> DEFINE sn == SnOf(i)
           a == IF sn = p.highestStatus
                THEN [p EXCEPT !.highestStatus = FirstMissing(p, (@ + 1) % Mod)] ELSE p
           next == FirstMissing(a, a.next)
           q == Advanced(p, sn)
\* What a is.
<1>3. \E h2 \in n .. high :
         /\ a = [p EXCEPT !.highestStatus = SnOf(h2)]
         /\ h2 = high \/ ~Complete(p.window, SnOf(h2))
         /\ h2 # h => h = i
  <2>1. sn = p.highestStatus <=> h = i
    <3>1. SnOf(i) = SnOf(h) => i = h
      BY <1>1, <1>2, Apart, ModIs
    <3> QED BY <3>1
  <2>2. CASE h = i
    <3>1. (SnOf(h) + 1) % Mod = SnOf(h + 1)
      <4>1. h \in Int /\ 1 \in Int
        BY <1>2
      <4> QED BY <4>1, SnOfSum, Zenon
    <3>2. h + 1 \in Nat /\ n <= h + 1 /\ h + 1 <= high
      BY <1>1, <1>2, <2>2
    <3>3. PICK y \in h + 1 .. high :
             /\ FirstMissing(p, SnOf(h + 1)) = SnOf(y)
             /\ y = high \/ ~Complete(p.window, SnOf(y))
      BY <1>1, <3>2, FirstMissingIs
    <3>4. y \in n .. high
      BY <1>1, <3>2
    <3>5. a = [p EXCEPT !.highestStatus = SnOf(y)]
      BY <2>1, <2>2, <3>1, <3>3
    <3> HIDE DEF a
    <3> QED BY <2>2, <3>3, <3>4, <3>5
  <2>3. CASE h # i
    <3>1. a = [p EXCEPT !.highestStatus = SnOf(h)]
      BY <1>1, <2>1, <2>3 DEF RxTyped
    <3>2. h = high \/ ~Complete(p.window, SnOf(h))
      BY <2>3
    <3> HIDE DEF a
    <3> QED BY <2>3, <3>1, <3>2
  <2> QED BY <2>2, <2>3
<1>4. PICK h2 \in n .. high :
         /\ a = [p EXCEPT !.highestStatus = SnOf(h2)]
         /\ h2 = high \/ ~Complete(p.window, SnOf(h2))
         /\ h2 # h => h = i
  BY <1>3
<1> HIDE DEF a
<1>5. h2 \in Nat /\ n <= h2 /\ h2 <= high /\ SnOf(h2) \in Sn
  BY <1>1, SnOfType
<1>6. /\ RxTyped(a) /\ a.next = SnOf(n) /\ a.nextHighest = SnOf(high) /\ a.window = p.window
      /\ a.highestStatus = SnOf(h2) /\ a.trigger = p.trigger /\ a.reassembly = p.reassembly
  BY <1>1, <1>4, <1>5 DEF RxTyped
<1>7. q = IF sn # a.next THEN a
          ELSE [a EXCEPT !.window = WithoutSns(@, Between(a.next, next)), !.next = next]
  BY DEF Advanced, a
<1>8. sn = a.next <=> i = n
  <2>1. SnOf(i) = SnOf(n) => i = n
    BY <1>1, <1>2, Apart, ModIs
  <2> QED BY <1>6, <2>1
<1>9. RxWindow(a, n, high, size, begun)
  BY <1>1, <1>6 DEF RxWindow
<1> HIDE DEF q
<1>10. CASE i # n
  <2>1. q = a
    BY <1>7, <1>8, <1>10
  <2>2. StatusEdge(q, n, h2, high)
    BY <1>4, <1>5, <1>6, <2>1 DEF StatusEdge
  <2>3. n \in n .. high /\ n .. n - 1 = {}
    BY <1>1
  <2>4. { SnOf(j) : j \in n .. n - 1 } = {}
    BY <2>3
  <2>5. /\ RxWindow(q, n, high, size, begun)
        /\ StatusEdge(q, n, h2, high)
        /\ ~Complete(q.window, SnOf(n))
        /\ q.trigger = p.trigger /\ q.reassembly = p.reassembly
        /\ \A j \in n .. n - 1 : Complete(p.window, SnOf(j))
        /\ DOMAIN q.window = DOMAIN p.window \ { SnOf(j) : j \in n .. n - 1 }
        /\ \A s \in DOMAIN q.window : q.window[s] = p.window[s]
    BY <1>6, <1>9, <1>10, <2>1, <2>2, <2>3, <2>4
  <2> QED BY <2>3, <2>5 DEF q, AdvancedOk
<1>11. CASE i = n
  <2>1. PICK n2 \in n .. high :
           /\ next = SnOf(n2)
           /\ \A j \in n .. n2 - 1 : Complete(p.window, SnOf(j))
           /\ n2 = high \/ ~Complete(p.window, SnOf(n2))
    <3>1. \E y \in n .. high :
             /\ FirstMissing(a, SnOf(n)) = SnOf(y)
             /\ \A j \in n .. y - 1 : Complete(a.window, SnOf(j))
             /\ y = high \/ ~Complete(a.window, SnOf(y))
      BY <1>1, <1>6, FirstMissingIs
    <3> QED BY <1>6, <3>1
  <2>2. n2 \in Nat /\ n <= n2 /\ n2 <= high /\ SnOf(n2) \in Sn
    BY <1>1, SnOfType
  <2>3. q = [a EXCEPT !.window = WithoutSns(@, Between(a.next, next)), !.next = next]
    BY <1>7, <1>8, <1>11
  <2> HIDE DEF next
  <2> DEFINE gone == { SnOf(j) : j \in n .. n2 - 1 }
  <2>4. Between(a.next, next) = gone
    BY <1>1, <1>6, <2>1, <2>2, BetweenIs, ModIs
  <2> HIDE DEF gone
  <2>5. q = [a EXCEPT !.window = [s \in DOMAIN p.window \ gone |-> p.window[s]],
                      !.next = SnOf(n2)]
    BY <1>6, <2>1, <2>3, <2>4 DEF WithoutSns
  <2>6. /\ q.window = [s \in DOMAIN p.window \ gone |-> p.window[s]]
        /\ q.next = SnOf(n2) /\ q.nextHighest = SnOf(high) /\ q.highestStatus = SnOf(h2)
        /\ q.trigger = p.trigger /\ q.reassembly = p.reassembly
    BY <1>6, <2>5 DEF RxTyped
  <2>7. /\ DOMAIN q.window = DOMAIN p.window \ gone
        /\ \A s \in DOMAIN q.window : q.window[s] = p.window[s]
    BY <2>6
  <2>8. RxTyped(q)
    <3>1. q.window \in [DOMAIN q.window -> InfoType]
      BY <1>1, <2>6 DEF RxTyped
    <3> QED BY <1>6, <2>2, <2>5, <2>6, <3>1 DEF RxTyped
  <2>9. \A sn2 : Complete(q.window, sn2) => Complete(p.window, sn2)
    BY <2>7 DEF Complete, HasSn
  <2>10. ~Complete(q.window, SnOf(n2))
    <3>1. CASE n2 = high
      <4>1. SUFFICES ASSUME HasSn(p.window, SnOf(high)) PROVE FALSE
        BY <2>9, <3>1 DEF Complete
      <4>2. high < high
        BY <1>1, <4>1, RxWindowIs
      <4> QED BY <1>1, <4>2
    <3> QED BY <2>1, <2>9, <3>1
  <2>11. n2 <= h2
    <3> SUFFICES ASSUME n2 > h2 PROVE FALSE
      BY <1>5, <2>2
    <3>1. h2 \in n .. n2 - 1 /\ h2 # high
      BY <1>5, <2>2
    <3> QED BY <1>4, <2>1, <3>1
  <2>12. StatusEdge(q, n2, h2, high)
    BY <1>4, <1>5, <2>6, <2>9, <2>11 DEF StatusEdge
  <2>13. DOMAIN q.window \subseteq { SnOf(j) : j \in n2 .. high - 1 }
    <3> SUFFICES ASSUME NEW s \in DOMAIN q.window PROVE s \in { SnOf(j) : j \in n2 .. high - 1 }
      OBVIOUS
    <3>1. s \in DOMAIN p.window /\ s \notin gone
      BY <2>7
    <3>2. PICK j \in n .. high - 1 : s = SnOf(j)
      BY <3>1 DEF RxWindow
    <3>3. j \notin n .. n2 - 1
      BY <3>1, <3>2 DEF gone
    <3>4. j \in n2 .. high - 1
      BY <1>1, <2>2, <3>3
    <3> QED BY <3>2, <3>4
  <2>14. ASSUME NEW j \in n2 .. high - 1, HasSn(q.window, SnOf(j))
         PROVE  InfoOk(q.window[SnOf(j)], j + 1, size, begun)
    <3>1. HasSn(p.window, SnOf(j)) /\ q.window[SnOf(j)] = p.window[SnOf(j)]
      BY <2>7, <2>14 DEF HasSn
    <3>2. j \in n .. high - 1
      BY <1>1, <2>2
    <3> QED BY <3>1, <3>2 DEF RxWindow
  <2>15. high > n2 => HasSn(q.window, SnOf(high - 1))
    <3> SUFFICES ASSUME high > n2 PROVE HasSn(q.window, SnOf(high - 1))
      OBVIOUS
    <3>1. HasSn(p.window, SnOf(high - 1))
      BY <1>1, <2>2 DEF RxWindow
    <3>2. SnOf(high - 1) \notin gone
      <4> SUFFICES ASSUME NEW j \in n .. n2 - 1, SnOf(high - 1) = SnOf(j) PROVE FALSE
        BY DEF gone
      <4>1. high - 1 = j
        <5>1. /\ n2 \in Int /\ high - 1 \in Int /\ j \in Int /\ n \in Int
              /\ n <= high - 1 /\ high - 1 <= n + Window /\ n <= j /\ j <= n + Window
          BY <1>1, <2>2, ModIs
        <5> QED BY <5>1, Apart
      <4> QED BY <1>1, <2>2, <4>1
    <3> QED BY <2>7, <3>1, <3>2 DEF HasSn
  <2>16. RxWindow(q, n2, high, size, begun)
    <3>1. high <= n2 + Window /\ high <= Len(size)
      BY <1>1, <2>2, ModIs
    <3> QED BY <1>1, <2>2, <2>6, <2>8, <2>13, <2>14, <2>15, <3>1 DEF RxWindow
  <2>17. h2 \in n .. high
    OBVIOUS
  <2> QED BY <2>1, <2>6, <2>7, <2>10, <2>12, <2>16, <2>17 DEF q, gone, AdvancedOk
<1> QED BY <1>10, <1>11

\* Stopping and starting t-Reassembly keeps the window and sets the trigger right.
LEMMA ReassemblingIs ==
  ASSUME start \in Sn, NEW q, NEW n, NEW high, NEW size, NEW begun,
         RxWindow(q, n, high, size, begun),
         q.reassembly => \E i \in 1 .. high : /\ n < i + Window /\ q.trigger = SnOf(i)
                                              /\ i > n => HasSn(q.window, SnOf(i - 1))
  PROVE  LET r == Reassembling(q) IN
         /\ RxWindow(r, n, high, size, begun)
         /\ Triggered(r, n, high)
         /\ r.window = q.window /\ r.highestStatus = q.highestStatus
<1> DEFINE a == IF q.reassembly /\ StopReassembly(q)
                THEN [q EXCEPT !.reassembly = FALSE] ELSE q
           r == Reassembling(q)
<1>1. /\ n \in Nat /\ high \in Nat /\ n <= high /\ high <= Len(size) /\ high <= n + Window
      /\ q.next = SnOf(n) /\ q.nextHighest = SnOf(high) /\ RxTyped(q)
  BY DEF RxWindow
<1>2. r = IF ~a.reassembly /\ Waiting(a, a.next)
          THEN [a EXCEPT !.reassembly = TRUE, !.trigger = a.nextHighest] ELSE a
  BY DEF Reassembling
<1>3. /\ RxTyped(a) /\ a.window = q.window /\ a.next = SnOf(n) /\ a.nextHighest = SnOf(high)
      /\ a.highestStatus = q.highestStatus /\ a.trigger = q.trigger
      /\ a.reassembly => q.reassembly /\ ~StopReassembly(q)
  <2>1. CASE q.reassembly /\ StopReassembly(q)
    BY <1>1, <2>1 DEF RxTyped
  <2>2. CASE ~(q.reassembly /\ StopReassembly(q))
    BY <1>1, <2>2 DEF RxTyped
  <2> QED BY <2>1, <2>2
<1> HIDE DEF a
<1>4. Triggered(a, n, high)
  <2> SUFFICES ASSUME a.reassembly
               PROVE  \E i \in n + 1 .. high :
                         a.trigger = SnOf(i) /\ HasSn(a.window, SnOf(i - 1))
    BY DEF Triggered
  <2>1. PICK i \in 1 .. high : /\ n < i + Window /\ q.trigger = SnOf(i)
                               /\ i > n => HasSn(q.window, SnOf(i - 1))
    BY <1>3
  <2>2. q.trigger # q.next /\ InsideRx(q, q.trigger)
    BY <1>3 DEF StopReassembly
  <2>3. i # n
    BY <1>1, <2>1, <2>2
  <2>4. CASE i < n
    <3>1. i \in Int /\ n \in Int /\ n <= i + Mod
      BY <1>1, <2>1, ModIs
    <3>2. Above(SnOf(n), SnOf(i)) = (i - n) + Mod
      BY <2>4, <3>1, AboveDown
    <3>3. (i - n) + Mod < Window
      BY <1>1, <2>1, <2>2, <3>2 DEF InsideRx
    <3> QED BY <1>1, <2>1, <3>1, <3>3, ModIs
  <2>5. CASE i > n
    <3>1. i \in n + 1 .. high
      BY <1>1, <2>5
    <3> QED BY <1>3, <2>1, <2>5, <3>1
  <2> QED BY <1>1, <2>3, <2>4, <2>5
<1>5. Waiting(a, a.next) => high > n
  <2>1. Above(SnOf(n), SnOf(high)) = high - n
    BY <1>1, AboveUp, ModIs
  <2>2. Above(SnOf(n), SnOf(n) + 1) = (n + 1) - n
    BY <1>1, AboveNext, ModIs
  <2> QED BY <1>1, <1>3, <2>1, <2>2 DEF Waiting
<1> HIDE DEF r
<1>6. CASE ~a.reassembly /\ Waiting(a, a.next)
  <2>1. high > n
    BY <1>5, <1>6
  <2>2. high \in n + 1 .. high /\ HasSn(q.window, SnOf(high - 1)) /\ SnOf(high) \in Sn
    BY <1>1, <2>1, SnOfType DEF RxWindow
  <2>3. r = [a EXCEPT !.reassembly = TRUE, !.trigger = SnOf(high)]
    BY <1>2, <1>3, <1>6
  <2>4. /\ RxTyped(r) /\ r.window = q.window /\ r.next = SnOf(n) /\ r.nextHighest = SnOf(high)
        /\ r.highestStatus = q.highestStatus /\ r.trigger = SnOf(high)
    BY <1>3, <2>2, <2>3 DEF RxTyped
  <2>5. Triggered(r, n, high)
    BY <2>2, <2>4 DEF Triggered
  <2>6. RxWindow(r, n, high, size, begun)
    BY <1>1, <2>4 DEF RxWindow
  <2> QED BY <2>4, <2>5, <2>6 DEF r
<1>7. CASE ~(~a.reassembly /\ Waiting(a, a.next))
  <2>1. r = a
    BY <1>2, <1>7
  <2>2. RxWindow(a, n, high, size, begun)
    BY <1>1, <1>3 DEF RxWindow
  <2> QED BY <1>3, <1>4, <2>1, <2>2 DEF r
<1> QED BY <1>6, <1>7

\* The other SDUs of the window are as complete as before.
LEMMA StoredElsewhere ==
  ASSUME start \in Sn, NEW r, NEW n \in Nat, NEW begun, NEW pdu, NEW j \in Nat,
         StoredOk(r, pdu, begun), pdu.k \in Nat, pdu.sn = SnOf(pdu.k - 1),
         n <= pdu.k - 1, pdu.k - 1 <= n + Window, n <= j, j <= n + Window, j # pdu.k - 1
  PROVE  Complete(Stored(r.window, pdu), SnOf(j)) <=> Complete(r.window, SnOf(j))
<1>1. SnOf(j) # pdu.sn
  <2>1. pdu.k - 1 \in Int
    OBVIOUS
  <2> QED BY <2>1, Apart
<1> QED BY <1>1 DEF StoredOk, Complete, HasSn

\* What the handling of a data PDU leaves.
DeliveredOk(pdu, n, begun) ==
    \E n2 \in n .. Len(Sizes), h \in Nat, high \in Nat :
       /\ RxOk(rx', n2, h, high, Sizes, begun)
       /\ received' = Deliveries(rx'.window, n2)
       /\ \A j \in n .. n2 - 1 : begun[j + 1] = Sizes[j + 1]
       /\ \/ received' = received
          \/ pdu.k \in Sdus /\ received[pdu.k] = 0 /\ received' = [received EXCEPT ![pdu.k] = 1]

\* The receiver's handler of a data PDU keeps its invariant and delivers an SDU once.
LEMMA DataPduHandled ==
  ASSUME start \in Sn, NEW n, NEW h, NEW high, NEW begun, NEW pdu,
         SizesOk(Sizes, begun), RxOk(rx, n, h, high, Sizes, begun),
         received = Deliveries(rx.window, n), PduOk(pdu, Sizes, begun),
         pdu.k + Window > n, Len(Sizes) <= n + Window, Len(Sizes) <= Len(Length),
         Length \in Seq(Nat), HandleDataPdu(pdu)
  PROVE  DeliveredOk(pdu, n, begun)
<1> DEFINE k == pdu.k
           i == k - 1
           top == IF k > high THEN k ELSE high
           p == Placed(rx, pdu)
           new == InsideRx(rx, pdu.sn) /\ ~Complete(rx.window, pdu.sn)
           done == Complete(p.window, pdu.sn)
           after == IF ~new THEN rx
                    ELSE Reassembling(IF done THEN Advanced(p, pdu.sn) ELSE p)
<1>1. /\ RxWindow(rx, n, high, Sizes, begun) /\ ~Complete(rx.window, SnOf(n))
      /\ StatusEdge(rx, n, h, high) /\ Triggered(rx, n, high)
  BY DEF RxOk
<1>2. /\ n \in Nat /\ high \in Nat /\ n <= high /\ high <= Len(Sizes) /\ high <= n + Window
      /\ rx.next = SnOf(n) /\ rx.nextHighest = SnOf(high) /\ RxTyped(rx)
      /\ h \in Nat /\ n <= h /\ h <= high
  BY <1>1 DEF RxWindow, StatusEdge
<1>3. /\ k \in 1 .. Len(Sizes) /\ Len(Sizes) \in Nat /\ pdu.sn = SnOf(i) /\ pdu.sn \in Sn
      /\ pdu.poll \in BOOLEAN /\ k \in Nat /\ i \in Nat /\ i + 1 = k
  <2>1. k \in 1 .. Len(Sizes) /\ Len(Sizes) \in Nat /\ pdu.sn = SnOf(i) /\ pdu.sn \in Sn /\ pdu.poll \in BOOLEAN
    BY DEF PduOk, SizesOk
  <2> QED BY <2>1
<1>4. rx' = [after EXCEPT !.doStatus = @ \/ pdu.poll]
  BY DEF HandleDataPdu, Placed
<1>5. received' = IF new /\ done
                  THEN [l \in Sdus |-> received[l] + IF l \in p.window[pdu.sn].from THEN 1 ELSE 0]
                  ELSE received
  BY DEF HandleDataPdu, Placed
<1> HIDE DEF p, after
\* Setting the flag changes nothing.
<1>6. ASSUME NEW r, NEW n2, NEW h2, NEW high2, RxOk(r, n2, h2, high2, Sizes, begun), after = r
      PROVE  RxOk(rx', n2, h2, high2, Sizes, begun) /\ rx'.window = r.window
  <2>1. RxTyped(r)
    BY <1>6 DEF RxOk, RxWindow
  <2>2. /\ RxTyped(rx') /\ rx'.window = r.window /\ rx'.next = r.next
        /\ rx'.nextHighest = r.nextHighest /\ rx'.highestStatus = r.highestStatus
        /\ rx'.trigger = r.trigger /\ rx'.reassembly = r.reassembly
    <3> DEFINE d == r.doStatus \/ pdu.poll
    <3>1. d \in BOOLEAN
      OBVIOUS
    <3>2. rx' = [r EXCEPT !.doStatus = d]
      BY <1>4, <1>6
    <3> HIDE DEF d
    <3> QED BY <2>1, <3>1, <3>2 DEF RxTyped
  <2> QED BY <1>6, <2>2 DEF RxOk, RxWindow, StatusEdge, Triggered
<1>7. CASE ~new
  <2>1. after = rx
    BY <1>7 DEF after
  <2>2. RxOk(rx', n, h, high, Sizes, begun) /\ rx'.window = rx.window
    BY <1>6, <2>1
  <2>3. received' = received
    BY <1>5, <1>7
  <2>4. n \in n .. Len(Sizes) /\ n .. n - 1 = {}
    BY <1>2
  <2> QED BY <1>2, <2>2, <2>3, <2>4 DEF DeliveredOk
<1>8. CASE new
  <2>1. n <= i /\ i < n + Window
    <3>1. CASE i < n
      <4>1. n <= i + Mod /\ n \in Int /\ i \in Int
        BY <1>2, <1>3, ModIs
      <4>2. Above(SnOf(n), SnOf(i)) = (i - n) + Mod
        BY <3>1, <4>1, AboveDown
      <4>3. (i - n) + Mod < Window
        BY <1>2, <1>3, <1>8, <4>2 DEF InsideRx
      <4> QED BY <1>2, <1>3, <4>3, ModIs
    <3> QED BY <1>2, <1>3, <3>1, ModIs
  <2>2. /\ RxWindow(p, n, top, Sizes, begun)
        /\ p.highestStatus = rx.highestStatus /\ p.trigger = rx.trigger
        /\ p.reassembly = rx.reassembly
        /\ p.window = Stored(rx.window, pdu)
    <3>1. PlacedOk(rx, pdu, n, IF pdu.k > high THEN pdu.k ELSE high, begun)
      BY <1>1, <2>1, PlacedIs, Zenon
    <3> QED BY <3>1, Zenon DEF PlacedOk, p
  <2>3. StoredOk(rx, pdu, begun)
    BY <1>1, <2>1, StoredInfo, Zenon
  <2>4. top \in Nat /\ n <= top /\ high <= top /\ k <= top /\ top <= Len(Sizes) /\ top <= n + Window
    BY <1>2, <1>3, <2>1, ModIs
  <2> HIDE DEF top
  <2>5. \A j \in Nat : n <= j /\ j <= n + Window /\ j # i =>
           (Complete(p.window, SnOf(j)) <=> Complete(rx.window, SnOf(j)))
    <3> SUFFICES ASSUME NEW j \in Nat, n <= j, j <= n + Window, j # i
                 PROVE  Complete(p.window, SnOf(j)) <=> Complete(rx.window, SnOf(j))
      OBVIOUS
    <3>1. pdu.k \in Nat /\ pdu.k - 1 <= n + Window
      BY <1>2, <1>3, <2>1, ModIs
    <3> QED BY <1>2, <1>3, <2>1, <2>2, <2>3, <3>1, StoredElsewhere
  <2>6. ~Complete(rx.window, SnOf(i))
    BY <1>3, <1>8
  <2>7. h = i \/ h = top \/ ~Complete(p.window, SnOf(h))
    <3> SUFFICES ASSUME h # i, Complete(p.window, SnOf(h)) PROVE FALSE
      OBVIOUS
    <3>1. h <= n + Window
      BY <1>2, ModIs
    <3>2. Complete(rx.window, SnOf(h))
      BY <1>2, <2>5, <3>1
    <3>3. h = high
      BY <1>1, <3>2 DEF StatusEdge
    <3>4. HasSn(rx.window, SnOf(h))
      BY <3>2 DEF Complete
    <3>5. h < high
      BY <1>1, <1>2, <3>1, <3>4, RxWindowIs
    <3> QED BY <1>2, <3>3, <3>5
  <2>8. i # n => ~Complete(p.window, SnOf(n))
    <3>1. n <= n + Window
      BY <1>2, ModIs
    <3> QED BY <1>1, <1>2, <2>5, <3>1
  <2>9. \A sn : HasSn(rx.window, sn) => HasSn(p.window, sn)
    BY <2>2, <2>3 DEF StoredOk, HasSn
  <2>10. Triggered(p, n, top)
    <3> SUFFICES ASSUME p.reassembly
                 PROVE  \E j \in n + 1 .. top :
                           p.trigger = SnOf(j) /\ HasSn(p.window, SnOf(j - 1))
      BY DEF Triggered
    <3>1. PICK j \in n + 1 .. high : rx.trigger = SnOf(j) /\ HasSn(rx.window, SnOf(j - 1))
      BY <1>1, <2>2 DEF Triggered
    <3>2. j \in n + 1 .. top
      BY <1>2, <2>4
    <3> QED BY <2>2, <2>9, <3>1, <3>2
  <2>11. CASE ~done
    <3>1. after = Reassembling(p)
      BY <1>8, <2>11 DEF after
    <3>2. p.reassembly => \E j \in 1 .. top :
             /\ n < j + Window /\ p.trigger = SnOf(j)
             /\ j > n => HasSn(p.window, SnOf(j - 1))
      <4> SUFFICES ASSUME p.reassembly
                   PROVE  \E j \in 1 .. top :
                             /\ n < j + Window /\ p.trigger = SnOf(j)
                             /\ j > n => HasSn(p.window, SnOf(j - 1))
        OBVIOUS
      <4>1. PICK j \in n + 1 .. top : p.trigger = SnOf(j) /\ HasSn(p.window, SnOf(j - 1))
        BY <2>10 DEF Triggered
      <4>2. j \in 1 .. top /\ n < j + Window
        BY <1>2, <2>4, ModIs
      <4> QED BY <4>1, <4>2
    <3> DEFINE r == Reassembling(p)
    <3>3. /\ RxWindow(r, n, top, Sizes, begun)
          /\ Triggered(r, n, top)
          /\ r.window = p.window /\ r.highestStatus = p.highestStatus
      BY <2>2, <3>2, ReassemblingIs, Zenon
    <3> HIDE DEF r
    <3>4. ~Complete(r.window, SnOf(n))
      <4>1. ~Complete(p.window, SnOf(i))
        BY <1>3, <2>11
      <4> QED BY <2>8, <3>3, <4>1
    <3>5. StatusEdge(r, n, h, top)
      <4>1. ~Complete(p.window, SnOf(i))
        BY <1>3, <2>11
      <4>2. h <= top
        BY <1>2, <2>4
      <4>3. rx.highestStatus = SnOf(h)
        BY <1>1 DEF StatusEdge
      <4> QED BY <1>2, <2>2, <2>7, <3>3, <4>1, <4>2, <4>3 DEF StatusEdge
    <3>6. RxOk(r, n, h, top, Sizes, begun)
      BY <3>3, <3>4, <3>5 DEF RxOk
    <3>7. RxOk(rx', n, h, top, Sizes, begun) /\ rx'.window = p.window
      BY <1>6, <3>1, <3>3, <3>6 DEF r
    <3>8. received' = received
      BY <1>5, <2>11
    <3>9. Deliveries(p.window, n) = Deliveries(rx.window, n)
      <4> SUFFICES ASSUME NEW l \in Sdus, ~(l <= n), l <= n + Window
                   PROVE  Complete(p.window, SnOf(l - 1)) <=> Complete(rx.window, SnOf(l - 1))
        BY DEF Deliveries
      <4>1. l - 1 \in Nat /\ n <= l - 1 /\ l - 1 <= n + Window
        BY <1>2, ModIs DEF Sdus
      <4>2. CASE l - 1 = i
        BY <1>3, <2>6, <2>11, <4>2
      <4> QED BY <2>5, <4>1, <4>2
    <3>10. n \in n .. Len(Sizes) /\ n .. n - 1 = {}
      BY <1>2
    <3> QED BY <1>2, <2>4, <3>7, <3>8, <3>9, <3>10 DEF DeliveredOk
  <2>12. CASE done
    <3> DEFINE q == Advanced(p, SnOf(i))
    <3>1. i \in n .. top - 1 /\ h \in n .. top /\ p.highestStatus = SnOf(h)
      BY <1>1, <1>2, <1>3, <2>1, <2>2, <2>4 DEF StatusEdge
    <3>2. Complete(p.window, SnOf(i))
      BY <1>3, <2>12
    <3>3. AdvancedOk(p, i, n, top, Sizes, begun)
      BY <2>2, <2>7, <2>8, <3>1, <3>2, AdvancedIs, Zenon
    <3> HIDE DEF q
    <3>4. PICK n2 \in n .. top, h2 \in n .. top :
            /\ RxWindow(q, n2, top, Sizes, begun)
            /\ StatusEdge(q, n2, h2, top)
            /\ ~Complete(q.window, SnOf(n2))
            /\ q.trigger = p.trigger /\ q.reassembly = p.reassembly
            /\ \A j \in n .. n2 - 1 : Complete(p.window, SnOf(j))
            /\ DOMAIN q.window = DOMAIN p.window \ { SnOf(j) : j \in n .. n2 - 1 }
            /\ \A sn \in DOMAIN q.window : q.window[sn] = p.window[sn]
      BY <3>3 DEF AdvancedOk, q
    <3>5. n2 \in Nat /\ n <= n2 /\ n2 <= top /\ h2 \in Nat
      BY <1>2, <2>4
    <3>6. q.reassembly => \E j \in 1 .. top :
             /\ n2 < j + Window /\ q.trigger = SnOf(j)
             /\ j > n2 => HasSn(q.window, SnOf(j - 1))
      <4> SUFFICES ASSUME q.reassembly
                   PROVE  \E j \in 1 .. top :
                             /\ n2 < j + Window /\ q.trigger = SnOf(j)
                             /\ j > n2 => HasSn(q.window, SnOf(j - 1))
        OBVIOUS
      <4>1. PICK j \in n + 1 .. top : p.trigger = SnOf(j) /\ HasSn(p.window, SnOf(j - 1))
        BY <2>10, <3>4 DEF Triggered
      <4>2. j \in 1 .. top /\ n2 < j + Window
        BY <1>2, <2>4, <3>5, ModIs
      <4>3. ASSUME j > n2 PROVE SnOf(j - 1) \notin { SnOf(x) : x \in n .. n2 - 1 }
        <5> SUFFICES ASSUME NEW x \in n .. n2 - 1, SnOf(j - 1) = SnOf(x) PROVE FALSE
          OBVIOUS
        <5>1. /\ n \in Int /\ j - 1 \in Int /\ x \in Int /\ n <= j - 1 /\ j - 1 <= n + Window
              /\ n <= x /\ x <= n + Window
          BY <1>2, <2>4, <3>5, <4>3, ModIs
        <5>2. j - 1 = x
          BY <5>1, Apart
        <5> QED BY <3>5, <4>3, <5>2
      <4> QED BY <3>4, <4>1, <4>2, <4>3 DEF HasSn
    <3>7. after = Reassembling(q)
      BY <1>3, <1>8, <2>12 DEF after, q
    <3> DEFINE r == Reassembling(q)
    <3>8. /\ RxWindow(r, n2, top, Sizes, begun)
          /\ Triggered(r, n2, top)
          /\ r.window = q.window /\ r.highestStatus = q.highestStatus
      BY <3>4, <3>6, ReassemblingIs, Zenon
    <3> HIDE DEF r
    <3>9. RxOk(r, n2, h2, top, Sizes, begun)
      BY <3>4, <3>8 DEF RxOk, StatusEdge
    <3>10. RxOk(rx', n2, h2, top, Sizes, begun) /\ rx'.window = q.window
      BY <1>6, <3>7, <3>8, <3>9 DEF r
    <3>11. p.window[pdu.sn].from = {k}
      BY <2>2, <2>3 DEF StoredOk, InfoOk
    <3>12. k \in Sdus
      BY <1>3 DEF Sdus
    <3>13. \A l \in Sdus : l \in Nat /\ received[l] =
              IF l <= n \/ (l <= n + Window /\ Complete(rx.window, SnOf(l - 1))) THEN 1 ELSE 0
      BY DEF Deliveries, Sdus
    <3>14. received[k] = 0
      <4>1. ~(k <= n) /\ k - 1 = i
        BY <1>2, <1>3, <2>1
      <4> QED BY <2>6, <3>12, <3>13, <4>1
    <3>15. received' = [l \in Sdus |-> IF l = k THEN 1 ELSE received[l]]
      <4>1. received' = [l \in Sdus |-> received[l] + IF l = k THEN 1 ELSE 0]
        BY <1>5, <1>8, <2>12, <3>11
      <4>2. \A l \in Sdus : received[l] + (IF l = k THEN 1 ELSE 0) = IF l = k THEN 1 ELSE received[l]
        BY <3>13, <3>14
      <4> QED BY <4>1, <4>2
    <3>16. received' = [received EXCEPT ![k] = 1]
      BY <3>15 DEF Deliveries
    <3>17. ASSUME NEW l \in Sdus
           PROVE  (l <= n2 \/ (l <= n2 + Window /\ Complete(q.window, SnOf(l - 1))))
                  <=> (l = k \/ l <= n \/ (l <= n + Window /\ Complete(rx.window, SnOf(l - 1))))
      <4>0. l \in Nat /\ l >= 1
        BY DEF Sdus
      <4>1. CASE l <= n
        BY <1>2, <3>5, <4>0, <4>1
      <4>2. CASE n < l /\ l <= n2
        <5>1. l - 1 \in n .. n2 - 1 /\ l - 1 \in Nat /\ n <= l - 1 /\ l - 1 <= n + Window /\ l <= n + Window
          <6>0. n2 <= n + Window
            BY <1>2, <2>4, <3>5, ModIs
          <6>1. l <= n + Window
            BY <1>2, <3>5, <4>0, <4>2, <6>0, ModIs
          <6>2. n <= l - 1 /\ l - 1 \in Nat /\ l - 1 <= n2 - 1
            BY <1>2, <3>5, <4>0, <4>2
          <6>3. l - 1 \in n .. n2 - 1
            BY <1>2, <3>5, <6>2
          <6>4. l - 1 <= n + Window
            BY <1>2, <4>0, <6>1, ModIs
          <6> QED BY <6>1, <6>2, <6>3, <6>4
        <5>2. Complete(p.window, SnOf(l - 1))
          BY <3>4, <5>1
        <5>3. l - 1 = i => l = k
          BY <1>3, <4>0
        <5> QED BY <2>5, <4>2, <5>1, <5>2, <5>3
      <4>3. CASE n2 < l /\ l <= n + Window
        <5>1. l - 1 \in Nat /\ n <= l - 1 /\ l - 1 <= n + Window /\ ~(l <= n2) /\ ~(l <= n) /\ l <= n2 + Window
          BY <1>2, <3>5, <4>0, <4>3, ModIs
        <5>2. SnOf(l - 1) \notin { SnOf(x) : x \in n .. n2 - 1 }
          <6> SUFFICES ASSUME NEW x \in n .. n2 - 1, SnOf(l - 1) = SnOf(x) PROVE FALSE
            OBVIOUS
          <6>1. /\ n \in Int /\ l - 1 \in Int /\ x \in Int /\ n <= x /\ x <= n + Window
            BY <1>2, <2>4, <3>5, <5>1, ModIs
          <6>2. l - 1 = x
            BY <5>1, <6>1, Apart
          <6> QED BY <3>5, <4>0, <4>3, <6>2
        <5>3. Complete(q.window, SnOf(l - 1)) <=> Complete(p.window, SnOf(l - 1))
          BY <3>4, <5>2 DEF Complete, HasSn
        <5>4. l - 1 = i <=> l = k
          BY <1>3, <4>0
        <5> QED BY <2>5, <3>2, <4>3, <5>1, <5>3, <5>4
      <4>4. CASE l > n + Window
        <5>1. l # k /\ ~(l <= n) /\ ~(l <= n2) /\ ~(l <= n + Window)
          BY <1>2, <1>3, <2>1, <2>4, <3>5, <4>0, <4>4, ModIs
        <5>2. ASSUME l <= n2 + Window, HasSn(q.window, SnOf(l - 1)) PROVE FALSE
          <6>1. l - 1 \in Nat /\ n2 <= l - 1 /\ l - 1 <= n2 + Window
            BY <3>5, <4>0, <5>1, <5>2, ModIs
          <6>2. l - 1 < top
            BY <3>4, <5>2, <6>1, RxWindowIs
          <6> QED BY <1>2, <2>4, <4>0, <4>4, <6>2, ModIs
        <5> QED BY <5>1, <5>2 DEF Complete
      <4> QED BY <1>2, <3>5, <4>0, <4>1, <4>2, <4>3, <4>4, ModIs
    <3>18. received' = Deliveries(q.window, n2)
      <4>1. \A l \in Sdus : (IF l = k THEN 1 ELSE received[l]) =
               IF l <= n2 \/ (l <= n2 + Window /\ Complete(q.window, SnOf(l - 1))) THEN 1 ELSE 0
        BY <3>13, <3>17
      <4> QED BY <3>15, <4>1 DEF Deliveries
    <3>19. n2 \in n .. Len(Sizes)
      BY <1>2, <1>3, <2>4, <3>5
    <3>20. ASSUME NEW j \in n .. n2 - 1 PROVE begun[j + 1] = Sizes[j + 1]
      <4>1. j \in n .. top - 1 /\ j + 1 \in 1 .. Len(Sizes)
        BY <1>2, <1>3, <2>4, <3>5
      <4>2. HasSn(p.window, SnOf(j)) /\ p.window[SnOf(j)].last
        BY <3>4 DEF Complete, FullyReceived
      <4>3. InfoOk(p.window[SnOf(j)], j + 1, Sizes, begun)
        BY <2>2, <4>1, <4>2 DEF RxWindow
      <4>4. Sizes[j + 1] - 1 \in 0 .. begun[j + 1] - 1
        BY <4>2, <4>3 DEF InfoOk
      <4>5. begun[j + 1] \in Nat /\ Sizes[j + 1] \in Nat /\ begun[j + 1] <= Sizes[j + 1]
        BY <4>1, SizesAt
      <4> QED BY <4>4, <4>5
    <3> QED BY <2>4, <3>5, <3>10, <3>12, <3>14, <3>16, <3>18, <3>19, <3>20, Zenon DEF DeliveredOk
  <2> QED BY <2>11, <2>12
<1> QED BY <1>7, <1>8

--------------------------------------------------------------------------------
(* The receiving entity: STATUS PDUs.                                         *)

PushFold(q, g) ==
    g = [s \in SUBSET (DOMAIN q) |->
            IF s = {} THEN <<>> ELSE PushNack(g[s \ {Max(s)}], q[Max(s)])]

\* The fold over the nacks, as the function the library chooses.
LEMMA PushedIs ==
  ASSUME NEW q
  PROVE  FoldLeft(PushNack, <<>>, q) = (CHOOSE g : PushFold(q, g))[DOMAIN q]
BY Zenon DEF FoldLeft, MapThenFoldSet, PushFold

\* A nack merged into the last one.
Merged(p, q, nack) ==
    LET l == Len(q) IN
    /\ l \in Nat /\ l >= 1 /\ Len(p) = l /\ CanBeMerged(q[l], nack)
    /\ \A j \in 1 .. l - 1 : p[j] = q[j]
    /\ p[l].sn = q[l].sn /\ p[l].from = q[l].from /\ p[l].to = nack.to
    /\ p[l].range = q[l].range + nack.range

PushNackOk(p, q, nack) ==
    p \in Seq(NackType) /\ (p = Append(q, nack) \/ Merged(p, q, nack))

\* Adding a nack to a report either merges it with the last one or appends it.
LEMMA PushNackIs ==
  ASSUME NEW q \in Seq(NackType), NEW nack \in NackType
  PROVE  PushNackOk(PushNack(q, nack), q, nack)
<1> DEFINE p == PushNack(q, nack)
           l == Len(q)
           e == [q[l] EXCEPT !.range = @ + nack.range, !.to = nack.to]
<1>1. CASE q # <<>> /\ CanBeMerged(q[l], nack)
  <2>1. l \in Nat /\ l >= 1 /\ q[l] \in NackType
    BY <1>1
  <2>2. p = Append(Front(q), e)
    BY <1>1 DEF PushNack, Last
  <2>3. /\ e \in NackType /\ e.sn = q[l].sn /\ e.from = q[l].from /\ e.to = nack.to
        /\ e.range = q[l].range + nack.range
    <3> DEFINE x == q[l]
    <3>1. x \in NackType
      BY <2>1
    <3> HIDE DEF x
    <3>2. x.range + nack.range \in Nat \ {0}
      BY <3>1 DEF NackType
    <3>3. LET y == [x EXCEPT !.range = @ + nack.range, !.to = nack.to]
          IN  /\ y \in NackType /\ y.sn = x.sn /\ y.from = x.from /\ y.to = nack.to
              /\ y.range = x.range + nack.range
      BY <3>1, <3>2 DEF NackType
    <3> QED BY <3>3 DEF x
  <2> HIDE DEF e
  <2>4. Front(q) \in Seq(NackType) /\ Len(Front(q)) = l - 1 /\ \A j \in 1 .. l - 1 : Front(q)[j] = q[j]
    <3>1. Front(q) = SubSeq(q, 1, l - 1)
      BY DEF Front
    <3> DEFINE f == SubSeq(q, 1, l - 1)
    <3>2. 1 \in Nat /\ l - 1 \in Nat /\ 1 <= 1 /\ 1 <= (l - 1) + 1 /\ l - 1 <= Len(q)
      BY <2>1
    <3>3. /\ f \in Seq(NackType) /\ Len(f) = (l - 1) - 1 + 1
          /\ \A i \in 1 .. (l - 1) - 1 + 1 : f[i] = q[1 + i - 1]
      BY <3>2, SubSeqIs, Zenon
    <3> HIDE DEF f
    <3>4. (l - 1) - 1 + 1 = l - 1
      BY <2>1
    <3>5. \A j \in 1 .. l - 1 : f[j] = q[j]
      <4> SUFFICES ASSUME NEW j \in 1 .. l - 1 PROVE f[j] = q[j]
        OBVIOUS
      <4>1. 1 + j - 1 = j
        OBVIOUS
      <4> QED BY <3>3, <3>4, <4>1
    <3> QED BY <3>1, <3>3, <3>4, <3>5 DEF f
  <2>5. /\ p \in Seq(NackType) /\ Len(p) = l /\ p[l] = e
        /\ \A j \in 1 .. l - 1 : p[j] = q[j]
    <3> HIDE DEF p, l
    <3> DEFINE f == Front(q)
    <3>1. f \in Seq(NackType) /\ Len(f) = l - 1 /\ \A j \in 1 .. l - 1 : f[j] = q[j]
      BY <2>4
    <3> HIDE DEF f
    <3>2. p = Append(f, e)
      BY <2>2 DEF f
    <3>3. p \in Seq(NackType) /\ Len(p) = l /\ p[l] = e
      BY <2>1, <2>3, <3>1, <3>2
    <3>4. \A j \in 1 .. l - 1 : p[j] = f[j]
      BY <2>1, <2>3, <3>1, <3>2
    <3> QED BY <3>1, <3>3, <3>4
  <2> HIDE DEF p
  <2>6. Merged(p, q, nack)
    BY <1>1, <2>1, <2>3, <2>5 DEF Merged
  <2> QED BY <2>5, <2>6 DEF p, PushNackOk
<1>2. CASE ~(q # <<>> /\ CanBeMerged(q[l], nack))
  <2>1. p = Append(q, nack)
    BY <1>2 DEF PushNack, Last
  <2> QED BY <2>1 DEF PushNackOk
<1> QED BY <1>1, <1>2

\* The fold over the nacks, step by step.
LEMMA PushSteps ==
  ASSUME NEW q \in Seq(NackType)
  PROVE  \E h : /\ FoldLeft(PushNack, <<>>, q) = h[Len(q)]
                /\ h[0] = <<>>
                /\ \A m \in 1 .. Len(q) : h[m] = PushNack(h[m - 1], q[m])
<1> DEFINE n == Len(q)
           V == Seq(NackType)
           op == [x \in (1..n) \X V |-> PushNack(x[2], q[x[1]])]
<1>1. n \in Nat /\ DOMAIN q = 1..n /\ <<>> \in V
  OBVIOUS
<1>2. \A x \in 1..n, v \in V : PushNack(v, q[x]) \in V
  <2> SUFFICES ASSUME NEW x \in 1..n, NEW v \in V PROVE PushNack(v, q[x]) \in V
    OBVIOUS
  <2>1. q[x] \in NackType
    OBVIOUS
  <2> QED BY <2>1, PushNackIs DEF PushNackOk
<1>3. op \in [(1..n) \X V -> V]
  BY <1>2
<1>4. \A x \in 1..n, v \in V : op[<<x, v>>] = PushNack(v, q[x])
  OBVIOUS
<1> HIDE DEF n, V, op
<1>5. PICK g \in [SUBSET (1..n) -> V] : \A s \in SUBSET (1..n) :
          g[s] = IF s = {} THEN <<>> ELSE op[<<Max(s), g[s \ {Max(s)}]>>]
  <2>1. \E g \in [SUBSET (1..n) -> V] : Folds(g, n, <<>>, op)
    BY <1>1, <1>3, FoldExists, Zenon
  <2> QED BY <2>1 DEF Folds
<1>6. PushFold(q, g)
  <2>1. ASSUME NEW s \in SUBSET (1..n)
        PROVE  g[s] = IF s = {} THEN <<>> ELSE PushNack(g[s \ {Max(s)}], q[Max(s)])
    <3>1. CASE s = {}
      BY <1>5, <3>1
    <3>2. CASE s # {}
      <4>1. s \in SUBSET Nat /\ \A x \in s : x <= n
        BY <1>1
      <4>2. Max(s) \in 1..n
        BY <1>1, <3>2, <4>1, MaxIs
      <4>3. g[s \ {Max(s)}] \in V
        BY <1>5
      <4> QED BY <1>4, <1>5, <3>2, <4>2, <4>3
    <3> QED BY <3>1, <3>2
  <2> QED BY <1>1, <1>5, <2>1 DEF PushFold
<1> DEFINE c == CHOOSE c : PushFold(q, c)
<1>7. PushFold(q, c)
  BY <1>6
<1> HIDE DEF c
<1> DEFINE h == [m \in 0..n |-> c[1..m]]
<1>8. FoldLeft(PushNack, <<>>, q) = h[n]
  BY <1>1, PushedIs DEF c
<1>9. h[0] = <<>>
  <2>1. 1..0 = {} /\ {} \in SUBSET (1..n) /\ 0 \in 0..n
    BY <1>1
  <2> QED BY <1>1, <1>7, <2>1 DEF PushFold
<1>10. ASSUME NEW m \in 1..n PROVE h[m] = PushNack(h[m - 1], q[m])
  <2>1. 1..m \in SUBSET (1..n) /\ 1..m # {} /\ Max(1..m) = m /\ (1..m) \ {m} = 1 .. m - 1
    BY <1>1, Prefix
  <2>2. m \in 0..n /\ m - 1 \in 0..n
    BY <1>1
  <2>3. c[1..m] = PushNack(c[1 .. m - 1], q[m])
    BY <1>1, <1>7, <2>1 DEF PushFold
  <2> QED BY <2>2, <2>3
<1> HIDE DEF h
<1> QED BY <1>8, <1>9, <1>10 DEF n

\* What the merged nacks are, if the single ones are in order.
PushedOk(q, r, n, m, size, begun) ==
    /\ r \in Seq(NackType)
    /\ q = <<>> => r = <<>>
    /\ q # <<>> => r # <<>> /\ r[1].sn = SnOf(n)
    /\ \A j \in 1 .. Len(r) : \E i \in n .. m - 1 : NackOk(r[j], i, size, begun)
    /\ \A j \in 1 .. Len(r) - 1 :
          Above(SnOf(n), r[j].sn) + r[j].range - 1 <= Above(SnOf(n), r[j + 1].sn)

\* Nacks in order, merged one by one, are a report's nacks in order.
LEMMA AllPushed ==
  ASSUME start \in Sn, NEW n \in Nat, NEW m \in Nat, NEW size, NEW begun,
         SizesOk(size, begun), m <= n + Window, m <= Len(size),
         NEW q \in Seq(NackType),
         \A j \in 1 .. Len(q) : q[j].range = 1 /\ \E i \in n .. m - 1 : NackOk(q[j], i, size, begun),
         \A x \in 1 .. Len(q), y \in 1 .. Len(q) : x < y =>
            Above(SnOf(n), q[x].sn) <= Above(SnOf(n), q[y].sn),
         q # <<>> => q[1].sn = SnOf(n)
  PROVE  PushedOk(q, FoldLeft(PushNack, <<>>, q), n, m, size, begun)
<1>1. PICK h : /\ FoldLeft(PushNack, <<>>, q) = h[Len(q)]
               /\ h[0] = <<>>
               /\ \A x \in 1 .. Len(q) : h[x] = PushNack(h[x - 1], q[x])
  BY PushSteps
<1> DEFINE Idx(e) == Above(SnOf(n), e.sn)
           At(e, i) == i \in n .. m - 1 /\ NackOk(e, i, size, begun)
           Good(r, x) ==
              /\ r \in Seq(NackType)
              /\ \A j \in 1 .. Len(r) : \E i : At(r[j], i)
              /\ \A j \in 1 .. Len(r) - 1 : Idx(r[j]) + r[j].range - 1 <= Idx(r[j + 1])
              /\ x = 0 => r = <<>>
              /\ x # 0 => /\ r # <<>> /\ r[1].sn = SnOf(n)
                          /\ Idx(r[Len(r)]) + r[Len(r)].range - 1 = Idx(q[x])
           Q == { x \in Nat : x <= Len(q) => Good(h[x], x) }
<1>0. Len(q) \in Nat /\ Len(size) \in Nat
  BY DEF SizesOk
<1>2. \A e, i : At(e, i) => /\ Idx(e) = i - n /\ e.sn = SnOf(i)
                            /\ i \in Nat /\ n <= i /\ i < m
  <2> SUFFICES ASSUME NEW e, NEW i, At(e, i)
               PROVE  Idx(e) = i - n /\ e.sn = SnOf(i) /\ i \in Nat /\ n <= i /\ i < m
    OBVIOUS
  <2>1. i \in Nat /\ n <= i /\ i < m /\ e.sn = SnOf(i)
    BY DEF NackOk
  <2>2. i < n + Mod
    BY <2>1, ModIs
  <2>3. Above(SnOf(n), SnOf(i)) = i - n
    BY <2>1, <2>2, AboveUp
  <2> QED BY <2>1, <2>3
<1> HIDE DEF Idx
<1>3. 0 \in Q
  <2>1. Good(<<>>, 0)
    OBVIOUS
  <2> QED BY <1>1, <2>1
<1>4. ASSUME NEW x \in Q PROVE x + 1 \in Q
  <2> DEFINE y == x + 1
             old == h[x]
             e == q[y]
             p == h[y]
             l == Len(old)
  <2> SUFFICES ASSUME y <= Len(q) PROVE Good(p, y)
    OBVIOUS
  <2>1. x \in Nat /\ Good(old, x) /\ y \in 1 .. Len(q) /\ y # 0 /\ y - 1 = x
    <3>1. x \in Nat /\ (x <= Len(q) => Good(old, x))
      <4> HIDE DEF Good, old
      <4> QED BY DEF old
    <3> HIDE DEF Good, old
    <3> QED BY <1>0, <3>1
  <2>2. p = PushNack(old, e) /\ e \in NackType /\ e.range = 1
    BY <1>1, <2>1
  <2>3. PICK j2 : At(e, j2)
    BY <2>1
  <2>4. old \in Seq(NackType) /\ l \in Nat
    BY <2>1
  <2>5. p \in Seq(NackType) /\ (p = Append(old, e) \/ Merged(p, old, e))
    <3>1. PushNackOk(PushNack(old, e), old, e)
      BY <2>2, <2>4, PushNackIs, Zenon
    <3> QED BY <2>2, <3>1 DEF PushNackOk
  <2>6. /\ \A j \in 1..l : \E i : At(old[j], i)
        /\ \A j \in 1 .. l - 1 : Idx(old[j]) + old[j].range - 1 <= Idx(old[j + 1])
        /\ x = 0 => old = <<>>
        /\ x # 0 => old # <<>> /\ old[1].sn = SnOf(n) /\ Idx(old[l]) + old[l].range - 1 = Idx(q[x])
    BY <2>1
  <2>7. x # 0 => Idx(q[x]) <= Idx(e)
    <3> SUFFICES ASSUME x # 0 PROVE Idx(q[x]) <= Idx(e)
      OBVIOUS
    <3>1. x \in 1 .. Len(q) /\ x < y
      BY <1>0, <2>1
    <3> QED BY <2>1, <3>1 DEF Idx
  <2>8. x = 0 => e.sn = SnOf(n)
    <3> SUFFICES ASSUME x = 0 PROVE e.sn = SnOf(n)
      OBVIOUS
    <3>1. y = 1 /\ q # <<>>
      BY <2>1
    <3> QED BY <3>1
  <2> HIDE DEF e, p, old, At, Q
  <2>9. CASE p = Append(old, e)
    <3>1. Len(p) = l + 1 /\ p[l + 1] = e /\ \A j \in 1..l : p[j] = old[j]
      BY <2>2, <2>4, <2>9
    <3> HIDE DEF l, y
    <3>2. \A j \in 1 .. Len(p) : \E i : At(p[j], i)
      <4> SUFFICES ASSUME NEW j \in 1 .. l + 1 PROVE \E i : At(p[j], i)
        BY <3>1
      <4>1. j = l + 1 \/ j \in 1..l
        BY <2>4
      <4> QED BY <2>3, <2>6, <3>1, <4>1
    <3>3. ASSUME NEW j \in 1 .. Len(p) - 1
          PROVE  Idx(p[j]) + p[j].range - 1 <= Idx(p[j + 1])
      <4>1. j \in 1..l
        BY <2>4, <3>1
      <4>2. CASE j = l
        <5>1. x # 0
          BY <2>4, <2>6, <4>1 DEF l
        <5>2. Idx(old[l]) + old[l].range - 1 = Idx(q[x]) /\ Idx(q[x]) <= Idx(e)
          BY <2>6, <2>7, <5>1
        <5> QED BY <3>1, <4>1, <4>2, <5>2
      <4>3. CASE j # l
        <5>1. j \in 1 .. l - 1 /\ j + 1 \in 1..l
          BY <2>4, <4>1, <4>3
        <5> QED BY <2>6, <3>1, <4>1, <5>1
      <4> QED BY <4>2, <4>3
    <3>4. p # <<>> /\ p[1].sn = SnOf(n)
      <4>1. CASE x = 0
        <5>1. l = 0
          BY <2>6, <4>1 DEF l
        <5>2. p[1] = e /\ Len(p) = 1
          BY <3>1, <5>1
        <5>3. p # <<>>
          <6> SUFFICES ASSUME p = <<>> PROVE FALSE
            OBVIOUS
          <6>1. Len(<<>>) = 0
            OBVIOUS
          <6> QED BY <5>2, <6>1
        <5>4. p[1].sn = SnOf(n)
          BY <2>8, <4>1, <5>2
        <5> QED BY <5>3, <5>4
      <4>2. CASE x # 0
        <5>1. old # <<>> /\ old[1].sn = SnOf(n)
          BY <2>6, <4>2
        <5>2. 1 \in 1..l
          BY <2>4, <5>1 DEF l
        <5> QED BY <2>4, <3>1, <5>1, <5>2
      <4> QED BY <4>1, <4>2
    <3>5. Idx(p[Len(p)]) + p[Len(p)].range - 1 = Idx(e)
      <4>1. p[Len(p)] = e
        BY <3>1
      <4>2. Idx(e) \in Int
        BY <1>2, <2>3
      <4> QED BY <2>2, <4>1, <4>2
    <3> QED BY <2>1, <2>5, <3>2, <3>3, <3>4, <3>5 DEF y, e
  <2>10. ASSUME Merged(p, old, e) PROVE Good(p, y)
    <3>0. /\ l \in Nat /\ l >= 1 /\ Len(p) = l /\ CanBeMerged(old[l], e)
          /\ \A j \in 1 .. l - 1 : p[j] = old[j]
          /\ p[l].sn = old[l].sn /\ p[l].from = old[l].from /\ p[l].to = e.to
          /\ p[l].range = old[l].range + e.range
      BY <2>10 DEF Merged
    <3>1. l \in 1..l /\ old # <<>>
      BY <3>0 DEF l
    <3>2. x # 0
      BY <2>6, <3>1
    <3>3. Idx(old[l]) + old[l].range - 1 = Idx(q[x]) /\ Idx(q[x]) <= Idx(e) /\ old[1].sn = SnOf(n)
      BY <2>6, <2>7, <3>2
    <3>4. PICK i : At(old[l], i)
      BY <2>6, <3>1
    <3>5. /\ Idx(old[l]) = i - n /\ old[l].sn = SnOf(i) /\ i \in Nat /\ n <= i /\ i < m
          /\ Idx(e) = j2 - n /\ e.sn = SnOf(j2) /\ j2 \in Nat /\ n <= j2 /\ j2 < m
      BY <1>2, <2>3, <3>4
    <3>6. old[l] \in NackType
      <4> HIDE DEF l
      <4> QED BY <2>4, <3>1 DEF l
    <3>7. old[l].range \in Nat \ {0} /\ e.range \in Nat
      BY <2>2, <3>6 DEF NackType
    <3>8. i + old[l].range <= j2 + 1
      BY <3>3, <3>5, <3>7
    <3>9. SnOf(j2) = SnOf(i + old[l].range)
      <4>1. i \in Int /\ old[l].range \in Int
        BY <3>5, <3>7
      <4>2. (SnOf(i) + old[l].range) % Mod = SnOf(i + old[l].range)
        BY <4>1, SnOfSum, Zenon
      <4> QED BY <3>0, <3>5, <4>2 DEF CanBeMerged
    <3>10. j2 = i + old[l].range
      <4> DEFINE rr == old[l].range
                 z == i + rr
      <4>0. rr \in Nat /\ i + rr <= j2 + 1
        BY <3>7, <3>8
      <4> HIDE DEF rr
      <4>1. /\ z \in Int /\ n <= z /\ z <= n + Window /\ j2 \in Int /\ n <= j2 /\ j2 <= n + Window
            /\ n \in Int
        BY <3>5, <4>0, ModIs
      <4> HIDE DEF z
      <4>2. SnOf(j2) = SnOf(z)
        BY <3>9 DEF z, rr
      <4>3. j2 = z
        BY <4>1, <4>2, Apart
      <4> QED BY <4>3 DEF z, rr
    <3>11. At(p[l], i)
      <4>1. NackOk(old[l], i, size, begun) /\ NackOk(e, j2, size, begun) /\ i \in n .. m - 1
        BY <2>3, <3>4 DEF At
      <4>2. p[l].range = (j2 - i) + 1 /\ i + p[l].range = j2 + 1 /\ p[l].range > 1
        <5> DEFINE rr == old[l].range
                   pr == p[l].range
        <5>1. rr \in Nat \ {0} /\ pr = rr + 1 /\ j2 = i + rr /\ i \in Nat /\ j2 \in Nat
          BY <2>2, <3>0, <3>5, <3>7, <3>10
        <5> HIDE DEF rr, pr
        <5>2. pr = (j2 - i) + 1 /\ i + pr = j2 + 1 /\ pr > 1
          BY <5>1
        <5> QED BY <5>2 DEF pr
      <4>3. j2 + 1 <= Len(size)
        BY <2>2, <4>1 DEF NackOk
      <4>4. old[l].to = EndOfSdu /\ e.from = 0
        BY <3>0 DEF CanBeMerged
      <4>5. p[l].to = EndOfSdu => j2 + 1 < Len(size)
        BY <2>2, <3>0, <4>1, <4>4 DEF NackOk
      <4>6. p[l].to # EndOfSdu => p[l].to < begun[j2 + 1]
        BY <2>2, <3>0, <4>1 DEF NackOk
      <4>7. p[l].sn = SnOf(i) /\ p[l].from < size[i + 1]
        BY <3>0, <3>5, <4>1 DEF NackOk
      <4> QED BY <4>1, <4>2, <4>3, <4>5, <4>6, <4>7 DEF At, NackOk
    <3> HIDE DEF l, y
    <3>12. ASSUME NEW j \in 1 .. Len(p) PROVE \E i2 : At(p[j], i2)
      <4>1. j = l \/ j \in 1 .. l - 1
        BY <3>0
      <4>2. j \in 1 .. l - 1 => j \in 1..l
        BY <3>0
      <4> QED BY <2>6, <3>0, <3>11, <4>1, <4>2
    <3>13. ASSUME NEW j \in 1 .. Len(p) - 1
           PROVE  Idx(p[j]) + p[j].range - 1 <= Idx(p[j + 1])
      <4>1. j \in 1 .. l - 1 /\ p[j] = old[j] /\ (j + 1 = l \/ j + 1 \in 1 .. l - 1)
        BY <3>0
      <4>2. p[j + 1].sn = old[j + 1].sn
        BY <3>0, <4>1
      <4>3. Idx(p[j + 1]) = Idx(old[j + 1])
        BY <4>2 DEF Idx
      <4> QED BY <2>6, <4>1, <4>3
    <3>14. p # <<>> /\ p[1].sn = SnOf(n)
      <4>1. 1 = l \/ 1 \in 1 .. l - 1
        BY <3>0
      <4>2. p[1].sn = old[1].sn
        BY <3>0, <4>1
      <4> QED BY <3>0, <3>3, <4>2
    <3>15. Idx(p[Len(p)]) + p[Len(p)].range - 1 = Idx(e)
      <4>1. Idx(p[l]) = i - n
        BY <1>2, <3>11
      <4>2. p[l].range = old[l].range + 1
        BY <2>2, <3>0
      <4> DEFINE rr == old[l].range
                 pr == p[l].range
                 pi == Idx(p[l])
                 ei == Idx(e)
      <4>3. /\ rr \in Nat /\ pr = rr + 1 /\ j2 = i + rr /\ pi = i - n /\ ei = j2 - n
            /\ i \in Nat /\ j2 \in Nat
        BY <3>5, <3>7, <3>10, <4>1, <4>2
      <4>4. Idx(p[Len(p)]) = pi /\ p[Len(p)].range = pr
        BY <3>0
      <4> HIDE DEF rr, pr, pi, ei
      <4>5. pi + pr - 1 = ei
        BY <4>3
      <4> QED BY <4>4, <4>5 DEF ei
    <3> QED BY <2>1, <2>5, <3>12, <3>13, <3>14, <3>15 DEF y, e
  <2> QED BY <2>5, <2>9, <2>10
<1> HIDE DEF Q
<1>5. Len(q) \in Q
  BY <1>0, <1>3, <1>4, CountUp
<1> DEFINE r == h[Len(q)]
<1>6. Good(r, Len(q))
  <2> HIDE DEF Good, r
  <2> QED BY <1>0, <1>5 DEF Q, r
<1>7. (q = <<>>) <=> Len(q) = 0
  OBVIOUS
<1> HIDE DEF r
<1>8. \A j \in 1 .. Len(r) : \E i \in n .. m - 1 : NackOk(r[j], i, size, begun)
  BY <1>6
<1> QED BY <1>1, <1>6, <1>7, <1>8 DEF PushedOk, Idx, r

\* Nacks of one SDU, the one with i before it.
NacksOk(q, i, size, begun) ==
    /\ q \in Seq(NackType)
    /\ \A j \in 1 .. Len(q) :
          /\ q[j].sn = SnOf(i) /\ q[j].range = 1
          /\ NackOk(q[j], i, size, begun)

\* A nack of one SDU or a part of it, as the receiver builds it.
LEMMA NackIs ==
  ASSUME start \in Sn, NEW i \in Nat, NEW size, NEW begun, SizesOk(size, begun),
         NEW from \in Nat, NEW to \in Nat, i + 1 <= Len(size), from < size[i + 1],
         to = EndOfSdu => from # 0 \/ i + 1 < Len(size),
         to # EndOfSdu => to < begun[i + 1] /\ from <= to
  PROVE  LET e == Nack(SnOf(i), from, to) IN
         e \in NackType /\ e.sn = SnOf(i) /\ e.range = 1 /\ NackOk(e, i, size, begun)
<1>1. SnOf(i) \in Sn
  BY SnOfType
<1> DEFINE e == Nack(SnOf(i), from, to)
<1>2. e = [sn |-> SnOf(i), range |-> 1, from |-> from, to |-> to]
  BY DEF Nack
<1>3. e \in NackType /\ e.sn = SnOf(i) /\ e.range = 1 /\ e.from = from /\ e.to = to
  BY <1>1, <1>2 DEF NackType
<1> HIDE DEF e
<1>4. NackOk(e, i, size, begun)
  BY <1>3 DEF NackOk
<1> QED BY <1>3, <1>4 DEF e

\* What is missing of an SDU received in part.
LEMMA MissingIs ==
  ASSUME start \in Sn, NEW i \in Nat, NEW size, NEW begun, SizesOk(size, begun),
         NEW info \in InfoType, InfoOk(info, i + 1, size, begun),
         i + 1 <= Len(size), ~FullyReceived(info)
  PROVE  Missing(SnOf(i), info) # <<>> /\ NacksOk(Missing(SnOf(i), info), i, size, begun)
<1> DEFINE sn == SnOf(i)
           s == size[i + 1]
           bytes == info.bytes
           runs == { b \in bytes : b # 0 /\ b - 1 \notin bytes }
           Below(b) == { a \in bytes : a < b }
           Gap(b) == Nack(sn, IF Below(b) = {} THEN 0 ELSE Max(Below(b)) + 1, b - 1)
           Rank(b) == Cardinality({ a \in runs : a < b })
           Pick(j) == CHOOSE b \in runs : Rank(b) = j - 1
           gaps == [j \in 1 .. Cardinality(runs) |-> Gap(Pick(j))]
           end == Nack(sn, Max(bytes) + 1, EndOfSdu)
           Good(e) == e \in NackType /\ e.sn = SnOf(i) /\ e.range = 1 /\ NackOk(e, i, size, begun)
<1>1. Missing(sn, info) = IF info.last THEN gaps ELSE Append(gaps, end)
  BY Zenon DEF Missing
<1>2. /\ s \in Nat /\ begun[i + 1] \in Nat /\ begun[i + 1] <= s /\ s <= EndOfSdu /\ 1 <= s
      /\ EndOfSdu \in Nat /\ i + 1 \in 1 .. Len(size)
  <2>1. i + 1 \in 1 .. Len(size)
    BY DEF SizesOk
  <2> QED BY <2>1 DEF SizesOk, EndOfSdu
<1>3. /\ bytes \in SUBSET Nat /\ bytes # {} /\ \A b \in bytes : b \in Nat /\ b <= begun[i + 1] - 1
      /\ info.last <=> s - 1 \in bytes
  <2>1. bytes \in SUBSET Nat /\ bytes # {} /\ bytes \subseteq 0 .. begun[i + 1] - 1
    BY DEF InfoOk, InfoType
  <2>2. info.last <=> s - 1 \in bytes
    BY DEF InfoOk
  <2> HIDE DEF bytes, s
  <2> QED BY <1>2, <2>1, <2>2
<1> HIDE DEF s
<1>4. IsFiniteSet(bytes) /\ IsFiniteSet(runs)
  <2>1. IsFiniteSet(bytes)
    <3>1. \A b \in bytes : b <= s
      BY <1>2, <1>3
    <3>2. \E n \in Nat : \A b \in bytes : b <= n
      BY <1>2, <3>1
    <3> QED BY <1>3, <3>2, FS_BoundedSetOfNaturals
  <2>2. runs \subseteq bytes
    OBVIOUS
  <2> QED BY <2>1, <2>2, FS_Subset
<1>5. runs \in SUBSET Nat /\ runs \subseteq bytes
  BY <1>3
<1>6. ASSUME NEW b \in runs PROVE Good(Gap(b))
  <2>1. /\ b \in Nat /\ b # 0 /\ b <= begun[i + 1] - 1 /\ b - 1 \notin bytes /\ b - 1 \in Nat
        /\ b - 1 < s /\ b - 1 < begun[i + 1] /\ b - 1 # EndOfSdu
    BY <1>2, <1>3
  <2> DEFINE from == IF Below(b) = {} THEN 0 ELSE Max(Below(b)) + 1
  <2>2. from \in Nat /\ from <= b - 1
    <3>1. CASE Below(b) = {}
      BY <2>1, <3>1
    <3>2. CASE Below(b) # {}
      <4>1. Below(b) \in SUBSET Nat /\ \A x \in Below(b) : x <= b /\ b \in Nat
        BY <1>3, <2>1
      <4>2. Max(Below(b)) \in Below(b)
        BY <3>2, <4>1, MaxIs
      <4> DEFINE x == Max(Below(b))
      <4>3. x \in bytes /\ x < b
        BY <4>2
      <4>4. from = x + 1
        BY <3>2
      <4> HIDE DEF x, from
      <4>5. x \in Nat /\ x # b - 1
        BY <1>3, <2>1, <4>3
      <4> QED BY <2>1, <4>3, <4>4, <4>5
    <3> QED BY <3>1, <3>2
  <2>3. Gap(b) = Nack(SnOf(i), from, b - 1)
    OBVIOUS
  <2> HIDE DEF from, Below, runs, bytes
  <2>4. from < size[i + 1] /\ i + 1 <= Len(size)
    BY <1>2, <2>1, <2>2 DEF s
  <2>5. LET e == Nack(SnOf(i), from, b - 1) IN
        e \in NackType /\ e.sn = SnOf(i) /\ e.range = 1 /\ NackOk(e, i, size, begun)
    BY <2>1, <2>2, <2>4, NackIs
  <2> QED BY <2>3, <2>5
<1>7. Cardinality(runs) \in Nat
  BY <1>4, FS_CardinalityType
<1>8. ASSUME NEW j \in 1 .. Cardinality(runs) PROVE Pick(j) \in runs
  <2>1. \E b \in runs : Rank(b) = j - 1
    <3> HIDE DEF runs
    <3> QED BY <1>4, <1>5, Ranked
  <2> HIDE DEF Rank, runs
  <2> QED BY <2>1
<1> HIDE DEF Gap, Pick
<1>9. NacksOk(gaps, i, size, begun)
  <2>1. \A j \in 1 .. Cardinality(runs) : Good(Gap(Pick(j)))
    BY <1>6, <1>8
  <2> HIDE DEF runs
  <2>2. \A j \in 1 .. Cardinality(runs) : Gap(Pick(j)) \in NackType
    BY <2>1
  <2>3. gaps \in Seq(NackType) /\ Len(gaps) = Cardinality(runs)
    BY <1>7, <2>2
  <2>4. \A j \in 1 .. Len(gaps) : Good(gaps[j])
    BY <2>1, <2>3
  <2> HIDE DEF gaps
  <2> QED BY <2>3, <2>4 DEF NacksOk
<1>10. CASE info.last
  <2>1. runs # {}
    <3> SUFFICES ASSUME runs = {} PROVE FALSE
      OBVIOUS
    <3>1. \A b \in bytes : b = 0 \/ b - 1 \in bytes
      OBVIOUS
    <3>2. bytes = 0 .. Cardinality(bytes) - 1
      <4> HIDE DEF bytes, runs
      <4> QED BY <1>3, <1>4, <3>1, NoGaps
    <3> QED BY <1>10, <3>2 DEF FullyReceived, Gapless
  <2>2. Cardinality(runs) # 0
    <3> HIDE DEF runs
    <3> QED BY <1>4, <2>1, FS_EmptySet
  <2>3. gaps # <<>>
    <3> HIDE DEF runs
    <3>1. Len(gaps) = Cardinality(runs)
      BY <1>7
    <3>2. Len(<<>>) = 0
      OBVIOUS
    <3> QED BY <2>2, <3>1, <3>2
  <2> QED BY <1>1, <1>9, <1>10, <2>3
<1>11. CASE ~info.last
  <2>1. Max(bytes) \in bytes
    BY <1>3, <1>4, MaxOfFinite
  <2> DEFINE m == Max(bytes)
  <2>2. m + 1 \in Nat /\ m + 1 < s /\ m + 1 # 0
    <3>1. m \in bytes /\ m # s - 1
      BY <1>3, <1>11, <2>1
    <3> HIDE DEF m
    <3>2. m \in Nat /\ m <= begun[i + 1] - 1
      BY <1>3, <3>1
    <3> QED BY <1>2, <3>1, <3>2
  <2>3. Good(end)
    <3>1. end = Nack(SnOf(i), m + 1, EndOfSdu)
      OBVIOUS
    <3> HIDE DEF m, end
    <3>2. LET e == Nack(SnOf(i), m + 1, EndOfSdu) IN
          e \in NackType /\ e.sn = SnOf(i) /\ e.range = 1 /\ NackOk(e, i, size, begun)
      BY <1>2, <2>2, NackIs DEF s
    <3> QED BY <3>1, <3>2
  <2> HIDE DEF gaps, end, runs
  <2> DEFINE q == Append(gaps, end)
  <2>4. /\ gaps \in Seq(NackType) /\ q \in Seq(NackType) /\ Len(q) = Len(gaps) + 1
        /\ \A j \in 1 .. Len(gaps) : q[j] = gaps[j]
        /\ q[Len(gaps) + 1] = end
    BY <1>9, <2>3 DEF NacksOk
  <2>5. q # <<>>
    BY <2>4
  <2> HIDE DEF q
  <2>6. \A j \in 1 .. Len(q) : Good(q[j])
    <3> SUFFICES ASSUME NEW j \in 1 .. Len(q) PROVE Good(q[j])
      OBVIOUS
    <3>1. j \in 1 .. Len(gaps) \/ j = Len(gaps) + 1
      BY <2>4
    <3> HIDE DEF Good
    <3>2. CASE j \in 1 .. Len(gaps)
      BY <1>9, <2>4, <3>2 DEF NacksOk, Good
    <3> QED BY <2>3, <2>4, <3>1, <3>2
  <2> QED BY <1>1, <1>11, <2>4, <2>5, <2>6 DEF NacksOk, q
<1> QED BY <1>10, <1>11

\* What a report has on one SN.
NacksAt(r, sn) ==
    CASE ~HasSn(r.window, sn) -> <<Nack(sn, 0, EndOfSdu)>>
      [] Complete(r.window, sn) -> <<>>
      [] OTHER -> Missing(sn, r.window[sn])

\* The report, with its local definitions named.
LEMMA StatusReportIs ==
  ASSUME NEW r
  PROVE  LET most == (r.next + MaxSnPerStatus) % Mod
             stop == IF Above(r.next, r.highestStatus) > Above(r.next, most)
                     THEN most ELSE r.highestStatus
             P == [i \in 1 .. Above(r.next, stop) |-> NacksAt(r, (r.next + i - 1) % Mod)]
         IN  StatusReport(r) = [ack |-> stop, nacks |-> FoldLeft(PushNack, <<>>, FlattenSeq(P))]
BY Zenon DEF StatusReport, NacksAt

\* The nacks of one SDU are of bytes that were sent; an incomplete SDU has one.
LEMMA NacksAtIs ==
  ASSUME start \in Sn, NEW r, NEW n, NEW high, NEW size, NEW begun, SizesOk(size, begun),
         RxWindow(r, n, high, size, begun), NEW i \in Nat, n <= i, i < high
  PROVE  /\ NacksOk(NacksAt(r, SnOf(i)), i, size, begun)
         /\ ~Complete(r.window, SnOf(i)) => NacksAt(r, SnOf(i)) # <<>>
<1>1. /\ n \in Nat /\ high \in Nat /\ high <= Len(size) /\ high <= n + Window
      /\ Len(size) \in Nat /\ i + 1 <= Len(size) /\ i <= n + Window
  <2>1. n \in Nat /\ high \in Nat /\ high <= Len(size) /\ high <= n + Window /\ Len(size) \in Nat
    BY DEF RxWindow, SizesOk
  <2>2. i + 1 <= Len(size)
    BY <2>1
  <2>3. i <= n + Window
    BY <2>1, ModIs
  <2> QED BY <2>1, <2>2, <2>3
<1> DEFINE sn == SnOf(i)
<1>2. CASE ~HasSn(r.window, sn)
  <2>1. NacksAt(r, sn) = <<Nack(sn, 0, EndOfSdu)>>
    BY <1>2 DEF NacksAt, Complete
  <2>2. i + 1 < Len(size)
    <3>1. HasSn(r.window, SnOf(high - 1))
      BY <1>1 DEF RxWindow
    <3>2. i # high - 1
      BY <1>2, <3>1
    <3> QED BY <1>1, <3>2
  <2>3. 0 < size[i + 1] /\ EndOfSdu \in Nat
    <3>1. i + 1 \in 1 .. Len(size)
      BY <1>1
    <3>2. 1 <= size[i + 1] /\ size[i + 1] \in Nat
      BY <3>1 DEF SizesOk
    <3> QED BY <3>2 DEF EndOfSdu
  <2> DEFINE e == Nack(SnOf(i), 0, EndOfSdu)
  <2>4. e \in NackType /\ e.sn = SnOf(i) /\ e.range = 1 /\ NackOk(e, i, size, begun)
    BY <1>1, <2>2, <2>3, NackIs
  <2> HIDE DEF e
  <2>5. <<e>> \in Seq(NackType) /\ Len(<<e>>) = 1 /\ <<e>>[1] = e /\ <<e>> # <<>>
    BY <2>4
  <2>6. NacksOk(<<e>>, i, size, begun)
    BY <2>4, <2>5 DEF NacksOk
  <2> QED BY <2>1, <2>5, <2>6 DEF e
<1>3. CASE HasSn(r.window, sn) /\ Complete(r.window, sn)
  <2>1. NacksAt(r, sn) = <<>>
    BY <1>3 DEF NacksAt
  <2>2. <<>> \in Seq(NackType) /\ Len(<<>>) = 0
    OBVIOUS
  <2>3. NacksOk(<<>>, i, size, begun)
    BY <2>2 DEF NacksOk
  <2> QED BY <1>3, <2>1, <2>3
<1>4. CASE HasSn(r.window, sn) /\ ~Complete(r.window, sn)
  <2>1. NacksAt(r, sn) = Missing(sn, r.window[sn])
    BY <1>4 DEF NacksAt
  <2> DEFINE info == r.window[sn]
  <2>2. info \in InfoType /\ InfoOk(info, i + 1, size, begun)
    BY <1>1, <1>4, RxWindowIs
  <2>3. ~FullyReceived(info)
    BY <1>4 DEF Complete
  <2> HIDE DEF info
  <2>4. Missing(SnOf(i), info) # <<>> /\ NacksOk(Missing(SnOf(i), info), i, size, begun)
    BY <1>1, <2>2, <2>3, MissingIs
  <2> QED BY <2>1, <2>4 DEF info
<1> QED BY <1>2, <1>3, <1>4

\* The report of a receiver of the first n SDUs.
ReportsUpTo(report, n, h, size, begun) ==
    \E m \in n .. h : ReportOk(report, n, m, size, begun)

\* The report the receiver builds is a sound one: cut or not, it begins at RX_Next.
LEMMA ReportIs ==
  ASSUME start \in Sn, NEW r, NEW n, NEW h, NEW high, NEW size, NEW begun,
         SizesOk(size, begun), RxOk(r, n, h, high, size, begun)
  PROVE  ReportsUpTo(StatusReport(r), n, h, size, begun)
<1> DEFINE w == MaxSnPerStatus
           most == (r.next + w) % Mod
           stop == IF Above(r.next, r.highestStatus) > Above(r.next, most)
                   THEN most ELSE r.highestStatus
           P == [i \in 1 .. Above(r.next, stop) |-> NacksAt(r, (r.next + i - 1) % Mod)]
           q == FlattenSeq(P)
           nacks == FoldLeft(PushNack, <<>>, q)
           m == IF h - n > w THEN n + w ELSE h
<1>1. StatusReport(r) = [ack |-> stop, nacks |-> nacks]
  BY StatusReportIs, Zenon
<1>2. /\ RxWindow(r, n, high, size, begun) /\ ~Complete(r.window, SnOf(n))
      /\ StatusEdge(r, n, h, high)
  BY DEF RxOk
<1>3. /\ n \in Nat /\ high \in Nat /\ h \in Nat /\ n <= h /\ h <= high /\ high <= Len(size)
      /\ high <= n + Window /\ Len(size) \in Nat
      /\ r.next = SnOf(n) /\ r.highestStatus = SnOf(h)
      /\ w \in Nat /\ w >= 1 /\ w <= Window
  BY <1>2, RlcAssumption, ModIs DEF RxWindow, StatusEdge, SizesOk
<1>4. stop = SnOf(m) /\ m \in n .. h /\ Above(r.next, stop) = m - n
  <2>1. most = SnOf(n + w)
    <3>1. n \in Int /\ w \in Int
      BY <1>3
    <3> QED BY <1>3, <3>1, SnOfSum
  <2>2. Above(SnOf(n), SnOf(n + w)) = w
    <3>1. n + w \in Int /\ n <= n + w /\ n + w < n + Mod /\ (n + w) - n = w
      BY <1>3, ModIs
    <3> QED BY <1>3, <3>1, AboveUp
  <2>3. Above(SnOf(n), SnOf(h)) = h - n
    BY <1>3, AboveUp, ModIs
  <2>4. stop = IF h - n > w THEN SnOf(n + w) ELSE SnOf(h)
    BY <1>3, <2>1, <2>2, <2>3
  <2>5. (n + w) - n = w
    BY <1>3
  <2>6. CASE h - n > w
    <3>1. n + w \in n .. h
      BY <1>3, <2>6
    <3> QED BY <1>3, <2>2, <2>4, <2>5, <2>6, <3>1
  <2>7. CASE ~(h - n > w)
    <3>1. h \in n .. h
      BY <1>3
    <3> QED BY <1>3, <2>3, <2>4, <2>7, <3>1
  <2> QED BY <2>6, <2>7
<1> DEFINE l == m - n
           T == { e \in NackType : e.range = 1 /\ \E i \in n .. m - 1 : NackOk(e, i, size, begun) }
           key == [e \in T |-> Above(SnOf(n), e.sn)]
<1> HIDE DEF stop, m
<1>5. /\ m \in Nat /\ n <= m /\ m <= h /\ m <= n + Window /\ m <= Len(size) /\ m <= high
      /\ SnOf(m) \in Sn /\ l \in Nat
  <2>1. m \in Nat /\ n <= m /\ m <= h /\ m <= n + Window /\ m <= Len(size) /\ m <= high
    BY <1>3, <1>4, ModIs
  <2> QED BY <1>3, <2>1, SnOfType
<1>6. P = [i \in 1 .. l |-> NacksAt(r, SnOf(n + i - 1))]
  <2>1. ASSUME NEW i \in 1 .. l PROVE (r.next + i - 1) % Mod = SnOf(n + i - 1)
    <3>1. SnOf(n) \in Int
      BY <1>3, ModIs, SnOfType DEF Sn
    <3>2. n \in Int /\ i - 1 \in Int
      BY <1>3
    <3>3. (SnOf(n) + (i - 1)) % Mod = SnOf(n + (i - 1))
      BY <3>2, SnOfSum, Zenon
    <3>4. SnOf(n) + (i - 1) = SnOf(n) + i - 1 /\ n + (i - 1) = n + i - 1
      BY <1>3, <3>1
    <3> QED BY <1>3, <3>3, <3>4
  <2> QED BY <1>4, <2>1
<1> HIDE DEF P
<1>7. ASSUME NEW i \in 1 .. l
      PROVE  /\ n + i - 1 \in n .. m - 1 /\ n + i - 1 \in Nat
             /\ P[i] = NacksAt(r, SnOf(n + i - 1))
             /\ NacksOk(P[i], n + i - 1, size, begun)
             /\ ~Complete(r.window, SnOf(n + i - 1)) => P[i] # <<>>
  <2> DEFINE x == n + i - 1
  <2>1. x \in n .. m - 1 /\ x \in Nat /\ n <= x /\ x < high
    BY <1>3, <1>5
  <2>2. P[i] = NacksAt(r, SnOf(x))
    BY <1>6
  <2> HIDE DEF x
  <2>3. /\ NacksOk(NacksAt(r, SnOf(x)), x, size, begun)
        /\ ~Complete(r.window, SnOf(x)) => NacksAt(r, SnOf(x)) # <<>>
    BY <1>2, <2>1, NacksAtIs
  <2> QED BY <2>1, <2>2, <2>3 DEF x
<1>8. ASSUME NEW i \in 1 .. l, NEW j \in 1 .. Len(P[i])
      PROVE  P[i][j] \in T /\ P[i][j].sn = SnOf(n + i - 1)
  <2>1. NacksOk(P[i], n + i - 1, size, begun) /\ n + i - 1 \in n .. m - 1
    BY <1>7
  <2>2. P[i][j] \in NackType
    BY <2>1 DEF NacksOk
  <2> QED BY <2>1, <2>2 DEF NacksOk
<1>9. \A i \in 1 .. l : P[i] \in Seq(T)
  <2> SUFFICES ASSUME NEW i \in 1 .. l PROVE P[i] \in Seq(T)
    OBVIOUS
  <2> DEFINE s == P[i]
  <2>1. s \in Seq(NackType) /\ \A j \in 1 .. Len(s) : s[j] \in T
    BY <1>7, <1>8 DEF NacksOk
  <2> HIDE DEF s, T
  <2>2. s \in Seq(T)
    BY <2>1
  <2> QED BY <2>2 DEF s
<1>10. P \in Seq(Seq(T)) /\ Len(P) = l
  <2> HIDE DEF T, l
  <2>1. DOMAIN P = 1 .. l /\ P = [i \in 1 .. l |-> P[i]]
    BY <1>6
  <2> QED BY <1>5, <1>9, <2>1
<1>11. ASSUME NEW i \in 1 .. l, NEW j \in 1 .. Len(P[i]) PROVE key[P[i][j]] = i - 1
  <2> DEFINE x == n + i - 1
  <2>1. x \in Int /\ n <= x /\ x < n + Mod /\ x - n = i - 1 /\ n \in Int
    BY <1>3, <1>5, ModIs
  <2> HIDE DEF x
  <2>2. Above(SnOf(n), SnOf(x)) = i - 1
    BY <2>1, AboveUp
  <2>3. P[i][j] \in T /\ P[i][j].sn = SnOf(x)
    BY <1>8 DEF x
  <2> HIDE DEF T
  <2> QED BY <2>2, <2>3
<1>12. /\ q \in Seq(NackType)
       /\ \A j \in 1 .. Len(q) : q[j] \in T
       /\ \A x \in 1 .. Len(q), y \in 1 .. Len(q) : x < y =>
             Above(SnOf(n), q[x].sn) <= Above(SnOf(n), q[y].sn)
       /\ q # <<>> => q[1].sn = SnOf(n)
       /\ q = <<>> <=> m = n
  <2>1. CASE l = 0
    <3>1. P = <<>>
      BY <1>10, <2>1
    <3>2. q = P
      BY <1>10, <2>1, FlattenIs
    <3>3. <<>> \in Seq(NackType) /\ Len(<<>>) = 0
      OBVIOUS
    <3>4. m = n
      BY <1>3, <1>5, <2>1
    <3> HIDE DEF q, T
    <3> QED BY <3>1, <3>2, <3>3, <3>4
  <2>2. CASE l # 0
    <3>1. \A i \in 1 .. Len(P) : Sorted(P[i], key)
      <4> SUFFICES ASSUME NEW i \in 1 .. l, NEW x \in 1 .. Len(P[i]), NEW y \in 1 .. Len(P[i])
                   PROVE  key[P[i][x]] <= key[P[i][y]]
        BY <1>10 DEF Sorted
      <4> HIDE DEF key
      <4> QED BY <1>11
    <3>2. \A i \in 1 .. Len(P), j \in 1 .. Len(P) : i < j =>
             \A x \in 1 .. Len(P[i]), y \in 1 .. Len(P[j]) : key[P[i][x]] <= key[P[j][y]]
      <4> SUFFICES ASSUME NEW i \in 1 .. l, NEW j \in 1 .. l, i < j,
                          NEW x \in 1 .. Len(P[i]), NEW y \in 1 .. Len(P[j])
                   PROVE  key[P[i][x]] <= key[P[j][y]]
        BY <1>10
      <4> HIDE DEF key
      <4> QED BY <1>11
    <3> HIDE DEF key, T, q
    <3>3. /\ FlattenSeq(P) \in Seq(T)
          /\ P[1] # <<>> => FlattenSeq(P) # <<>> /\ FlattenSeq(P)[1] = P[1][1]
          /\ Sorted(FlattenSeq(P), key)
      BY <1>10, <2>2, <3>1, <3>2, FlattenKeeps
    <3>4. 1 \in 1 .. l /\ n + 1 - 1 = n
      BY <1>3, <1>5, <2>2
    <3>5. P[1] # <<>> /\ 1 \in 1 .. Len(P[1])
      <4>1. P[1] # <<>>
        BY <1>2, <1>7, <3>4
      <4>2. P[1] \in Seq(T)
        BY <1>9, <3>4
      <4> QED BY <4>1, <4>2
    <3>6. P[1][1].sn = SnOf(n)
      BY <1>8, <3>4, <3>5
    <3>7. q \in Seq(T) /\ q # <<>> /\ q[1].sn = SnOf(n) /\ Sorted(q, key)
      BY <3>3, <3>5, <3>6 DEF q
    <3>8. \A j \in 1 .. Len(q) : q[j] \in T
      BY <3>7
    <3>9. q \in Seq(NackType)
      <4>1. T \subseteq NackType
        BY DEF T
      <4> QED BY <3>7, <4>1
    <3>10. \A x \in 1 .. Len(q), y \in 1 .. Len(q) : x < y =>
              Above(SnOf(n), q[x].sn) <= Above(SnOf(n), q[y].sn)
      BY <3>7, <3>8 DEF Sorted, key
    <3>11. m # n
      BY <1>3, <2>2
    <3> QED BY <3>7, <3>8, <3>9, <3>10, <3>11
  <2> QED BY <2>1, <2>2
<1> HIDE DEF q, key, P
<1>13. \A j \in 1 .. Len(q) : q[j].range = 1 /\ \E i \in n .. m - 1 : NackOk(q[j], i, size, begun)
  BY <1>12
<1> HIDE DEF T
<1>14. PushedOk(q, nacks, n, m, size, begun)
  BY <1>3, <1>5, <1>12, <1>13, AllPushed
<1> HIDE DEF nacks
<1> DEFINE report == [ack |-> SnOf(m), nacks |-> nacks]
<1>15. report \in [ack : Sn, nacks : Seq(NackType)] /\ report.ack = SnOf(m) /\ report.nacks = nacks
  BY <1>5, <1>14 DEF PushedOk
<1>16. StatusReport(r) = report
  BY <1>1, <1>4
<1> HIDE DEF report
<1>17. DOMAIN nacks = 1 .. Len(nacks)
  BY <1>14 DEF PushedOk
<1>18. ReportOk(report, n, m, size, begun)
  <2>1. nacks = <<>> => n = m
    BY <1>12, <1>14 DEF PushedOk
  <2>2. nacks # <<>> => nacks[1].sn = SnOf(n)
    BY <1>14 DEF PushedOk
  <2>3. \A j \in DOMAIN nacks : \E i \in n .. m - 1 : NackOk(nacks[j], i, size, begun)
    BY <1>14, <1>17 DEF PushedOk
  <2>4. \A j \in 1 .. Len(nacks) - 1 :
           Above(SnOf(n), nacks[j].sn) + nacks[j].range - 1 <= Above(SnOf(n), nacks[j + 1].sn)
    BY <1>14 DEF PushedOk
  <2> QED BY <1>5, <1>15, <2>1, <2>2, <2>3, <2>4 DEF ReportOk
<1> QED BY <1>4, <1>16, <1>18 DEF ReportsUpTo

\* From neighbours to all pairs.
LEMMA Monotone ==
  ASSUME NEW N \in Nat, NEW g, \A x \in 1 .. N : g[x] \in Int,
         \A x \in 1 .. N - 1 : g[x] <= g[x + 1]
  PROVE  \A x \in 1 .. N, y \in 1 .. N : x <= y => g[x] <= g[y]
<1> SUFFICES ASSUME NEW x \in 1 .. N PROVE \A y \in 1 .. N : x <= y => g[x] <= g[y]
  OBVIOUS
<1> DEFINE Q == { d \in Nat : x + d <= N => g[x] <= g[x + d] }
<1>1. 0 \in Q
  OBVIOUS
<1>2. ASSUME NEW d \in Q PROVE d + 1 \in Q
  <2> SUFFICES ASSUME x + (d + 1) <= N PROVE g[x] <= g[x + (d + 1)]
    OBVIOUS
  <2>1. x + d \in 1 .. N - 1 /\ (x + d) + 1 = x + (d + 1) /\ g[x] <= g[x + d]
    OBVIOUS
  <2>2. g[x + d] <= g[x + (d + 1)]
    BY <2>1
  <2>3. g[x] \in Int /\ g[x + d] \in Int /\ g[x + (d + 1)] \in Int
    BY <2>1
  <2> QED BY <2>1, <2>2, <2>3
<1> HIDE DEF Q
<1>3. Nat \subseteq Q
  BY <1>1, <1>2, CountUp
<1> SUFFICES ASSUME NEW y \in 1 .. N, x <= y PROVE g[x] <= g[y]
  OBVIOUS
<1>4. y - x \in Nat /\ x + (y - x) = y
  OBVIOUS
<1> QED BY <1>3, <1>4 DEF Q

\* Where the nacks of a list are, and in what order.
NacksAre(q, at, f, size, begun) ==
    /\ \A j \in 1 .. Len(q) : NackOk(q[j], at[j], size, begun)
    /\ \A j \in 1 .. Len(q) - 1 : at[j] + q[j].range - 1 <= at[j + 1]
    /\ \A x \in 1 .. Len(q), y \in 1 .. Len(q) : x <= y => at[x] <= at[y]
    /\ q # <<>> => at[1] = f
\* The SDUs the nacks of a report are about, in the report's order.
LEMMA NacksInOrder ==
  ASSUME start \in Sn, NEW report, NEW f \in Nat, NEW upto \in Nat, NEW size, NEW begun,
         ReportOk(report, f, upto, size, begun)
  PROVE  \E at \in [1 .. Len(report.nacks) -> f .. upto - 1] :
            NacksAre(report.nacks, at, f, size, begun)
<1> DEFINE q == report.nacks
           l == Len(q)
<1>1. /\ q \in Seq(NackType) /\ l \in Nat /\ DOMAIN q = 1 .. l /\ upto <= f + Window
      /\ \A j \in 1 .. l : \E i \in f .. upto - 1 : NackOk(q[j], i, size, begun)
      /\ \A j \in 1 .. l - 1 : Above(SnOf(f), q[j].sn) + q[j].range - 1 <= Above(SnOf(f), q[j + 1].sn)
      /\ q # <<>> => q[1].sn = SnOf(f)
  <2>1. q \in Seq(NackType) /\ upto <= f + Window
    BY DEF ReportOk
  <2>2. l \in Nat /\ DOMAIN q = 1 .. l
    BY <2>1
  <2> QED BY <2>1, <2>2 DEF ReportOk
<1> DEFINE at == [j \in 1 .. l |-> CHOOSE i \in f .. upto - 1 : NackOk(q[j], i, size, begun)]
<1>2. \A j \in 1 .. l : at[j] \in f .. upto - 1 /\ NackOk(q[j], at[j], size, begun)
  BY <1>1
<1>3. at \in [1 .. l -> f .. upto - 1]
  BY <1>2
<1> HIDE DEF at
<1>4. ASSUME NEW j \in 1 .. l
      PROVE  Above(SnOf(f), q[j].sn) = at[j] - f /\ q[j].range \in Nat \ {0} /\ at[j] \in Nat /\ q[j].sn = SnOf(at[j])
  <2>1. at[j] \in Nat /\ f <= at[j] /\ at[j] < f + Mod /\ q[j].sn = SnOf(at[j])
    BY <1>1, <1>2, ModIs DEF NackOk
  <2>2. q[j] \in NackType
    BY <1>1
  <2> QED BY <2>1, <2>2, AboveUp DEF NackType
<1>5. ASSUME NEW j \in 1 .. l - 1 PROVE at[j] + q[j].range - 1 <= at[j + 1]
  <2>1. j \in 1 .. l /\ j + 1 \in 1 .. l
    BY <1>1
  <2>2. (at[j] - f) + q[j].range - 1 <= at[j + 1] - f
    BY <1>1, <1>4, <2>1
  <2> DEFINE a == at[j]
             b == at[j + 1]
             c == q[j].range
  <2>3. a \in Nat /\ b \in Nat /\ c \in Nat /\ (a - f) + c - 1 <= b - f
    BY <1>4, <2>1, <2>2
  <2> HIDE DEF a, b, c
  <2>4. a + c - 1 <= b
    BY <2>3
  <2> QED BY <2>4 DEF a, b, c
<1>6. \A x \in 1 .. l, y \in 1 .. l : x <= y => at[x] <= at[y]
  <2>1. \A x \in 1 .. l : at[x] \in Int
    BY <1>4
  <2>2. ASSUME NEW x \in 1 .. l - 1 PROVE at[x] <= at[x + 1]
    <3>1. x \in 1 .. l /\ x + 1 \in 1 .. l
      BY <1>1
    <3> DEFINE a == at[x]
               b == at[x + 1]
               c == q[x].range
    <3>2. a \in Nat /\ b \in Nat /\ c \in Nat \ {0} /\ a + c - 1 <= b
      BY <1>4, <1>5, <3>1
    <3> HIDE DEF a, b, c
    <3>3. a <= b
      BY <3>2
    <3> QED BY <3>3 DEF a, b
  <2> HIDE DEF l
  <2> QED BY <1>1, <2>1, <2>2, Monotone DEF l
<1>7. q # <<>> => at[1] = f
  <2> SUFFICES ASSUME q # <<>> PROVE at[1] = f
    OBVIOUS
  <2>1. 1 \in 1 .. l
    BY <1>1
  <2>2. SnOf(at[1]) = SnOf(f) /\ at[1] \in Nat /\ f <= at[1] /\ at[1] <= f + Window
    BY <1>1, <1>2, <1>4, <2>1, ModIs
  <2>3. f <= f + Window /\ f <= f /\ at[1] \in Int /\ f \in Int
    BY <2>2, ModIs
  <2> QED BY <2>2, <2>3, Apart, Zenon
<1>8. NacksAre(q, at, f, size, begun)
  BY <1>2, <1>5, <1>6, <1>7 DEF NacksAre
<1> QED BY <1>3, <1>8

\* A report cut to what a grant fits is a report up to some SDU before.
LEMMA TrimIs ==
  ASSUME start \in Sn, NEW report, NEW f \in Nat, NEW upto \in Nat, NEW size, NEW begun,
         ReportOk(report, f, upto, size, begun), NEW k \in Nat
  PROVE  ReportsUpTo(Trim(report, k), f, upto, size, begun)
<1> DEFINE q == report.nacks
           l == Len(q)
           Cut(j) == q[j + 1].sn
           J == { i \in 0 .. k : i = 0 \/ q[i].sn # Cut(i) }
           j == Max(J)
           cut == [report EXCEPT !.ack = Cut(j), !.nacks = SubSeq(@, 1, j)]
<1>1. Trim(report, k) = IF k >= l THEN report ELSE cut
  BY DEF Trim
<1>2. /\ report \in [ack : Sn, nacks : Seq(NackType)] /\ q \in Seq(NackType) /\ l \in Nat
      /\ f <= upto /\ upto <= f + Window /\ upto <= Len(size)
  BY DEF ReportOk
<1>3. CASE k >= l
  <2>1. upto \in f .. upto
    BY <1>2
  <2> QED BY <1>1, <1>3, <2>1 DEF ReportsUpTo
<1>4. CASE k < l
  <2>1. J \in SUBSET Nat /\ 0 \in J /\ \A i \in J : i <= k
    OBVIOUS
  <2>2. j \in J
    BY <2>1, MaxIs
  <2>3. j \in 0 .. k /\ (j = 0 \/ q[j].sn # q[j + 1].sn)
    BY <2>2
  <2> HIDE DEF J, j
  <2>4. j \in Nat /\ j < l /\ j + 1 \in 1 .. l /\ j + 1 \in Nat
    BY <1>2, <1>4, <2>3
  <2> HIDE DEF l
  <2>5. PICK at \in [1 .. l -> f .. upto - 1] :
            /\ \A x \in 1 .. l : NackOk(q[x], at[x], size, begun)
            /\ \A x \in 1 .. l, y \in 1 .. l : x <= y => at[x] <= at[y]
            /\ q # <<>> => at[1] = f
    <3>1. \E at \in [1 .. l -> f .. upto - 1] : NacksAre(q, at, f, size, begun)
      BY NacksInOrder, Zenon DEF l
    <3> QED BY <3>1 DEF NacksAre, l
  <2> DEFINE m == at[j + 1]
             s == SubSeq(q, 1, j)
  <2>6. m \in f .. upto - 1 /\ q[j + 1].sn = SnOf(m) /\ m \in Nat
    BY <2>4, <2>5 DEF NackOk
  <2>7. s \in Seq(NackType) /\ Len(s) = j /\ \A x \in 1 .. j : s[x] = q[x]
    <3>1. 1 \in Nat /\ 1 <= 1 /\ 1 <= j + 1 /\ j <= Len(q)
      BY <2>4 DEF l
    <3>2. /\ s \in Seq(NackType) /\ Len(s) = j - 1 + 1
          /\ \A x \in 1 .. j - 1 + 1 : s[x] = q[1 + x - 1]
      BY <1>2, <2>4, <3>1, SubSeqIs
    <3> HIDE DEF s
    <3>3. j - 1 + 1 = j
      BY <2>4
    <3>4. \A x \in 1 .. j : 1 + x - 1 = x
      BY <2>4
    <3> QED BY <3>2, <3>3, <3>4
  <2>8. cut = [ack |-> SnOf(m), nacks |-> s]
    <3>1. Cut(j) = SnOf(m) /\ report \in [ack : Sn, nacks : Seq(NackType)]
      BY <1>2, <2>6
    <3> HIDE DEF s
    <3>2. cut = [report EXCEPT !.ack = SnOf(m), !.nacks = s]
      BY <3>1 DEF s
    <3> HIDE DEF cut
    <3> QED BY <3>1, <3>2
  <2>9. /\ cut \in [ack : Sn, nacks : Seq(NackType)] /\ cut.ack = SnOf(m) /\ cut.nacks = s
    <3> HIDE DEF m, s, cut
    <3>1. SnOf(m) \in Sn
      BY <2>6, SnOfType
    <3> QED BY <2>7, <2>8, <3>1
  <2> HIDE DEF m, s, cut
  <2>10. \A x \in 1 .. j : x \in 1 .. l /\ x <= j + 1 /\ j \in 1 .. l
    BY <1>2, <2>4
  <2>11. s = <<>> => f = m
    <3> SUFFICES ASSUME s = <<>> PROVE f = m
      OBVIOUS
    <3>1. j = 0
      BY <2>7
    <3>2. q # <<>>
      BY <1>2, <2>4 DEF l
    <3> QED BY <2>5, <3>1, <3>2 DEF m
  <2>12. s # <<>> => s[1].sn = SnOf(f)
    <3> SUFFICES ASSUME s # <<>> PROVE s[1].sn = SnOf(f)
      OBVIOUS
    <3>1. 1 \in 1 .. j
      BY <2>7
    <3>2. q # <<>> /\ 1 \in 1 .. l
      BY <1>2, <2>10, <3>1 DEF l
    <3> QED BY <2>5, <2>7, <3>1, <3>2 DEF NackOk
  <2>13. ASSUME NEW x \in 1 .. j PROVE \E i \in f .. m - 1 : NackOk(s[x], i, size, begun)
    <3>1. s[x] = q[x] /\ x \in 1 .. l /\ j \in 1 .. l /\ x <= j /\ j <= j + 1
      BY <2>7, <2>10, <2>4
    <3>2. at[x] <= at[j] /\ at[j] <= m
      BY <2>4, <2>5, <3>1 DEF m
    <3>3. at[j] # m
      BY <2>3, <2>5, <2>6, <3>1 DEF NackOk
    <3>4. at[x] \in Nat /\ at[j] \in Nat /\ f <= at[x]
      BY <2>5, <3>1
    <3>5. at[x] \in f .. m - 1
      <4> DEFINE b == at[x]
                 c == at[j]
      <4>1. b \in Nat /\ c \in Nat /\ b <= c /\ c <= m /\ c # m /\ f <= b /\ m \in Nat
        BY <2>6, <3>2, <3>3, <3>4
      <4> HIDE DEF b, c
      <4>2. b \in f .. m - 1
        BY <4>1
      <4> QED BY <4>2 DEF b
    <3> QED BY <2>5, <3>1, <3>5
  <2>14. ASSUME NEW x \in 1 .. j - 1
         PROVE  Above(SnOf(f), s[x].sn) + s[x].range - 1 <= Above(SnOf(f), s[x + 1].sn)
    <3>1. x \in 1 .. j /\ x + 1 \in 1 .. j /\ x \in 1 .. l - 1
      BY <1>2, <2>4
    <3>2. s[x] = q[x] /\ s[x + 1] = q[x + 1]
      BY <2>7, <3>1
    <3> QED BY <3>1, <3>2 DEF ReportOk, l
  <2>15. DOMAIN s = 1 .. j
    BY <2>7
  <2>16. f <= m /\ m <= f + Window /\ m <= Len(size) /\ m \in f .. upto
    <3>1. f \in Nat /\ upto \in Nat /\ Window \in Nat /\ m \in f .. upto - 1
      BY <2>6, ModIs
    <3>2. f <= m /\ m <= f + Window /\ m <= upto /\ m \in f .. upto
      BY <1>2, <3>1
    <3>3. m <= Len(size)
      <4> DEFINE z == Len(size)
      <4>1. upto <= z /\ m <= upto - 1
        BY <1>2, <2>6
      <4> QED BY <1>2, <2>6, <3>1, <3>2
    <3> QED BY <3>2, <3>3
  <2>17. ReportOk(cut, f, m, size, begun)
    BY <2>9, <2>7, <2>6, <2>11, <2>12, <2>13, <2>14, <2>15, <2>16 DEF ReportOk
  <2> QED BY <1>1, <1>4, <2>16, <2>17 DEF ReportsUpTo, l
<1> QED BY <1>2, <1>3, <1>4

--------------------------------------------------------------------------------
(* The receiving entity: its timers.                                          *)

\* A receiving entity that differs in its flags and its status edge.
LEMMA RxFrame ==
  ASSUME NEW r, NEW q, NEW n, NEW h, NEW h2, NEW high, NEW size, NEW begun,
         RxOk(r, n, h, high, size, begun), RxTyped(q),
         q.next = r.next, q.nextHighest = r.nextHighest, q.window = r.window,
         StatusEdge(q, n, h2, high), Triggered(q, n, high)
  PROVE  RxOk(q, n, h2, high, size, begun)
<1>1. RxWindow(q, n, high, size, begun)
  BY DEF RxOk, RxWindow
<1> QED BY <1>1 DEF RxOk

\* t-Reassembly's expiry moves RX_Highest_Status within the window.
LEMMA ReassemblyExpired ==
  ASSUME start \in Sn, NEW n, NEW h, NEW high, NEW size, NEW begun,
         RxOk(rx, n, h, high, size, begun), ExpireReassembly
  PROVE  rx'.window = rx.window /\ \E h2 \in n .. high : RxOk(rx', n, h2, high, size, begun)
<1> DEFINE stopped == [rx EXCEPT !.reassembly = FALSE]
           above == [stopped EXCEPT !.highestStatus = FirstMissing(rx, rx.trigger)]
           again == IF Waiting(above, above.highestStatus)
                    THEN [above EXCEPT !.reassembly = TRUE, !.trigger = above.nextHighest]
                    ELSE above
<1>1. /\ rx.reassembly
      /\ rx' = IF Above(rx.next, rx.trigger) \in 1 .. Window
               THEN [again EXCEPT !.doStatus = TRUE] ELSE stopped
  BY DEF ExpireReassembly
<1>2. /\ RxWindow(rx, n, high, size, begun) /\ StatusEdge(rx, n, h, high)
      /\ n \in Nat /\ high \in Nat /\ n <= high /\ high <= n + Window
      /\ rx.next = SnOf(n) /\ rx.nextHighest = SnOf(high) /\ RxTyped(rx)
  BY DEF RxOk, RxWindow
<1>3. PICK i \in n + 1 .. high : rx.trigger = SnOf(i) /\ HasSn(rx.window, SnOf(i - 1))
  BY <1>1 DEF RxOk, Triggered
<1>4. i \in Nat /\ n <= i /\ i <= high /\ i > n /\ high > n
  BY <1>2, <1>3
<1>5. Above(rx.next, rx.trigger) \in 1 .. Window
  <2>1. Above(SnOf(n), SnOf(i)) = i - n
    BY <1>2, <1>4, AboveUp, ModIs
  <2>2. i - n \in 1 .. Window
    BY <1>2, <1>4, ModIs
  <2> QED BY <1>2, <1>3, <2>1, <2>2
<1>6. PICK y \in i .. high :
         /\ FirstMissing(rx, SnOf(i)) = SnOf(y)
         /\ y = high \/ ~Complete(rx.window, SnOf(y))
  BY <1>2, <1>4, FirstMissingIs
<1>7. y \in Nat /\ n <= y /\ y <= high /\ y \in n .. high /\ SnOf(y) \in Sn /\ SnOf(high) \in Sn
  BY <1>2, <1>4, SnOfType
<1>8. /\ RxTyped(above) /\ above.next = rx.next /\ above.nextHighest = rx.nextHighest
      /\ above.window = rx.window /\ above.highestStatus = SnOf(y)
      /\ above.reassembly = FALSE
  <2>1. above = [stopped EXCEPT !.highestStatus = SnOf(y)]
    BY <1>3, <1>6
  <2>2. /\ RxTyped(stopped) /\ stopped.next = rx.next /\ stopped.nextHighest = rx.nextHighest
        /\ stopped.window = rx.window /\ stopped.reassembly = FALSE
    BY <1>2 DEF RxTyped
  <2> HIDE DEF stopped, above
  <2> QED BY <1>7, <2>1, <2>2 DEF RxTyped
<1> HIDE DEF above
<1>9. /\ RxTyped(again) /\ again.next = rx.next /\ again.nextHighest = rx.nextHighest
      /\ again.window = rx.window /\ again.highestStatus = SnOf(y)
      /\ again.reassembly => again.trigger = SnOf(high)
  <2>1. CASE Waiting(above, above.highestStatus)
    <3>1. again = [above EXCEPT !.reassembly = TRUE, !.trigger = SnOf(high)]
      BY <1>2, <1>8, <2>1
    <3> HIDE DEF again
    <3> QED BY <1>7, <1>8, <3>1 DEF RxTyped
  <2>2. CASE ~Waiting(above, above.highestStatus)
    BY <1>8, <2>2
  <2> QED BY <2>1, <2>2
<1> HIDE DEF again
<1>10. /\ RxTyped(rx') /\ rx'.next = rx.next /\ rx'.nextHighest = rx.nextHighest
       /\ rx'.window = rx.window /\ rx'.highestStatus = SnOf(y)
       /\ rx'.reassembly => rx'.trigger = SnOf(high)
  <2>1. rx' = [again EXCEPT !.doStatus = TRUE]
    BY <1>1, <1>5
  <2> QED BY <1>9, <2>1 DEF RxTyped
<1>11. StatusEdge(rx', n, y, high)
  BY <1>6, <1>7, <1>10 DEF StatusEdge
<1>12. Triggered(rx', n, high)
  <2>1. HasSn(rx.window, SnOf(high - 1))
    BY <1>2, <1>4 DEF RxWindow
  <2>2. high \in n + 1 .. high
    BY <1>2, <1>4
  <2> QED BY <1>10, <2>1, <2>2 DEF Triggered
<1> QED BY <1>7, <1>10, <1>11, <1>12, RxFrame

\* Only flags of no weight change.
LEMMA RxFlags ==
  ASSUME NEW r, NEW q, NEW n, NEW h, NEW high, NEW size, NEW begun,
         RxOk(r, n, h, high, size, begun), RxTyped(q),
         q.next = r.next, q.nextHighest = r.nextHighest, q.window = r.window,
         q.highestStatus = r.highestStatus, q.trigger = r.trigger, q.reassembly = r.reassembly
  PROVE  RxOk(q, n, h, high, size, begun)
<1>1. StatusEdge(q, n, h, high) /\ Triggered(q, n, high)
  BY DEF RxOk, StatusEdge, Triggered
<1> QED BY <1>1, RxFrame

\* t-StatusProhibit's expiry only lifts the prohibition.
LEMMA ProhibitExpired ==
  ASSUME NEW n, NEW h, NEW high, NEW size, NEW begun,
         RxOk(rx, n, h, high, size, begun), ExpireProhibit
  PROVE  rx'.window = rx.window /\ RxOk(rx', n, h, high, size, begun)
<1>1. RxTyped(rx) /\ rx' = [rx EXCEPT !.prohibit = FALSE]
  BY DEF RxOk, RxWindow, ExpireProhibit
<1>2. /\ RxTyped(rx') /\ rx'.next = rx.next /\ rx'.nextHighest = rx.nextHighest
      /\ rx'.window = rx.window /\ rx'.highestStatus = rx.highestStatus
      /\ rx'.trigger = rx.trigger /\ rx'.reassembly = rx.reassembly
  BY <1>1 DEF RxTyped
<1> QED BY <1>2, RxFlags

\* A STATUS PDU that is sent speaks of the receiver as it is now.
LEMMA StatusPulled ==
  ASSUME start \in Sn, NEW n \in Nat, NEW h, NEW high, NEW size, NEW begun, NEW k \in Nat,
         SizesOk(size, begun), RxOk(rx, n, h, high, size, begun), PullStatus(k),
         Cardinality(Settled) = n
  PROVE  /\ rx'.window = rx.window /\ RxOk(rx', n, h, high, size, begun)
         /\ \E r : /\ reports' = reports (+) SetToBag({r})
                   /\ ReportOk(r.report, n, r.upto, size, begun)
<1>1. /\ rx' = [rx EXCEPT !.doStatus = FALSE, !.prohibit = TRUE]
      /\ reports' = reports (+) SetToBag({[report |-> Trim(StatusReport(rx), k),
                       upto |-> n + Above(rx.next, Trim(StatusReport(rx), k).ack)]})
  BY DEF PullStatus
<1>2. RxTyped(rx) /\ rx.next = SnOf(n) /\ n \in Nat /\ h \in Nat /\ n <= h
  BY DEF RxOk, RxWindow, StatusEdge
<1>3. rx'.window = rx.window /\ RxOk(rx', n, h, high, size, begun)
  <2>1. /\ RxTyped(rx') /\ rx'.next = rx.next /\ rx'.nextHighest = rx.nextHighest
        /\ rx'.window = rx.window /\ rx'.highestStatus = rx.highestStatus
        /\ rx'.trigger = rx.trigger /\ rx'.reassembly = rx.reassembly
    BY <1>1, <1>2 DEF RxTyped
  <2> QED BY <2>1, RxFlags
<1>4. PICK m \in n .. h : ReportOk(StatusReport(rx), n, m, size, begun)
  BY ReportIs DEF ReportsUpTo
<1>5. m \in Nat
  BY <1>2
<1> DEFINE report == Trim(StatusReport(rx), k)
<1>6. PICK m2 \in n .. m : ReportOk(report, n, m2, size, begun)
  <2>1. ReportsUpTo(Trim(StatusReport(rx), k), n, m, size, begun)
    BY <1>4, <1>5, TrimIs
  <2> QED BY <2>1 DEF ReportsUpTo
<1> HIDE DEF report
<1>7. n + Above(rx.next, report.ack) = m2
  <2>1. m2 \in Nat /\ n <= m2 /\ m2 <= n + Window /\ report.ack = SnOf(m2)
    BY <1>2, <1>5, <1>6 DEF ReportOk
  <2>2. Above(SnOf(n), SnOf(m2)) = m2 - n
    BY <2>1, AboveUp, ModIs
  <2> QED BY <1>2, <2>1, <2>2
<1> DEFINE r == [report |-> report, upto |-> m2]
<1>8. reports' = reports (+) SetToBag({r})
  BY <1>1, <1>7 DEF report
<1>9. r.report = report /\ r.upto = m2
  OBVIOUS
<1> HIDE DEF r
<1> QED BY <1>3, <1>6, <1>8, <1>9

--------------------------------------------------------------------------------
(* More is sent, and what was said of the SDUs stays true.                    *)

Grows(size, begun, size2, begun2) ==
    /\ SizesOk(size, begun) /\ SizesOk(size2, begun2)
    /\ Len(size) <= Len(size2)
    /\ \A k \in 1 .. Len(size) : size2[k] = size[k] /\ begun[k] <= begun2[k]

\* What was received stays sound as the transmitter sends more.
LEMMA InfoGrows ==
  ASSUME NEW size, NEW begun, NEW size2, NEW begun2, Grows(size, begun, size2, begun2),
         NEW k \in 1 .. Len(size), NEW info, InfoOk(info, k, size, begun)
  PROVE  InfoOk(info, k, size2, begun2)
<1>1. size2[k] = size[k] /\ begun[k] <= begun2[k] /\ begun[k] \in Nat /\ begun2[k] \in Nat
  <2>1. k \in 1 .. Len(size2)
    BY DEF Grows, SizesOk
  <2> QED BY <2>1 DEF Grows, SizesOk
<1>2. 0 .. begun[k] - 1 \subseteq 0 .. begun2[k] - 1
  BY <1>1
<1> QED BY <1>1, <1>2 DEF InfoOk

\* So does the receiver's state.
LEMMA RxGrows ==
  ASSUME NEW size, NEW begun, NEW size2, NEW begun2, Grows(size, begun, size2, begun2),
         NEW r, NEW n, NEW h, NEW high, RxOk(r, n, h, high, size, begun)
  PROVE  RxOk(r, n, h, high, size2, begun2)
<1>1. RxWindow(r, n, high, size, begun)
  BY DEF RxOk
<1>2. n \in Nat /\ high \in Nat /\ high <= Len(size) /\ Len(size) \in Nat /\ Len(size2) \in Nat
  BY <1>1 DEF RxWindow, Grows, SizesOk
<1>3. high <= Len(size2)
  BY <1>2 DEF Grows
<1>4. ASSUME NEW i \in n .. high - 1, HasSn(r.window, SnOf(i))
      PROVE  InfoOk(r.window[SnOf(i)], i + 1, size2, begun2)
  <2>1. i + 1 \in 1 .. Len(size)
    BY <1>2
  <2>2. InfoOk(r.window[SnOf(i)], i + 1, size, begun)
    BY <1>1, <1>4 DEF RxWindow
  <2> QED BY <2>1, <2>2, InfoGrows
<1>5. RxWindow(r, n, high, size2, begun2)
  BY <1>1, <1>3, <1>4 DEF RxWindow
<1> QED BY <1>5 DEF RxOk

\* So does a data PDU in flight.
LEMMA PduGrows ==
  ASSUME NEW size, NEW begun, NEW size2, NEW begun2, Grows(size, begun, size2, begun2),
         NEW pdu, PduOk(pdu, size, begun)
  PROVE  PduOk(pdu, size2, begun2)
<1>1. /\ pdu \in [sn : Sn, k : 1 .. Len(size), so : Nat, len : Nat \ {0}, poll : BOOLEAN]
      /\ pdu.sn = SnOf(pdu.k - 1) /\ pdu.so + pdu.len <= begun[pdu.k]
  BY DEF PduOk
<1>2. /\ pdu.k \in 1 .. Len(size) /\ Len(size) \in Nat /\ Len(size2) \in Nat
      /\ Len(size) <= Len(size2) /\ begun[pdu.k] <= begun2[pdu.k]
      /\ begun[pdu.k] \in Nat /\ begun2[pdu.k] \in Nat /\ pdu.so \in Nat /\ pdu.len \in Nat
  BY <1>1 DEF Grows, SizesOk
<1>3. pdu \in [sn : Sn, k : 1 .. Len(size2), so : Nat, len : Nat \ {0}, poll : BOOLEAN]
  <2>1. 1 .. Len(size) \subseteq 1 .. Len(size2)
    BY <1>2
  <2> QED BY <1>1, <2>1
<1>4. pdu.so + pdu.len <= begun2[pdu.k]
  <2> DEFINE x == pdu.so + pdu.len
             y == begun[pdu.k]
             z == begun2[pdu.k]
  <2>1. x \in Nat /\ y \in Nat /\ z \in Nat /\ x <= y /\ y <= z
    BY <1>1, <1>2
  <2> HIDE DEF x, y, z
  <2>2. x <= z
    BY <2>1
  <2> QED BY <2>2 DEF x, z
<1> QED BY <1>1, <1>3, <1>4 DEF PduOk

\* So does a nack.
LEMMA NackGrows ==
  ASSUME NEW size, NEW begun, NEW size2, NEW begun2, Grows(size, begun, size2, begun2),
         NEW nack \in NackType, NEW i \in Nat, NackOk(nack, i, size, begun)
  PROVE  NackOk(nack, i, size2, begun2)
<1> DEFINE l == i + nack.range
           s == Len(size)
           s2 == Len(size2)
<1>1. nack.range \in Nat /\ nack.range >= 1 /\ nack.to \in Nat /\ nack.from \in Nat
  BY DEF NackType
<1>2. s \in Nat /\ s2 \in Nat /\ s <= s2
  BY DEF Grows, SizesOk
<1>3. nack.sn = SnOf(i) /\ l <= s /\ nack.from < size[i + 1]
  BY DEF NackOk
<1>4. l \in 1 .. s /\ i + 1 \in 1 .. s
  BY <1>1, <1>2, <1>3
<1>5. size2[i + 1] = size[i + 1] /\ begun[l] <= begun2[l] /\ begun[l] \in Nat /\ begun2[l] \in Nat
  <2>1. \A k \in 1 .. s : k \in 1 .. s2
    BY <1>2
  <2> QED BY <1>4, <2>1 DEF Grows, SizesOk
<1>6. nack.to = EndOfSdu /\ (nack.from = 0 \/ nack.range > 1) => l < s
  BY DEF NackOk
<1>7. nack.to # EndOfSdu => nack.to < begun[l] /\ (nack.range = 1 => nack.from <= nack.to)
  BY DEF NackOk
<1> HIDE DEF s, s2
<1>8. l <= s2 /\ (l < s => l < s2)
  <2>1. l \in Nat
    BY <1>1
  <2> HIDE DEF l
  <2> QED BY <1>2, <1>3, <2>1
<1>9. nack.to < begun[l] => nack.to < begun2[l]
  <2> DEFINE b == begun[l]
             c == begun2[l]
             o == nack.to
  <2>1. b \in Nat /\ c \in Nat /\ o \in Nat /\ b <= c
    BY <1>1, <1>5
  <2> HIDE DEF b, c, o
  <2>2. o < b => o < c
    BY <2>1
  <2> QED BY <2>2 DEF b, c, o
<1>10. nack.from < size2[i + 1]
  BY <1>3, <1>5
<1> HIDE DEF l
<1>11. /\ l <= Len(size2)
       /\ nack.to = EndOfSdu /\ (nack.from = 0 \/ nack.range > 1) => l < Len(size2)
       /\ nack.to # EndOfSdu => nack.to < begun2[l] /\ (nack.range = 1 => nack.from <= nack.to)
  BY <1>6, <1>7, <1>8, <1>9 DEF s2
<1> QED BY <1>3, <1>10, <1>11 DEF NackOk, l

\* So does a report in flight.
LEMMA ReportGrows ==
  ASSUME NEW size, NEW begun, NEW size2, NEW begun2, Grows(size, begun, size2, begun2),
         NEW report, NEW f \in Nat, NEW upto, ReportOk(report, f, upto, size, begun)
  PROVE  ReportOk(report, f, upto, size2, begun2)
<1>1. Len(size) \in Nat /\ Len(size2) \in Nat /\ Len(size) <= Len(size2)
  BY DEF Grows, SizesOk
<1>2. upto <= Len(size2)
  BY <1>1 DEF ReportOk
<1>3. ASSUME NEW j \in DOMAIN report.nacks
      PROVE  \E i \in f .. upto - 1 : NackOk(report.nacks[j], i, size2, begun2)
  <2>1. PICK i \in f .. upto - 1 : NackOk(report.nacks[j], i, size, begun)
    BY DEF ReportOk
  <2>2. report.nacks[j] \in NackType
    BY DEF ReportOk
  <2>3. i \in Nat
    OBVIOUS
  <2>4. NackOk(report.nacks[j], i, size2, begun2)
    BY <2>1, <2>2, <2>3, NackGrows
  <2> QED BY <2>4
<1> QED BY <1>2, <1>3 DEF ReportOk

--------------------------------------------------------------------------------
(* The transmitting entity.                                                   *)

QueueType == Seq([n : Sdus, discarded : BOOLEAN])

RetxOk(retx, a, size, begun) ==
    \A j \in DOMAIN retx :
       \E i \in a .. Len(size) - 1 :
          retx[j].sn = SnOf(i) /\ retx[j].so + retx[j].len <= begun[i + 1]

LEMMA TxTypes ==
  ASSUME NEW t, TxTyped(t)
  PROVE  /\ t.queue \in QueueType /\ t.next \in Sn /\ t.nextAck \in Sn /\ t.pollSn \in Sn
         /\ t.pdus \in Nat /\ t.bytes \in Nat /\ t.sus \in Sn \cup {None}
         /\ t.retx \in Seq(RetxType) /\ t.retxSn \in Sn \cup {None}
         /\ t.pollTimer \in BOOLEAN /\ t.halted \in BOOLEAN
         /\ t.window \in [DOMAIN t.window -> EntryType]
BY DEF TxTyped, QueueType

\* A transmitting entity with the same window and other retransmissions.
LEMMA TxFrame ==
  ASSUME NEW t, NEW u, NEW a, NEW size, TxOk(t, a, size), TxTyped(u),
         u.next = t.next, u.nextAck = t.nextAck, u.window = t.window, u.sus = t.sus,
         RetxOk(u.retx, a, size, Begun(t, size))
  PROVE  TxOk(u, a, size) /\ Begun(u, size) = Begun(t, size)
<1>1. Begun(u, size) = Begun(t, size)
  BY Zenon DEF Begun
<1>2. RetxOk(u.retx, a, size, Begun(u, size))
  BY <1>1
<1>3. /\ a \in Nat /\ a <= Len(size) /\ Len(size) <= a + Window
      /\ u.nextAck = SnOf(a)
      /\ u.next = SnOf(IF u.sus = None THEN Len(size) ELSE Len(size) - 1)
      /\ DOMAIN u.window = { SnOf(i) : i \in a .. Len(size) - 1 }
      /\ \A i \in a .. Len(size) - 1 : u.window[SnOf(i)].k = i + 1
  BY DEF TxOk
<1>4. u.sus # None =>
          /\ a < Len(size) /\ u.sus = SnOf(Len(size) - 1)
          /\ u.window[u.sus].nextSo \in 1 .. size[Len(size)] - 1
  BY DEF TxOk
<1>5. TxOk(u, a, size)
  BY <1>2, <1>3, <1>4, Zenon DEF TxOk, RetxOk
<1> QED BY <1>1, <1>5

\* Popping discarded SDUs leaves a queue that is no longer.
LEMMA LiveFrontIs ==
  ASSUME NEW q \in QueueType
  PROVE  LiveFront(q) \in QueueType /\ Len(LiveFront(q)) \in Nat /\ Len(LiveFront(q)) <= Len(q)
<1> DEFINE I == { i \in 1 .. Len(q) : Live(q[i]) }
           i == SelectInSeq(q, Live)
<1>0. Len(q) \in Nat /\ q \in Seq([n : Sdus, discarded : BOOLEAN])
  BY DEF QueueType
<1>1. i = IF I # {} THEN Min(I) ELSE 0
  BY Zenon DEF SelectInSeq
<1>2. LiveFront(q) = IF i = 0 THEN <<>> ELSE SubSeq(q, i, Len(q))
  BY Zenon DEF LiveFront
<1>3. i = 0 \/ i \in 1 .. Len(q)
  <2>1. I \in SUBSET Nat
    BY <1>0
  <2>2. I # {} => Min(I) \in I
    BY <2>1, MinIs
  <2> HIDE DEF i
  <2> QED BY <1>1, <2>2
<1> HIDE DEF i
<1>4. CASE i = 0
  <2>1. <<>> \in QueueType /\ Len(<<>>) = 0
    BY DEF QueueType
  <2> QED BY <1>0, <1>2, <1>4, <2>1
<1>5. CASE i \in 1 .. Len(q) /\ i # 0
  <2>1. i \in Nat /\ 1 <= i /\ i <= Len(q) + 1 /\ Len(q) <= Len(q)
    BY <1>0, <1>5
  <2>2. /\ SubSeq(q, i, Len(q)) \in Seq([n : Sdus, discarded : BOOLEAN])
        /\ Len(SubSeq(q, i, Len(q))) = Len(q) - i + 1
    BY <1>0, <2>1, SubSeqIs
  <2>3. Len(q) - i + 1 \in Nat /\ Len(q) - i + 1 <= Len(q)
    BY <1>0, <1>5
  <2> QED BY <1>2, <1>5, <2>2, <2>3 DEF QueueType
<1> QED BY <1>3, <1>4, <1>5

\* All that waits for retransmission is in the window.
LEMMA PresentFrontIs ==
  ASSUME NEW t, NEW a, NEW size, TxOk(t, a, size)
  PROVE  PresentFront(t) = t.retx
<1> DEFINE Present(r) == HasSn(t.window, r.sn)
           I == { i \in 1 .. Len(t.retx) : Present(t.retx[i]) }
           i == SelectInSeq(t.retx, Present)
           l == Len(t.retx)
<1>0. t.retx \in Seq(RetxType) /\ l \in Nat /\ DOMAIN t.retx = 1 .. l
  <2>1. t.retx \in Seq(RetxType)
    BY TxTypes DEF TxOk
  <2> QED BY <2>1
<1>1. i = IF I # {} THEN Min(I) ELSE 0
  BY Zenon DEF SelectInSeq
<1>2. PresentFront(t) = IF i = 0 THEN <<>> ELSE SubSeq(t.retx, i, Len(t.retx))
  BY Zenon DEF PresentFront
<1>3. I = 1 .. l
  <2>1. \A j \in 1 .. l : Present(t.retx[j])
    BY <1>0 DEF TxOk, HasSn
  <2> QED BY <2>1
<1> HIDE DEF i, I
<1>4. CASE l = 0
  <2>1. t.retx = <<>> /\ I = {}
    BY <1>0, <1>3, <1>4
  <2> QED BY <1>1, <1>2, <2>1
<1>5. CASE l # 0
  <2>1. I \in SUBSET Nat /\ 1 \in I /\ \A x \in I : x >= 1
    BY <1>0, <1>3, <1>5
  <2>2. Min(I) \in I /\ Min(I) <= 1
    BY <2>1, MinIs
  <2>3. i = 1
    <3> DEFINE m == Min(I)
    <3>1. m >= 1 /\ m <= 1 /\ m \in Nat
      BY <2>1, <2>2
    <3>2. i = m
      BY <1>1, <2>1
    <3> HIDE DEF m
    <3> QED BY <3>1, <3>2
  <2> DEFINE s == SubSeq(t.retx, 1, l)
  <2>4. /\ s \in Seq(RetxType) /\ Len(s) = l - 1 + 1
        /\ \A x \in 1 .. l - 1 + 1 : s[x] = t.retx[1 + x - 1]
    <3>1. 1 \in Nat /\ 1 <= 1 /\ 1 <= l + 1 /\ l <= Len(t.retx)
      BY <1>0
    <3> QED BY <1>0, <3>1, SubSeqIs
  <2> HIDE DEF s
  <2>5. l - 1 + 1 = l /\ \A x \in 1 .. l : 1 + x - 1 = x
    BY <1>0
  <2>6. s = t.retx
    <3> DEFINE q == t.retx
    <3>1. q \in Seq(RetxType) /\ Len(q) = l /\ Len(s) = l /\ \A x \in 1 .. l : s[x] = q[x]
      BY <1>0, <2>4, <2>5
    <3> HIDE DEF q, l
    <3>2. s = q
      BY <2>4, <3>1
    <3> QED BY <3>2 DEF q
  <2> QED BY <1>2, <2>3, <2>6 DEF s
<1> QED BY <1>4, <1>5

\* Reading the buffer state changes at most the queue of SDUs.
BufferOk(u, t, a, size) ==
    /\ TxOk(u, a, size) /\ Begun(u, size) = Begun(t, size)
    /\ u.window = t.window /\ u.sus = t.sus /\ u.retx = t.retx
    /\ u.pollTimer = t.pollTimer
    /\ Len(u.queue) \in Nat /\ Len(u.queue) <= Len(t.queue)

\* Reading the buffer state pops discarded SDUs and stale retransmissions only.
LEMMA BufferReadIs ==
  ASSUME NEW t, NEW a, NEW size, TxOk(t, a, size)
  PROVE  BufferOk(BufferStateRead(t), t, a, size)
<1> DEFINE q == IF t.sus = None THEN LiveFront(t.queue) ELSE t.queue
           u == BufferStateRead(t)
<1>1. TxTyped(t) /\ t.queue \in QueueType /\ t.retx \in Seq(RetxType)
  BY TxTypes DEF TxOk
<1>2. q \in QueueType /\ Len(q) \in Nat /\ Len(q) <= Len(t.queue)
  <2>1. Len(t.queue) \in Nat
    BY <1>1 DEF QueueType
  <2> QED BY <1>1, <2>1, LiveFrontIs
<1>3. u = [t EXCEPT !.queue = q, !.retx = t.retx]
  BY PresentFrontIs DEF BufferStateRead
<1> HIDE DEF q, u
<1>4. /\ TxTyped(u) /\ u.next = t.next /\ u.nextAck = t.nextAck /\ u.window = t.window
      /\ u.sus = t.sus /\ u.retx = t.retx /\ u.queue = q /\ u.pollTimer = t.pollTimer
  BY <1>1, <1>2, <1>3 DEF TxTyped, QueueType
<1>5. RetxOk(u.retx, a, size, Begun(t, size))
  BY <1>4 DEF TxOk, RetxOk
<1>6. TxOk(u, a, size) /\ Begun(u, size) = Begun(t, size)
  BY <1>4, <1>5, TxFrame
<1> QED BY <1>2, <1>4, <1>6 DEF BufferOk, u


\* What the transmitting side keeps, a SDUs being confirmed.
TxInv(a) ==
    /\ start \in Sn /\ sent \in Seq(Sdus) /\ submitted \in 0 .. Len(Length)
    /\ Len(sent) + Len(tx.queue) <= submitted
    /\ TxOk(tx, a, Sizes)

\* What one of its steps does to it.
TxStep(a) ==
    /\ sent' \in Seq(Sdus) /\ submitted' \in 0 .. Len(Length)
    /\ Len(sent') + Len(tx'.queue) <= submitted'
    /\ TxOk(tx', a, Sizes')
    /\ Grows(Sizes, Begun(tx, Sizes), Sizes', Begun(tx', Sizes'))

\* The lengths of SDUs, numbered from one.
LEMMA LengthIs == /\ Length \in Seq(1 .. EndOfSdu) /\ Length \in Seq(Nat)
                  /\ Sdus = 1 .. Len(Length) /\ Len(Length) \in Nat
                  /\ \A n \in Sdus : Length[n] \in Nat /\ 1 <= Length[n] /\ Length[n] <= EndOfSdu
<1>1. Length \in Seq(1 .. EndOfSdu) /\ EndOfSdu \in Nat
  BY RlcAssumption DEF EndOfSdu
<1>2. Sdus = 1 .. Len(Length) /\ Len(Length) \in Nat
  BY <1>1 DEF Sdus
<1>3. \A n \in Sdus : Length[n] \in 1 .. EndOfSdu
  BY <1>1, <1>2
<1>4. 1 .. EndOfSdu \subseteq Nat
  BY <1>1
<1>5. Length \in Seq(Nat)
  BY <1>1, <1>4
<1> QED BY <1>1, <1>2, <1>3, <1>5

\* The sizes of the SDUs that have a number.
LEMMA SizesAre ==
  ASSUME sent \in Seq(Sdus)
  PROVE  /\ Sizes \in Seq(Nat) /\ Len(Sizes) = Len(sent) /\ Len(sent) \in Nat
         /\ \A k \in 1 .. Len(sent) : /\ sent[k] \in Sdus /\ Sizes[k] = Length[sent[k]]
                                      /\ Sizes[k] \in Nat /\ 1 <= Sizes[k] /\ Sizes[k] <= EndOfSdu
<1>1. Len(sent) \in Nat /\ \A k \in 1 .. Len(sent) : sent[k] \in Sdus
  OBVIOUS
<1>2. \A k \in 1 .. Len(sent) : Length[sent[k]] \in Nat
  BY <1>1, LengthIs
<1>3. Sizes \in Seq(Nat) /\ Len(Sizes) = Len(sent)
  BY <1>1, <1>2 DEF Sizes
<1>4. \A k \in 1 .. Len(sent) : Sizes[k] = Length[sent[k]]
  BY <1>1 DEF Sizes
<1> QED BY <1>1, <1>3, <1>4, LengthIs

\* No more of an SDU was sent than there is of it.
LEMMA BegunIs ==
  ASSUME NEW size \in Seq(Nat),
         \A k \in 1 .. Len(size) : 1 <= size[k] /\ size[k] <= EndOfSdu,
         NEW t, NEW a, TxOk(t, a, size)
  PROVE  SizesOk(size, Begun(t, size))
<1> DEFINE s == Len(size)
           b == Begun(t, size)
<1>1. s \in Nat /\ \A k \in 1 .. s : size[k] \in Nat /\ 1 <= size[k] /\ size[k] <= EndOfSdu
  OBVIOUS
<1>2. t.sus # None => t.window[t.sus].nextSo \in 1 .. size[s] - 1
  BY DEF TxOk
<1>3. b = [k \in 1 .. s |-> IF t.sus # None /\ k = s THEN t.window[t.sus].nextSo ELSE size[k]]
  BY DEF Begun
<1> HIDE DEF b, s
<1>4. \A k \in 1 .. s : b[k] \in Nat /\ b[k] <= size[k]
  <2> SUFFICES ASSUME NEW k \in 1 .. s PROVE b[k] \in Nat /\ b[k] <= size[k]
    OBVIOUS
  <2>1. CASE t.sus # None /\ k = s
    BY <1>1, <1>2, <1>3, <2>1
  <2>2. CASE ~(t.sus # None /\ k = s)
    <3>1. b[k] = size[k]
      BY <1>3, <2>2
    <3> QED BY <1>1, <3>1
  <2> QED BY <2>1, <2>2
<1>5. b \in [1 .. s -> Nat]
  BY <1>3, <1>4
<1> QED BY <1>1, <1>4, <1>5 DEF SizesOk, b, s

LEMMA BegunOk ==
  ASSUME sent \in Seq(Sdus), NEW t, NEW a, TxOk(t, a, Sizes)
  PROVE  SizesOk(Sizes, Begun(t, Sizes))
BY SizesAre, BegunIs

\* Where nothing more was sent.
LEMMA SameSent ==
  ASSUME NEW a, TxInv(a), sent' = sent, submitted' \in 0 .. Len(Length), submitted' >= submitted,
         TxOk(tx', a, Sizes), Begun(tx', Sizes) = Begun(tx, Sizes),
         Len(tx'.queue) \in Nat,
         Len(sent) + Len(tx'.queue) <= submitted'
  PROVE  TxStep(a) /\ Sizes' = Sizes
<1>1. Sizes' = Sizes
  BY DEF Sizes
<1>2. SizesOk(Sizes, Begun(tx, Sizes))
  BY BegunOk DEF TxInv
<1>3. Grows(Sizes, Begun(tx, Sizes), Sizes, Begun(tx, Sizes))
  <2>1. \A k \in 1 .. Len(Sizes) : Begun(tx, Sizes)[k] \in Nat
    BY <1>2 DEF SizesOk
  <2>2. Len(Sizes) \in Nat
    BY <1>2 DEF SizesOk
  <2> QED BY <1>2, <2>1, <2>2 DEF Grows
<1> QED BY <1>1, <1>3 DEF TxStep, TxInv

\* A new SDU keeps the transmitter's invariant.
LEMMA SduQueued ==
  ASSUME NEW a, TxInv(a), HandleSdu
  PROVE  TxStep(a) /\ Sizes' = Sizes
<1> DEFINE e == [n |-> submitted + 1, discarded |-> FALSE]
           t == [tx EXCEPT !.queue = Append(@, e)]
           m == Len(tx.queue)
<1>1. tx' = BufferStateRead(t) /\ submitted' = submitted + 1 /\ submitted < Len(Length) /\ sent' = sent
  BY DEF HandleSdu
<1>2. TxTyped(tx) /\ tx.queue \in QueueType /\ TxOk(tx, a, Sizes)
  BY TxTypes DEF TxOk, TxInv
<1>3. submitted \in Nat /\ submitted + 1 \in Sdus /\ m \in Nat
  BY <1>1, <1>2, LengthIs DEF TxInv, QueueType
<1>4. t.queue \in QueueType /\ Len(t.queue) = m + 1
  <2>1. e \in [n : Sdus, discarded : BOOLEAN]
    BY <1>3
  <2> HIDE DEF e
  <2>2. t.queue = Append(tx.queue, e)
    BY <1>2 DEF TxTyped
  <2> QED BY <1>2, <2>1, <2>2 DEF QueueType
<1>5. /\ TxTyped(t) /\ t.next = tx.next /\ t.nextAck = tx.nextAck /\ t.window = tx.window
      /\ t.sus = tx.sus /\ t.retx = tx.retx
  <2> DEFINE q == Append(tx.queue, e)
  <2>1. t = [tx EXCEPT !.queue = q] /\ q \in QueueType
    BY <1>2, <1>4 DEF TxTyped
  <2> HIDE DEF q, t
  <2> QED BY <1>2, <2>1 DEF TxTyped, QueueType
<1> HIDE DEF t
<1>6. TxOk(t, a, Sizes) /\ Begun(t, Sizes) = Begun(tx, Sizes)
  <2>1. RetxOk(t.retx, a, Sizes, Begun(tx, Sizes))
    BY <1>2, <1>5 DEF TxOk, RetxOk
  <2> QED BY <1>2, <1>5, <2>1, TxFrame
<1>7. BufferOk(tx', t, a, Sizes)
  BY <1>1, <1>6, BufferReadIs
<1>8. Len(tx'.queue) \in Nat /\ Len(tx'.queue) <= m + 1
  BY <1>4, <1>7 DEF BufferOk
<1>9. submitted' \in 0 .. Len(Length) /\ submitted' >= submitted /\ Len(sent) + Len(tx'.queue) <= submitted'
  <2>1. Len(sent) \in Nat /\ Len(sent) + m <= submitted
    BY SizesAre DEF TxInv
  <2> QED BY <1>1, <1>3, <1>8, <2>1, LengthIs
<1> QED BY <1>1, <1>6, <1>7, <1>8, <1>9, SameSent DEF BufferOk

\* A discarded SDU keeps the transmitter's invariant.
LEMMA SduDiscarded ==
  ASSUME NEW a, TxInv(a), DiscardSdu
  PROVE  TxStep(a) /\ Sizes' = Sizes
<1>1. PICK i \in DOMAIN tx.queue : tx' = BufferStateRead([tx EXCEPT !.queue[i].discarded = TRUE])
  BY DEF DiscardSdu
<1> DEFINE t == [tx EXCEPT !.queue[i].discarded = TRUE]
           m == Len(tx.queue)
<1>2. TxTyped(tx) /\ tx.queue \in QueueType /\ TxOk(tx, a, Sizes) /\ submitted' = submitted /\ sent' = sent
  BY TxTypes DEF TxOk, TxInv, DiscardSdu
<1>3. submitted \in 0 .. Len(Length) /\ m \in Nat
  BY <1>2, LengthIs DEF TxInv, QueueType
<1>4. t.queue \in QueueType /\ Len(t.queue) = m
      /\ TxTyped(t) /\ t.next = tx.next /\ t.nextAck = tx.nextAck /\ t.window = tx.window
      /\ t.sus = tx.sus /\ t.retx = tx.retx
  <2> DEFINE q == [tx.queue EXCEPT ![i].discarded = TRUE]
  <2>1. t = [tx EXCEPT !.queue = q]
    OBVIOUS
  <2>2. q \in QueueType /\ Len(q) = m
    <3>0. tx.queue \in Seq([n : Sdus, discarded : BOOLEAN]) /\ i \in 1 .. Len(tx.queue)
      BY <1>2 DEF QueueType
    <3>1. tx.queue[i] \in [n : Sdus, discarded : BOOLEAN]
      <4> DEFINE R == [n : Sdus, discarded : BOOLEAN]
                 s == tx.queue
      <4>1. s \in Seq(R) /\ i \in 1 .. Len(s)
        BY <3>0
      <4> HIDE DEF R, s
      <4>2. s[i] \in R
        BY <4>1
      <4> QED BY <4>2 DEF R, s
    <3>2. [tx.queue[i] EXCEPT !.discarded = TRUE] \in [n : Sdus, discarded : BOOLEAN]
      BY <3>1
    <3> QED BY <1>2, <3>2 DEF QueueType
  <2> HIDE DEF q, t
  <2> QED BY <1>2, <2>1, <2>2 DEF TxTyped, QueueType
<1> HIDE DEF t
<1>6. TxOk(t, a, Sizes) /\ Begun(t, Sizes) = Begun(tx, Sizes)
  <2>1. RetxOk(t.retx, a, Sizes, Begun(tx, Sizes))
    BY <1>2, <1>4 DEF TxOk, RetxOk
  <2> QED BY <1>2, <1>4, <2>1, TxFrame
<1>7. BufferOk(tx', t, a, Sizes)
  BY <1>1, <1>6, BufferReadIs DEF t
<1>8. Len(tx'.queue) \in Nat /\ Len(tx'.queue) <= m
  BY <1>4, <1>7 DEF BufferOk
<1>9. submitted' \in 0 .. Len(Length) /\ submitted' >= submitted /\ Len(sent) + Len(tx'.queue) <= submitted'
  <2>1. Len(sent) \in Nat /\ Len(sent) + m <= submitted
    BY SizesAre DEF TxInv
  <2> QED BY <1>2, <1>3, <1>8, <2>1, LengthIs
<1> QED BY <1>2, <1>6, <1>7, <1>8, <1>9, SameSent DEF BufferOk

\* What get_polling_bit leaves alone.
PollOk(p, t) ==
    /\ p.poll \in BOOLEAN /\ TxTyped(p.tx)
    /\ p.tx.queue = t.queue /\ p.tx.next = t.next /\ p.tx.nextAck = t.nextAck
    /\ p.tx.window = t.window /\ p.tx.sus = t.sus /\ p.tx.retx = t.retx

\* Deciding on a poll for new data leaves the window and the queues alone.
LEMMA NewPollIs ==
  ASSUME NEW t, TxTyped(t), NEW sn \in Sn, NEW payload \in Nat
  PROVE  PollOk(NewPoll(t, sn, payload), t)
<1> DEFINE pdus == t.pdus + 1
           bytes == t.bytes + payload
           poll == \/ PollPdu > 0 /\ pdus >= PollPdu
                   \/ PollByte > 0 /\ bytes >= PollByte
                   \/ Exhausted(t)
           u == IF poll
                THEN [t EXCEPT !.pdus = 0, !.bytes = 0, !.pollSn = sn, !.pollTimer = TRUE]
                ELSE [t EXCEPT !.pdus = pdus, !.bytes = bytes]
<1>1. NewPoll(t, sn, payload) = [poll |-> poll, tx |-> u]
  BY Zenon DEF NewPoll
<1>2. poll \in BOOLEAN
  OBVIOUS
<1>3. pdus \in Nat /\ bytes \in Nat
  BY DEF TxTyped
<1> HIDE DEF poll, pdus, bytes
<1>4. /\ TxTyped(u) /\ u.queue = t.queue /\ u.next = t.next /\ u.nextAck = t.nextAck
      /\ u.window = t.window /\ u.sus = t.sus /\ u.retx = t.retx
  <2>1. CASE poll
    BY <1>3, <2>1 DEF TxTyped
  <2>2. CASE ~poll
    BY <1>3, <2>2 DEF TxTyped
  <2> QED BY <2>1, <2>2
<1> HIDE DEF u
<1> QED BY <1>1, <1>2, <1>4 DEF PollOk

\* So does deciding on one for a retransmission.
LEMMA RetxPollIs ==
  ASSUME NEW t, TxTyped(t)
  PROVE  PollOk(RetxPoll(t), t)
<1> DEFINE poll == Exhausted(t)
           u == IF poll THEN [t EXCEPT !.pdus = 0, !.bytes = 0, !.pollTimer = TRUE] ELSE t
<1>1. RetxPoll(t) = [poll |-> poll, tx |-> u]
  BY Zenon DEF RetxPoll
<1>2. poll \in BOOLEAN
  BY DEF Exhausted
<1> HIDE DEF poll
<1>4. /\ TxTyped(u) /\ u.queue = t.queue /\ u.next = t.next /\ u.nextAck = t.nextAck
      /\ u.window = t.window /\ u.sus = t.sus /\ u.retx = t.retx
  <2>1. CASE poll
    BY <2>1 DEF TxTyped
  <2>2. CASE ~poll
    BY <2>2 DEF TxTyped
  <2> QED BY <2>1, <2>2
<1> HIDE DEF u
<1> QED BY <1>1, <1>2, <1>4 DEF PollOk

\* A window that is not full has room for one more.
LEMMA RoomForOne ==
  ASSUME start \in Sn, NEW t, NEW a, NEW size, TxOk(t, a, size), ~WindowFull(t), Len(size) \in Nat
  PROVE  Len(size) + 1 <= a + Window
<1> DEFINE s == Len(size)
<1>1. a \in Nat /\ a <= s /\ s <= a + Window /\ DOMAIN t.window = { SnOf(i) : i \in a .. s - 1 }
  BY DEF TxOk
<1>2. Cardinality(DOMAIN t.window) # Window
  BY DEF WindowFull
<1> HIDE DEF s
<1>3. s \in Nat /\ a \in Int /\ s \in Int /\ s <= a + Mod
  BY <1>1, ModIs DEF s
<1>4. Cardinality({ SnOf(i) : i \in a .. s - 1 }) = s - a
  BY <1>1, <1>3, CountOfSns
<1>5. s - a # Window
  BY <1>1, <1>2, <1>4
<1>6. s + 1 <= a + Window
  BY <1>1, <1>3, <1>5, ModIs
<1> QED BY <1>6 DEF s

\* The next SDU in the window.
LEMMA TxExtended ==
  ASSUME start \in Sn, NEW t, NEW u, NEW a, NEW size, NEW size2, NEW s \in Nat,
         TxOk(t, a, size), Len(size) = s, Len(size2) = s + 1, s + 1 <= a + Window,
         TxTyped(u), u.nextAck = t.nextAck, u.retx = <<>>,
         DOMAIN u.window = DOMAIN t.window \cup {SnOf(s)},
         \A sn \in DOMAIN t.window : sn # SnOf(s) => u.window[sn] = t.window[sn],
         u.window[SnOf(s)].k = s + 1,
         \/ u.sus = None /\ u.next = SnOf(s + 1)
         \/ /\ u.sus # None /\ u.sus = SnOf(s) /\ u.next = SnOf(s)
            /\ u.window[SnOf(s)].nextSo \in 1 .. size2[s + 1] - 1
  PROVE  TxOk(u, a, size2)
<1>1. /\ a \in Nat /\ a <= s /\ t.nextAck = SnOf(a)
      /\ DOMAIN t.window = { SnOf(i) : i \in a .. s - 1 }
      /\ \A i \in a .. s - 1 : t.window[SnOf(i)].k = i + 1
  BY DEF TxOk
<1>2. s + 1 - 1 = s /\ a .. s = (a .. s - 1) \cup {s} /\ a <= s + 1 /\ a < s + 1
  BY <1>1
<1>3. DOMAIN u.window = { SnOf(i) : i \in a .. s }
  BY <1>1, <1>2
<1>4. ASSUME NEW i \in a .. s PROVE u.window[SnOf(i)].k = i + 1
  <2>1. CASE i = s
    BY <2>1
  <2>2. CASE i # s
    <3>1. i \in a .. s - 1
      BY <1>1, <2>2
    <3>2. SnOf(i) # SnOf(s)
      <4>1. a \in Int /\ i \in Int /\ s \in Int /\ a <= i /\ i <= a + Window /\ s <= a + Window
        BY <1>1, <3>1, ModIs
      <4> QED BY <1>1, <2>2, <4>1, Apart
    <3> QED BY <1>1, <3>1, <3>2
  <2> QED BY <2>1, <2>2
<1>5. u.next = SnOf(IF u.sus = None THEN Len(size2) ELSE Len(size2) - 1)
  BY <1>2
<1>6. u.sus # None =>
          /\ a < Len(size2) /\ u.sus = SnOf(Len(size2) - 1)
          /\ u.window[u.sus].nextSo \in 1 .. size2[Len(size2)] - 1
  BY <1>2
<1>7. DOMAIN u.window = { SnOf(i) : i \in a .. Len(size2) - 1 }
      /\ \A i \in a .. Len(size2) - 1 : u.window[SnOf(i)].k = i + 1
  BY <1>2, <1>3, <1>4
<1>8. DOMAIN u.retx = {}
  OBVIOUS
<1> QED BY <1>1, <1>2, <1>5, <1>6, <1>7, <1>8 DEF TxOk

\* A PDU that leaves.
Sends(a) ==
    \/ data' = data
    \/ \E pdu : data' = data (+) SetToBag({pdu}) /\ PduOk(pdu, Sizes', Begun(tx', Sizes'))

\* The counts when nothing is counted: a new SDU starts at NotStarted.
NewCounts(w, v) ==
    \A x \in DOMAIN w :
       w[x].retx = NotStarted \/ (x \in DOMAIN v /\ w[x].retx = v[x].retx)

\* A new SDU, whole or its first segment, takes the next number and keeps the window.
LEMMA NewPulled ==
  ASSUME NEW a, TxInv(a), NEW grant \in Nat \ {0}, PullNew(grant)
  PROVE  /\ TxStep(a) /\ Sends(a) /\ (sent' = sent \/ \E n \in Sdus : sent' = Append(sent, n))
         /\ NewCounts(tx'.window, tx.window)
<1> DEFINE queue == LiveFront(tx.queue)
           n == Head(queue).n
           s == Len(sent)
           k == s + 1
           sn == tx.next
           whole == Length[n] <= grant
           info == [k |-> k, nextSo |-> 0, retx |-> NotStarted]
           t == [tx EXCEPT !.queue = Tail(queue),
                           !.window = WithSn(@, sn, info),
                           !.sus = IF whole THEN None ELSE sn]
           polled == NewPoll(t, sn, IF whole THEN 0 ELSE grant)
           len == IF whole THEN Length[n] ELSE grant
           pdu == DataPdu(sn, k, 0, len, polled.poll)
<1>1. /\ tx.retx = <<>> /\ tx.sus = None /\ tx.queue # <<>> /\ ~WindowFull(tx)
      /\ submitted' = submitted
      /\ IF queue = <<>>
         THEN tx' = [tx EXCEPT !.queue = <<>>] /\ UNCHANGED <<sent, env>>
         ELSE /\ sent' = Append(sent, n)
              /\ Transmit(pdu)
              /\ tx' = IF whole
                       THEN [polled.tx EXCEPT !.next = (@ + 1) % Mod]
                       ELSE [polled.tx EXCEPT !.window[sn].nextSo = grant]
  BY Zenon DEF PullNew
<1>2. /\ TxTyped(tx) /\ tx.queue \in QueueType /\ TxOk(tx, a, Sizes) /\ sent \in Seq(Sdus)
      /\ start \in Sn /\ submitted \in 0 .. Len(Length) /\ s + Len(tx.queue) <= submitted
      /\ tx.window \in [DOMAIN tx.window -> EntryType] /\ sn \in Sn
  BY TxTypes DEF TxOk, TxInv
<1>3. queue \in QueueType /\ Len(queue) \in Nat /\ Len(queue) <= Len(tx.queue) /\ Len(tx.queue) \in Nat
  <2>1. Len(tx.queue) \in Nat
    BY <1>2 DEF QueueType
  <2> QED BY <1>2, <2>1, LiveFrontIs
<1>4. s \in Nat /\ Len(Sizes) = s /\ Len(Length) \in Nat
  BY <1>2, SizesAre, LengthIs
<1>5. /\ a \in Nat /\ a <= s /\ sn = SnOf(s) /\ s + 1 <= a + Window
      /\ DOMAIN tx.window = { SnOf(i) : i \in a .. s - 1 }
  <2>1. a \in Nat /\ a <= s /\ sn = SnOf(s) /\ DOMAIN tx.window = { SnOf(i) : i \in a .. s - 1 }
    BY <1>1, <1>2, <1>4 DEF TxOk
  <2> QED BY <1>1, <1>2, <1>4, <2>1, RoomForOne
<1> HIDE DEF queue
<1>6. CASE queue = <<>>
  <2>1. tx' = [tx EXCEPT !.queue = <<>>] /\ sent' = sent /\ data' = data
    BY <1>1, <1>6 DEF env
  <2>2. <<>> \in QueueType /\ Len(<<>>) = 0
    BY DEF QueueType
  <2>3. /\ TxTyped(tx') /\ tx'.next = tx.next /\ tx'.nextAck = tx.nextAck /\ tx'.window = tx.window
        /\ tx'.sus = tx.sus /\ tx'.retx = tx.retx /\ tx'.queue = <<>>
    BY <1>2, <2>1, <2>2 DEF TxTyped, QueueType
  <2>4. RetxOk(tx'.retx, a, Sizes, Begun(tx, Sizes))
    BY <1>2, <2>3 DEF TxOk, RetxOk
  <2>5. TxOk(tx', a, Sizes) /\ Begun(tx', Sizes) = Begun(tx, Sizes)
    BY <1>2, <2>3, <2>4, TxFrame
  <2>6. submitted' \in 0 .. Len(Length) /\ submitted' >= submitted /\ Len(tx'.queue) \in Nat
        /\ Len(sent) + Len(tx'.queue) <= submitted'
    BY <1>1, <1>2, <1>3, <1>4, <2>2, <2>3
  <2>7. NewCounts(tx'.window, tx.window)
    BY <2>3 DEF NewCounts
  <2> QED BY <2>1, <2>5, <2>6, <2>7, SameSent DEF Sends
<1>7. CASE queue # <<>>
  <2>1. /\ sent' = Append(sent, n) /\ data' = data (+) SetToBag({pdu})
        /\ tx' = IF whole
                 THEN [polled.tx EXCEPT !.next = (@ + 1) % Mod]
                 ELSE [polled.tx EXCEPT !.window[sn].nextSo = grant]
    BY <1>1, <1>7 DEF Transmit
  <2>2. n \in Sdus /\ Tail(queue) \in QueueType /\ Len(Tail(queue)) = Len(queue) - 1
    <3> DEFINE R == [n : Sdus, discarded : BOOLEAN]
    <3>1. queue \in Seq(R)
      BY <1>3 DEF QueueType
    <3>2. \A e \in R : e.n \in Sdus
      OBVIOUS
    <3> HIDE DEF R
    <3>3. Head(queue) \in R /\ Tail(queue) \in Seq(R) /\ Len(Tail(queue)) = Len(queue) - 1
      BY <1>7, <3>1
    <3> QED BY <3>2, <3>3 DEF R, QueueType
  <2> HIDE DEF n
  <2>3. Length[n] \in Nat /\ 1 <= Length[n] /\ Length[n] <= EndOfSdu
    BY <2>2, LengthIs
  \* The sizes after the step.
  <2>4. sent' \in Seq(Sdus) /\ Len(sent') = s + 1 /\ sent'[s + 1] = n /\ \A x \in 1 .. s : sent'[x] = sent[x]
    BY <1>2, <2>1, <2>2
  <2>5. /\ Len(Sizes') = s + 1 /\ Sizes'[s + 1] = Length[n] /\ \A x \in 1 .. s : Sizes'[x] = Sizes[x]
    <3>1. Sizes' = [x \in 1 .. s + 1 |-> Length[sent'[x]]]
      BY <2>4 DEF Sizes
    <3>2. Sizes = [x \in 1 .. s |-> Length[sent[x]]]
      BY DEF Sizes
    <3>3. s + 1 \in 1 .. s + 1 /\ s + 1 \in Nat
      BY <1>4
    <3>4. Len(Sizes') = s + 1
      BY <3>1, <3>3
    <3>5. \A x \in 1 .. s : x \in 1 .. s + 1
      BY <1>4
    <3> QED BY <2>4, <3>1, <3>2, <3>3, <3>4, <3>5
  <2>14. Sizes' \in Seq(Nat) /\ \A x \in 1 .. Len(Sizes') : 1 <= Sizes'[x] /\ Sizes'[x] <= EndOfSdu
    <3>1. \A x \in 1 .. s : Sizes[x] \in Nat /\ 1 <= Sizes[x] /\ Sizes[x] <= EndOfSdu
      BY <1>2, SizesAre
    <3>2. \A x \in 1 .. s + 1 : Sizes'[x] \in Nat /\ 1 <= Sizes'[x] /\ Sizes'[x] <= EndOfSdu
      <4> SUFFICES ASSUME NEW x \in 1 .. s + 1 PROVE Sizes'[x] \in Nat /\ 1 <= Sizes'[x] /\ Sizes'[x] <= EndOfSdu
        OBVIOUS
      <4>1. x = s + 1 \/ x \in 1 .. s
        BY <1>4
      <4> QED BY <2>3, <2>5, <3>1, <4>1
    <3>3. Sizes' = [x \in 1 .. s + 1 |-> Length[sent'[x]]]
      BY <2>4 DEF Sizes
    <3>4. \A x \in 1 .. s + 1 : Length[sent'[x]] \in Nat
      BY <3>2, <3>3
    <3>5. Sizes' \in Seq(Nat)
      <4> HIDE DEF s
      <4>1. s + 1 \in Nat
        BY <1>4
      <4> QED BY <3>3, <3>4, <4>1
    <3> QED BY <2>5, <3>2, <3>5
  <2>15. submitted' \in 0 .. Len(Length) /\ Len(sent') + Len(Tail(queue)) <= submitted'
    <3> DEFINE lq == Len(queue)
               lt == Len(tx.queue)
    <3>1. lq \in Nat /\ lt \in Nat /\ lq <= lt /\ s + lt <= submitted /\ submitted' = submitted
      BY <1>1, <1>2, <1>3
    <3>2. Len(sent') = s + 1 /\ Len(Tail(queue)) = lq - 1
      BY <2>2, <2>4
    <3> HIDE DEF lq, lt, s
    <3>3. (s + 1) + (lq - 1) <= submitted
      BY <1>2, <1>4, <3>1
    <3> QED BY <1>2, <3>1, <3>2, <3>3
  \* What the polled entity is.
  <2> DEFINE w == WithSn(tx.window, sn, info)
  <2>6. DOMAIN w = DOMAIN tx.window \cup {sn} /\ w[sn] = info
        /\ \A x \in DOMAIN tx.window : x # sn => w[x] = tx.window[x]
    BY DEF WithSn
  <2>7. w \in [DOMAIN w -> EntryType]
    <3>1. info \in EntryType
      BY <1>4 DEF EntryType, NotStarted
    <3> HIDE DEF info
    <3> QED BY <1>2, <3>1 DEF WithSn
  <2>8. info.k = s + 1
    OBVIOUS
  <2>9. /\ TxTyped(t) /\ t.queue = Tail(queue) /\ t.next = sn /\ t.nextAck = tx.nextAck /\ t.window = w
        /\ t.sus = (IF whole THEN None ELSE sn) /\ t.retx = <<>>
    <3> DEFINE sus == IF whole THEN None ELSE sn
               tail == Tail(queue)
    <3>1. sus \in Sn \cup {None} /\ tail \in QueueType
      BY <1>2, <2>2
    <3>2. t = [tx EXCEPT !.queue = tail, !.window = w, !.sus = sus]
      OBVIOUS
    <3> HIDE DEF w, sus, tail, t
    <3>3. /\ TxTyped(t) /\ t.queue = tail /\ t.next = tx.next /\ t.nextAck = tx.nextAck
          /\ t.window = w /\ t.sus = sus /\ t.retx = tx.retx
      BY <1>2, <2>7, <3>1, <3>2 DEF TxTyped, QueueType
    <3> QED BY <1>1, <3>3 DEF sus, tail
  <2> HIDE DEF t, w
  <2>10. PollOk(polled, t)
    <3>1. (IF whole THEN 0 ELSE grant) \in Nat
      OBVIOUS
    <3> QED BY <1>2, <2>9, <3>1, NewPollIs
  <2> DEFINE v == polled.tx
  <2>11. /\ polled.poll \in BOOLEAN /\ TxTyped(v) /\ v.queue = Tail(queue) /\ v.next = sn
         /\ v.nextAck = tx.nextAck /\ v.window = w /\ v.sus = (IF whole THEN None ELSE sn)
         /\ v.retx = <<>>
    BY <2>9, <2>10 DEF PollOk
  <2> HIDE DEF v, polled
  <2>12. CASE whole
    <3>1. tx' = [v EXCEPT !.next = (sn + 1) % Mod]
      BY <2>1, <2>11, <2>12 DEF v
    <3>2. (sn + 1) % Mod = SnOf(s + 1) /\ SnOf(s + 1) \in Sn
      <4>1. s \in Int /\ 1 \in Int /\ s + 1 \in Int
        BY <1>4
      <4>2. (SnOf(s) + 1) % Mod = SnOf(s + 1)
        BY <1>2, <4>1, SnOfSum, Zenon
      <4> QED BY <1>2, <1>5, <4>1, <4>2, SnOfType
    <3>3. /\ TxTyped(tx') /\ tx'.queue = v.queue /\ tx'.next = SnOf(s + 1) /\ tx'.nextAck = v.nextAck
          /\ tx'.window = v.window /\ tx'.sus = v.sus /\ tx'.retx = v.retx
      BY <2>11, <3>1, <3>2 DEF TxTyped
    <3>4. /\ tx'.queue = Tail(queue) /\ tx'.nextAck = tx.nextAck /\ tx'.window = w
          /\ tx'.sus = None /\ tx'.retx = <<>>
      BY <2>11, <2>12, <3>3
    <3>5. TxOk(tx', a, Sizes')
      <4>1. /\ DOMAIN tx'.window = DOMAIN tx.window \cup {SnOf(s)}
            /\ \A x \in DOMAIN tx.window : x # SnOf(s) => tx'.window[x] = tx.window[x]
            /\ tx'.window[SnOf(s)].k = s + 1
        BY <1>5, <2>6, <2>8, <3>4
      <4> QED BY <1>2, <1>4, <1>5, <2>5, <3>3, <3>4, <4>1, TxExtended
    <3>6. Begun(tx', Sizes') = [x \in 1 .. s + 1 |-> Sizes'[x]]
      BY <2>5, <3>4 DEF Begun
    <3>7. Begun(tx, Sizes) = [x \in 1 .. s |-> Sizes[x]]
      BY <1>1, <1>4 DEF Begun
    <3>8. pdu = [sn |-> sn, k |-> s + 1, so |-> 0, len |-> Length[n], poll |-> polled.poll]
      BY <2>12 DEF DataPdu
    <3>9. PduOk(pdu, Sizes', Begun(tx', Sizes'))
      <4>1. s + 1 \in 1 .. s + 1 /\ s + 1 - 1 = s
        BY <1>4
      <4>2. Begun(tx', Sizes')[s + 1] = Length[n]
        BY <2>5, <3>6, <4>1
      <4>3. Length[n] \in Nat \ {0} /\ 0 + Length[n] <= Length[n] /\ 0 \in Nat
        BY <2>3
      <4> HIDE DEF pdu
      <4> QED BY <1>2, <1>5, <2>5, <2>11, <3>8, <4>1, <4>2, <4>3 DEF PduOk
    <3>10. Grows(Sizes, Begun(tx, Sizes), Sizes', Begun(tx', Sizes'))
      <4>1. SizesOk(Sizes, Begun(tx, Sizes))
        BY <1>2, BegunOk
      <4>2. SizesOk(Sizes', Begun(tx', Sizes'))
        BY <2>14, <3>5, BegunIs
      <4>3. \A x \in 1 .. s : Sizes[x] \in Nat /\ x \in 1 .. s + 1
        BY <1>2, <1>4, SizesAre
      <4> QED BY <1>4, <2>5, <3>6, <3>7, <4>1, <4>2, <4>3 DEF Grows
    <3>11. Len(sent') + Len(tx'.queue) <= submitted' /\ submitted' \in 0 .. Len(Length)
      BY <2>15, <3>4
    <3>12. NewCounts(tx'.window, tx.window)
      BY <2>6, <3>4 DEF NewCounts
    <3> QED BY <2>1, <2>2, <2>4, <3>5, <3>9, <3>10, <3>11, <3>12 DEF TxStep, Sends
  <2>13. CASE ~whole
    <3>1. tx' = [v EXCEPT !.window[sn].nextSo = grant]
      BY <2>1, <2>13 DEF v
    <3> DEFINE w2 == [w EXCEPT ![sn].nextSo = grant]
    <3>2. /\ DOMAIN w2 = DOMAIN w /\ w2 \in [DOMAIN w2 -> EntryType]
          /\ w2[sn] = [info EXCEPT !.nextSo = grant] /\ \A x \in DOMAIN w : x # sn => w2[x] = w[x]
      <4>1. [info EXCEPT !.nextSo = grant] \in EntryType
        BY <1>4 DEF EntryType, NotStarted
      <4> HIDE DEF info
      <4> QED BY <2>6, <2>7, <4>1
    <3>3. /\ DOMAIN w2 = DOMAIN tx.window \cup {sn}
          /\ \A x \in DOMAIN tx.window : x # sn => w2[x] = tx.window[x]
          /\ w2[sn].k = s + 1 /\ w2[sn].nextSo = grant
      BY <2>6, <3>2
    <3>4. tx' = [v EXCEPT !.window = w2]
      BY <2>11, <3>1
    <3> HIDE DEF w2
    <3>5. /\ TxTyped(tx') /\ tx'.queue = v.queue /\ tx'.next = v.next /\ tx'.nextAck = v.nextAck
          /\ tx'.window = w2 /\ tx'.sus = v.sus /\ tx'.retx = v.retx
      BY <2>11, <3>2, <3>4 DEF TxTyped
    <3>6. /\ tx'.queue = Tail(queue) /\ tx'.nextAck = tx.nextAck /\ tx'.next = SnOf(s)
          /\ tx'.sus = SnOf(s) /\ tx'.sus # None /\ tx'.retx = <<>>
      <4>1. sn # None
        BY <1>2, RlcAssumption DEF Sn
      <4> QED BY <1>5, <2>11, <2>13, <3>5, <4>1
    <3>7. grant \in 1 .. Sizes'[s + 1] - 1
      BY <2>3, <2>5, <2>13
    <3>8. TxOk(tx', a, Sizes')
      <4>1. /\ DOMAIN tx'.window = DOMAIN tx.window \cup {SnOf(s)}
            /\ \A x \in DOMAIN tx.window : x # SnOf(s) => tx'.window[x] = tx.window[x]
            /\ tx'.window[SnOf(s)].k = s + 1
            /\ tx'.window[SnOf(s)].nextSo \in 1 .. Sizes'[s + 1] - 1
        BY <1>5, <3>3, <3>5, <3>7
      <4> QED BY <1>2, <1>4, <1>5, <2>5, <3>5, <3>6, <4>1, TxExtended
    <3>9. Begun(tx', Sizes') = [x \in 1 .. s + 1 |-> IF x = s + 1 THEN grant ELSE Sizes'[x]]
      BY <1>5, <2>5, <3>3, <3>5, <3>6 DEF Begun
    <3>10. Begun(tx, Sizes) = [x \in 1 .. s |-> Sizes[x]]
      BY <1>1, <1>4 DEF Begun
    <3>11. pdu = [sn |-> sn, k |-> s + 1, so |-> 0, len |-> grant, poll |-> polled.poll]
      BY <2>13 DEF DataPdu
    <3>12. PduOk(pdu, Sizes', Begun(tx', Sizes'))
      <4>1. s + 1 \in 1 .. s + 1 /\ s + 1 - 1 = s
        BY <1>4
      <4>2. Begun(tx', Sizes')[s + 1] = grant
        BY <3>9, <4>1
      <4>3. 0 + grant <= grant /\ 0 \in Nat
        OBVIOUS
      <4> HIDE DEF pdu
      <4> QED BY <1>2, <1>5, <2>5, <2>11, <3>11, <4>1, <4>2, <4>3 DEF PduOk
    <3>13. Grows(Sizes, Begun(tx, Sizes), Sizes', Begun(tx', Sizes'))
      <4>1. SizesOk(Sizes, Begun(tx, Sizes))
        BY <1>2, BegunOk
      <4>2. SizesOk(Sizes', Begun(tx', Sizes'))
        BY <2>14, <3>8, BegunIs
      <4>3. \A x \in 1 .. s : Sizes[x] \in Nat /\ x \in 1 .. s + 1 /\ x # s + 1
        BY <1>2, <1>4, SizesAre
      <4> QED BY <1>4, <2>5, <3>9, <3>10, <4>1, <4>2, <4>3 DEF Grows
    <3>14. Len(sent') + Len(tx'.queue) <= submitted' /\ submitted' \in 0 .. Len(Length)
      BY <2>15, <3>6
    <3>15. NewCounts(tx'.window, tx.window)
      <4>1. w2[sn].retx = NotStarted
        BY <3>2
      <4> QED BY <3>3, <3>5, <4>1 DEF NewCounts
    <3> QED BY <2>1, <2>2, <2>4, <3>8, <3>12, <3>13, <3>14, <3>15 DEF TxStep, Sends
  <2> QED BY <2>12, <2>13
<1> QED BY <1>6, <1>7

\* More of the last SDU in the window.
LEMMA TxContinued ==
  ASSUME NEW t, NEW u, NEW a, NEW size, TxOk(t, a, size), t.sus # None,
         TxTyped(u), u.nextAck = t.nextAck, u.retx = <<>>,
         DOMAIN u.window = DOMAIN t.window,
         \A sn \in DOMAIN t.window : u.window[sn].k = t.window[sn].k,
         \/ u.sus = None /\ u.next = SnOf(Len(size))
         \/ /\ u.sus = t.sus /\ u.next = t.next
            /\ u.window[u.sus].nextSo \in 1 .. size[Len(size)] - 1
  PROVE  TxOk(u, a, size)
<1>1. /\ a \in Nat /\ a <= Len(size) /\ Len(size) <= a + Window /\ t.nextAck = SnOf(a)
      /\ DOMAIN t.window = { SnOf(i) : i \in a .. Len(size) - 1 }
      /\ \A i \in a .. Len(size) - 1 : t.window[SnOf(i)].k = i + 1
      /\ a < Len(size) /\ t.sus = SnOf(Len(size) - 1) /\ t.next = SnOf(Len(size) - 1)
  BY DEF TxOk
<1>2. u.next = SnOf(IF u.sus = None THEN Len(size) ELSE Len(size) - 1)
  BY <1>1
<1>3. u.sus # None =>
          /\ a < Len(size) /\ u.sus = SnOf(Len(size) - 1)
          /\ u.window[u.sus].nextSo \in 1 .. size[Len(size)] - 1
  BY <1>1
<1>4. \A i \in a .. Len(size) - 1 : u.window[SnOf(i)].k = i + 1
  BY <1>1
<1>5. DOMAIN u.retx = {}
  OBVIOUS
<1> QED BY <1>1, <1>2, <1>3, <1>4, <1>5 DEF TxOk

\* A further segment follows the last one; the last segment ends the segmentation.
LEMMA SegmentPulled ==
  ASSUME NEW a, TxInv(a), NEW grant \in Nat \ {0}, PullContinued(grant)
  PROVE  TxStep(a) /\ Sends(a) /\ sent' = sent /\ NewCounts(tx'.window, tx.window)
<1> DEFINE sn == tx.sus
           info == tx.window[sn]
           rest == LengthOf(tx, sn) - info.nextSo
           last == rest <= grant
           len == Min({rest, grant})
           t == [tx EXCEPT !.sus = IF last THEN None ELSE @]
           polled == NewPoll(t, tx.next, len)
           pdu == DataPdu(tx.next, info.k, info.nextSo, len, polled.poll)
           s == Len(sent)
           so == info.nextSo
<1>1. /\ tx.retx = <<>> /\ tx.sus # None
      /\ Transmit(pdu)
      /\ tx' = [polled.tx EXCEPT
                       !.window[sn].nextSo = @ + len,
                       !.next = IF last THEN (@ + 1) % Mod ELSE @]
      /\ sent' = sent /\ submitted' = submitted
  BY Zenon DEF PullContinued
<1>2. /\ TxTyped(tx) /\ tx.queue \in QueueType /\ TxOk(tx, a, Sizes) /\ sent \in Seq(Sdus)
      /\ start \in Sn /\ submitted \in 0 .. Len(Length) /\ s + Len(tx.queue) <= submitted
      /\ tx.window \in [DOMAIN tx.window -> EntryType] /\ tx.next \in Sn /\ Len(tx.queue) \in Nat
  <2>1. TxTyped(tx) /\ TxOk(tx, a, Sizes)
    BY DEF TxInv, TxOk
  <2>2. tx.queue \in QueueType
    BY <2>1, TxTypes
  <2>3. Len(tx.queue) \in Nat
    BY <2>2 DEF QueueType
  <2> QED BY <2>1, <2>2, <2>3, TxTypes DEF TxInv
<1>3. /\ s \in Nat /\ Len(Sizes) = s /\ Len(Length) \in Nat
  BY <1>2, SizesAre, LengthIs
<1>4. /\ a \in Nat /\ a < s /\ sn = SnOf(s - 1) /\ tx.next = SnOf(s - 1) /\ sn \in DOMAIN tx.window
      /\ so \in 1 .. Sizes[s] - 1 /\ info.k = s
  <2>1. /\ a \in Nat /\ a < s /\ sn = SnOf(s - 1) /\ tx.next = SnOf(s - 1)
        /\ DOMAIN tx.window = { SnOf(i) : i \in a .. s - 1 }
        /\ so \in 1 .. Sizes[s] - 1
        /\ \A i \in a .. s - 1 : tx.window[SnOf(i)].k = i + 1
    BY <1>1, <1>2, <1>3 DEF TxOk
  <2>2. s - 1 \in a .. s - 1 /\ s - 1 + 1 = s
    BY <1>3, <2>1
  <2> QED BY <2>1, <2>2
<1>5. s \in 1 .. s /\ Sizes[s] \in Nat /\ Sizes[s] = Length[sent[s]]
  BY <1>2, <1>3, <1>4, SizesAre
<1>6. info \in EntryType
  BY <1>2, <1>4
<1>7. LengthOf(tx, sn) = Sizes[s]
  BY <1>4, <1>5 DEF LengthOf
<1>8. rest \in Nat \ {0} /\ rest = Sizes[s] - so /\ so \in Nat
  BY <1>4, <1>5, <1>7
<1>9. /\ len = (IF rest <= grant THEN rest ELSE grant) /\ len \in Nat \ {0}
      /\ (last => so + len = Sizes[s]) /\ (~last => so + len \in 1 .. Sizes[s] - 1)
  <2>0. rest \in Nat /\ grant \in Nat
    BY <1>8
  <2>1. len = IF rest <= grant THEN rest ELSE grant
    <3> HIDE DEF rest
    <3> QED BY <2>0, MinOfTwo
  <2> HIDE DEF rest, len, so
  <2> QED BY <1>5, <1>8, <2>1
<1> HIDE DEF last, rest, len
<1>10. /\ TxTyped(t) /\ t.queue = tx.queue /\ t.next = tx.next /\ t.nextAck = tx.nextAck
       /\ t.window = tx.window /\ t.sus = (IF last THEN None ELSE sn) /\ t.retx = <<>>
  <2> DEFINE sus == IF last THEN None ELSE sn
  <2>1. sus \in Sn \cup {None} /\ t = [tx EXCEPT !.sus = sus]
    BY <1>2 DEF TxTyped
  <2> HIDE DEF sus, t
  <2>2. /\ TxTyped(t) /\ t.queue = tx.queue /\ t.next = tx.next /\ t.nextAck = tx.nextAck
        /\ t.window = tx.window /\ t.sus = sus /\ t.retx = tx.retx
    BY <1>2, <2>1 DEF TxTyped
  <2> QED BY <1>1, <2>2 DEF sus
<1> HIDE DEF t
<1>11. PollOk(polled, t)
  BY <1>2, <1>9, <1>10, NewPollIs
<1> DEFINE v == polled.tx
<1>12. /\ polled.poll \in BOOLEAN /\ TxTyped(v) /\ v.queue = tx.queue /\ v.next = tx.next
       /\ v.nextAck = tx.nextAck /\ v.window = tx.window /\ v.sus = (IF last THEN None ELSE sn)
       /\ v.retx = <<>>
  BY <1>10, <1>11 DEF PollOk
<1> DEFINE entry == [info EXCEPT !.nextSo = so + len]
           w == [tx.window EXCEPT ![sn] = entry]
           next == IF last THEN (tx.next + 1) % Mod ELSE tx.next
<1>13. /\ entry \in EntryType /\ entry.k = info.k /\ entry.nextSo = so + len
       /\ entry.retx = info.retx
  <2>1. so + len \in Nat
    BY <1>8, <1>9
  <2> HIDE DEF info, so
  <2> QED BY <1>6, <2>1 DEF EntryType
<1>14. tx' = [v EXCEPT !.window = w, !.next = next]
  <2>1. tx' = [v EXCEPT !.window[sn].nextSo = @ + len, !.next = IF last THEN (@ + 1) % Mod ELSE @]
    BY <1>1
  <2> HIDE DEF v
  <2> QED BY <1>12, <2>1 DEF TxTyped
<1> HIDE DEF entry, v, polled
<1>15. /\ DOMAIN w = DOMAIN tx.window /\ w \in [DOMAIN w -> EntryType] /\ w[sn] = entry
       /\ \A x \in DOMAIN tx.window : x # sn => w[x] = tx.window[x]
  BY <1>2, <1>4, <1>13
<1> HIDE DEF w
<1>16. next \in Sn /\ next = SnOf(IF last THEN s ELSE s - 1)
  <2>1. s - 1 \in Int /\ 1 \in Int /\ s - 1 + 1 = s /\ s \in Int
    BY <1>3
  <2>2. (SnOf(s - 1) + 1) % Mod = SnOf(s - 1 + 1)
    BY <1>2, <2>1, SnOfSum, Zenon
  <2> QED BY <1>2, <1>4, <2>1, <2>2, SnOfType
<1> HIDE DEF next
<1>17. /\ TxTyped(tx') /\ tx'.queue = tx.queue /\ tx'.next = next /\ tx'.nextAck = tx.nextAck
       /\ tx'.window = w /\ tx'.sus = (IF last THEN None ELSE sn) /\ tx'.retx = <<>>
  <2> HIDE DEF sn
  <2>1. /\ TxTyped(tx') /\ tx'.queue = v.queue /\ tx'.next = next /\ tx'.nextAck = v.nextAck
        /\ tx'.window = w /\ tx'.sus = v.sus /\ tx'.retx = v.retx
    BY <1>12, <1>14, <1>15, <1>16 DEF TxTyped
  <2> QED BY <1>12, <2>1
<1>18. TxOk(tx', a, Sizes)
  <2>1. /\ DOMAIN tx'.window = DOMAIN tx.window
        /\ \A x \in DOMAIN tx.window : tx'.window[x].k = tx.window[x].k
    BY <1>13, <1>15, <1>17
  <2>2. CASE last
    <3>1. tx'.sus = None /\ tx'.next = SnOf(Len(Sizes))
      BY <1>3, <1>16, <1>17, <2>2
    <3>2. tx.sus # None /\ tx'.nextAck = tx.nextAck /\ tx'.retx = <<>> /\ TxTyped(tx')
      BY <1>1, <1>17
    <3> QED BY <1>2, <2>1, <3>1, <3>2, TxContinued, Zenon
  <2>3. CASE ~last
    <3>1. tx'.sus = tx.sus /\ tx'.next = tx.next /\ tx'.window[tx'.sus].nextSo \in 1 .. Sizes[Len(Sizes)] - 1
      BY <1>3, <1>4, <1>9, <1>13, <1>15, <1>16, <1>17, <2>3
    <3>2. tx.sus # None /\ tx'.nextAck = tx.nextAck /\ tx'.retx = <<>> /\ TxTyped(tx')
      BY <1>1, <1>17
    <3> QED BY <1>2, <2>1, <3>1, <3>2, TxContinued, Zenon
  <2> QED BY <2>2, <2>3
<1>19. Begun(tx, Sizes) = [x \in 1 .. s |-> IF x = s THEN so ELSE Sizes[x]]
  BY <1>1, <1>3 DEF Begun
<1>20. Begun(tx', Sizes) = [x \in 1 .. s |-> IF x = s THEN so + len ELSE Sizes[x]]
  <2>1. CASE last
    <3>1. Begun(tx', Sizes) = [x \in 1 .. s |-> Sizes[x]]
      BY <1>3, <1>17, <2>1 DEF Begun
    <3> QED BY <1>9, <2>1, <3>1
  <2>2. CASE ~last
    <3>1. tx'.sus # None /\ tx'.window[tx'.sus].nextSo = so + len
      BY <1>1, <1>13, <1>15, <1>17, <2>2
    <3> HIDE DEF so
    <3> QED BY <1>3, <3>1 DEF Begun
  <2> QED BY <2>1, <2>2
<1>21. Sizes' = Sizes
  BY <1>1 DEF Sizes
<1>22. PduOk(pdu, Sizes, Begun(tx', Sizes))
  <2>1. Begun(tx', Sizes)[s] = so + len
    BY <1>5, <1>20
  <2>2. pdu = [sn |-> tx.next, k |-> s, so |-> so, len |-> len, poll |-> polled.poll]
    BY <1>4 DEF DataPdu
  <2>3. so + len <= so + len
    BY <1>8, <1>9
  <2> HIDE DEF pdu, so
  <2> QED BY <1>2, <1>3, <1>4, <1>5, <1>8, <1>9, <1>12, <2>1, <2>2, <2>3 DEF PduOk
<1>23. Grows(Sizes, Begun(tx, Sizes), Sizes, Begun(tx', Sizes))
  <2>1. SizesOk(Sizes, Begun(tx, Sizes)) /\ SizesOk(Sizes, Begun(tx', Sizes))
    BY <1>2, <1>18, BegunOk
  <2>2. so <= so + len
    BY <1>8, <1>9
  <2>3. \A x \in 1 .. s : Sizes[x] \in Nat
    BY <1>2, <1>3, SizesAre
  <2> HIDE DEF so
  <2> QED BY <1>3, <1>19, <1>20, <2>1, <2>2, <2>3 DEF Grows
<1>24. data' = data (+) SetToBag({pdu})
  BY <1>1 DEF Transmit
<1>25. Len(sent') + Len(tx'.queue) <= submitted' /\ submitted' \in 0 .. Len(Length)
  BY <1>1, <1>2, <1>17
<1>26. NewCounts(tx'.window, tx.window)
  BY <1>4, <1>13, <1>15, <1>17 DEF NewCounts
<1> HIDE DEF pdu
<1> QED BY <1>1, <1>2, <1>18, <1>21, <1>22, <1>23, <1>24, <1>25, <1>26 DEF TxStep, Sends

\* A retransmission, whole or a part, is of bytes that were sent.
LEMMA RetxPulled ==
  ASSUME NEW a, TxInv(a), NEW grant \in Nat \ {0}, PullRetx(grant)
  PROVE  TxStep(a) /\ Sends(a) /\ sent' = sent /\ NewCounts(tx'.window, tx.window)
<1> DEFINE q == tx.retx
           r == Head(q)
           len == Min({r.len, grant})
           complete == len = r.len
           info == tx.window[r.sn]
           r2 == [r EXCEPT !.so = @ + len, !.len = @ - len]
           halted == complete /\ info.retx = MaxRetx
           retx == IF complete THEN Tail(q) ELSE <<r2>> \o Tail(q)
           t == [tx EXCEPT !.retxSn = r.sn, !.halted = halted, !.retx = retx]
           polled == RetxPoll(t)
           pdu == DataPdu(r.sn, info.k, r.so, len, polled.poll)
           s == Len(sent)
           l == Len(q)
           begun == Begun(tx, Sizes)
<1>1. TxOk(tx, a, Sizes) /\ TxTyped(tx)
  BY DEF TxInv, TxOk
<1>2. /\ q # <<>> /\ Transmit(pdu) /\ tx' = polled.tx
      /\ sent' = sent /\ submitted' = submitted
  <2>1. PresentFront(tx) = q
    BY <1>1, PresentFrontIs
  <2>2. q # <<>>
    BY DEF PullRetx
  <2>3. Transmit(pdu) /\ tx' = polled.tx
    BY <2>1, <2>2 DEF PullRetx
  <2> QED BY <2>2, <2>3 DEF PullRetx
<1>3. /\ tx.queue \in QueueType /\ sent \in Seq(Sdus)
      /\ start \in Sn /\ submitted \in 0 .. Len(Length) /\ s + Len(tx.queue) <= submitted
      /\ tx.window \in [DOMAIN tx.window -> EntryType] /\ Len(tx.queue) \in Nat
      /\ q \in Seq(RetxType)
  <2>1. tx.queue \in QueueType
    BY <1>1, TxTypes
  <2>2. Len(tx.queue) \in Nat
    BY <2>1 DEF QueueType
  <2> QED BY <1>1, <2>1, <2>2, TxTypes DEF TxInv
<1>4. s \in Nat /\ Len(Sizes) = s /\ Len(Length) \in Nat
  BY <1>3, SizesAre, LengthIs
<1>5. l \in Nat /\ l # 0 /\ DOMAIN q = 1 .. l /\ r = q[1] /\ 1 \in 1 .. l
  <2> HIDE DEF q
  <2>1. q \in Seq(RetxType) /\ q # <<>>
    BY <1>2, <1>3
  <2> QED BY <2>1
<1>6. r \in RetxType /\ r.sn \in Sn /\ r.so \in Nat /\ r.len \in Nat \ {0}
  <2> DEFINE R == RetxType
  <2>1. \A x \in R : x.sn \in Sn /\ x.so \in Nat /\ x.len \in Nat \ {0}
    BY DEF RetxType
  <2> HIDE DEF R, q
  <2>2. q[1] \in R
    BY <1>3, <1>5 DEF R
  <2> QED BY <1>5, <2>1, <2>2 DEF R
<1>7. Tail(q) \in Seq(RetxType) /\ Len(Tail(q)) = l - 1 /\ \A j \in 1 .. l - 1 : Tail(q)[j] = q[j + 1]
  <2> DEFINE R == RetxType
  <2> HIDE DEF R, q
  <2>1. q \in Seq(R) /\ q # <<>>
    BY <1>2, <1>3 DEF R
  <2>2. Tail(q) \in Seq(R) /\ Len(Tail(q)) = Len(q) - 1 /\ \A j \in 1 .. Len(q) - 1 : Tail(q)[j] = q[j + 1]
    BY <2>1
  <2> QED BY <2>2 DEF R
<1> DEFINE tail == Tail(q)
<1> HIDE DEF q, r, tail, l
<1>8. RetxOk(q, a, Sizes, begun)
  BY <1>1 DEF TxOk, RetxOk, q
<1>9. PICK i \in a .. s - 1 : r.sn = SnOf(i) /\ r.so + r.len <= begun[i + 1]
  BY <1>4, <1>5, <1>8 DEF RetxOk
<1>10. a \in Nat /\ info.k = i + 1 /\ r.sn \in DOMAIN tx.window
  BY <1>1, <1>4, <1>9 DEF TxOk
<1>11. begun[i + 1] \in Nat /\ i + 1 \in 1 .. s /\ i + 1 - 1 = i
  <2>1. i + 1 \in 1 .. s
    BY <1>4, <1>9, <1>10
  <2>2. SizesOk(Sizes, begun)
    BY <1>1, <1>3, BegunOk
  <2> HIDE DEF begun
  <2>3. begun[i + 1] \in Nat
    BY <1>4, <2>1, <2>2 DEF SizesOk
  <2> QED BY <1>4, <1>9, <2>1, <2>3
<1>12. /\ len \in Nat \ {0} /\ len <= r.len /\ r.so + len <= begun[i + 1]
       /\ (~complete => r.len - len \in Nat \ {0})
  <2> DEFINE rl == r.len
             so == r.so
  <2>1. rl \in Nat \ {0} /\ so \in Nat
    BY <1>6
  <2> HIDE DEF rl, so
  <2>2. Min({rl, grant}) = IF rl <= grant THEN rl ELSE grant
    BY <2>1, MinOfTwo
  <2>3. len = Min({rl, grant})
    BY DEF rl
  <2> HIDE DEF len
  <2>4. len \in Nat \ {0} /\ len <= rl /\ (len # rl => rl - len \in Nat \ {0})
    BY <2>1, <2>2, <2>3
  <2>5. so + rl <= begun[i + 1]
    BY <1>9 DEF so, rl
  <2>6. so + len <= begun[i + 1]
    <3> DEFINE b == begun[i + 1]
    <3>1. b \in Nat /\ so + rl <= b
      BY <1>11, <2>5
    <3> HIDE DEF b
    <3>2. so + len <= b
      BY <2>1, <2>4, <3>1
    <3> QED BY <3>2 DEF b
  <2> QED BY <2>4, <2>6 DEF rl, so
<1> HIDE DEF len
<1>13. ~complete => r2 \in RetxType /\ r2.sn = r.sn /\ r2.so + r2.len = r.so + r.len
  <2> SUFFICES ASSUME ~complete PROVE r2 \in RetxType /\ r2.sn = r.sn /\ r2.so + r2.len = r.so + r.len
    OBVIOUS
  <2> DEFINE so == r.so + len
             rl == r.len - len
  <2>1. so \in Nat /\ rl \in Nat \ {0} /\ so + rl = r.so + r.len
    BY <1>6, <1>12
  <2>2. r2 = [r EXCEPT !.so = so, !.len = rl]
    BY <1>6 DEF RetxType
  <2> HIDE DEF so, rl, r2
  <2>3. r2 \in RetxType /\ r2.sn = r.sn /\ r2.so = so /\ r2.len = rl
    BY <1>6, <2>1, <2>2 DEF RetxType
  <2> QED BY <2>1, <2>3
<1> HIDE DEF r2
<1>14. retx \in Seq(RetxType) /\ RetxOk(retx, a, Sizes, begun)
  <2>1. CASE complete
    <3>1. retx = tail /\ retx \in Seq(RetxType) /\ DOMAIN retx = 1 .. l - 1
      BY <1>7, <2>1 DEF tail
    <3>2. \A j \in 1 .. l - 1 : j + 1 \in 1 .. l /\ retx[j] = q[j + 1]
      BY <1>5, <1>7, <3>1 DEF tail
    <3> HIDE DEF retx, begun
    <3>3. RetxOk(retx, a, Sizes, begun)
      <4> SUFFICES ASSUME NEW j \in 1 .. l - 1
                   PROVE \E x \in a .. Len(Sizes) - 1 :
                            retx[j].sn = SnOf(x) /\ retx[j].so + retx[j].len <= begun[x + 1]
        BY <3>1 DEF RetxOk
      <4> DEFINE m == j + 1
      <4>1. m \in DOMAIN q /\ retx[j] = q[m]
        BY <1>5, <3>2
      <4> HIDE DEF m
      <4> QED BY <1>8, <4>1 DEF RetxOk
    <3> QED BY <3>1, <3>3
  <2>2. CASE ~complete
    <3> DEFINE R == RetxType
    <3>1. retx = <<r2>> \o tail
      BY <2>2 DEF tail
    <3>2. r2 \in R /\ tail \in Seq(R) /\ Len(tail) = l - 1
      BY <1>7, <1>13, <2>2 DEF tail
    <3> HIDE DEF retx, R, begun
    <3>3. /\ retx \in Seq(R) /\ Len(retx) = l /\ DOMAIN retx = 1 .. l
          /\ retx[1] = r2 /\ \A j \in 1 .. l : j # 1 => retx[j] = tail[j - 1]
      BY <1>5, <3>1, <3>2
    <3>4. \A j \in 1 .. l : j # 1 => retx[j] = q[j]
      <4>1. \A j \in 1 .. l : j # 1 => j - 1 \in 1 .. l - 1 /\ j - 1 + 1 = j
        BY <1>5
      <4> QED BY <1>7, <3>3, <4>1 DEF tail
    <3>5. retx[1].sn = SnOf(i) /\ retx[1].so + retx[1].len <= begun[i + 1]
      BY <1>9, <1>13, <2>2, <3>3
    <3>6. RetxOk(retx, a, Sizes, begun)
      <4> SUFFICES ASSUME NEW j \in 1 .. l
                   PROVE \E x \in a .. Len(Sizes) - 1 :
                            retx[j].sn = SnOf(x) /\ retx[j].so + retx[j].len <= begun[x + 1]
        BY <3>3 DEF RetxOk
      <4>1. CASE j = 1
        BY <1>4, <1>9, <3>5, <4>1
      <4>2. CASE j # 1
        BY <1>5, <1>8, <3>4, <4>2 DEF RetxOk
      <4> QED BY <4>1, <4>2
    <3> QED BY <3>3, <3>6 DEF R
  <2> QED BY <2>1, <2>2
<1> HIDE DEF retx
<1>15. /\ TxTyped(t) /\ t.queue = tx.queue /\ t.next = tx.next /\ t.nextAck = tx.nextAck
       /\ t.window = tx.window /\ t.sus = tx.sus /\ t.retx = retx
  <2>1. r.sn \in Sn \cup {None} /\ halted \in BOOLEAN
    BY <1>6
  <2> DEFINE rsn == r.sn
  <2> HIDE DEF halted, rsn
  <2>2. t = [tx EXCEPT !.retxSn = rsn, !.halted = halted, !.retx = retx]
    BY DEF rsn
  <2> HIDE DEF t
  <2> QED BY <1>1, <1>14, <2>1, <2>2 DEF TxTyped, rsn
<1> HIDE DEF t
<1>16. PollOk(polled, t)
  BY <1>15, RetxPollIs
<1>17. /\ polled.poll \in BOOLEAN /\ TxTyped(tx') /\ tx'.queue = tx.queue /\ tx'.next = tx.next
       /\ tx'.nextAck = tx.nextAck /\ tx'.window = tx.window /\ tx'.sus = tx.sus
       /\ tx'.retx = retx
  BY <1>2, <1>15, <1>16 DEF PollOk
<1> HIDE DEF polled
<1>18. TxOk(tx', a, Sizes) /\ Begun(tx', Sizes) = begun
  BY <1>1, <1>14, <1>17, TxFrame
<1>19. PduOk(pdu, Sizes, begun)
  <2>1. pdu = [sn |-> r.sn, k |-> i + 1, so |-> r.so, len |-> len, poll |-> polled.poll]
    BY <1>10 DEF DataPdu
  <2> HIDE DEF pdu, begun
  <2> QED BY <1>4, <1>6, <1>9, <1>11, <1>12, <1>17, <2>1 DEF PduOk
<1>20. TxStep(a) /\ Sizes' = Sizes
  <2>1. /\ submitted' \in 0 .. Len(Length) /\ submitted' >= submitted /\ Len(tx'.queue) \in Nat
        /\ Len(sent) + Len(tx'.queue) <= submitted'
    BY <1>2, <1>3, <1>4, <1>17
  <2> QED BY <1>2, <1>18, <2>1, SameSent
<1>21. data' = data (+) SetToBag({pdu})
  BY <1>2 DEF Transmit
<1>22. NewCounts(tx'.window, tx.window)
  BY <1>17 DEF NewCounts
<1> HIDE DEF pdu
<1> QED BY <1>2, <1>18, <1>19, <1>20, <1>21, <1>22 DEF Sends

\* The same window but for the counts of retransmissions.
SameButCounts(w, v) ==
    /\ DOMAIN w = DOMAIN v
    /\ \A sn \in DOMAIN v : w[sn].k = v[sn].k /\ w[sn].nextSo = v[sn].nextSo

\* A transmitter whose counts alone have changed, and its retransmissions.
LEMMA TxRecounted ==
  ASSUME NEW t, NEW u, NEW a, NEW size, TxOk(t, a, size), TxTyped(u),
         u.next = t.next, u.nextAck = t.nextAck, SameButCounts(u.window, t.window), u.sus = t.sus,
         RetxOk(u.retx, a, size, Begun(t, size)), start \in Sn, Len(size) \in Nat
  PROVE  TxOk(u, a, size) /\ Begun(u, size) = Begun(t, size)
<1>1. /\ a \in Nat /\ a <= Len(size) /\ Len(size) <= a + Window
      /\ u.nextAck = SnOf(a)
      /\ u.next = SnOf(IF u.sus = None THEN Len(size) ELSE Len(size) - 1)
      /\ DOMAIN u.window = { SnOf(i) : i \in a .. Len(size) - 1 }
      /\ DOMAIN t.window = { SnOf(i) : i \in a .. Len(size) - 1 }
      /\ \A i \in a .. Len(size) - 1 : t.window[SnOf(i)].k = i + 1
  BY DEF TxOk, SameButCounts
<1>2. \A i \in a .. Len(size) - 1 : u.window[SnOf(i)].k = i + 1
  BY <1>1 DEF SameButCounts
<1>3. u.sus # None =>
          /\ a < Len(size) /\ u.sus = SnOf(Len(size) - 1)
          /\ t.window[u.sus].nextSo \in 1 .. size[Len(size)] - 1
  BY DEF TxOk
<1>4. u.sus # None => u.window[u.sus].nextSo = t.window[u.sus].nextSo
  <2>1. a < Len(size) => Len(size) - 1 \in a .. Len(size) - 1
    BY <1>1
  <2> QED BY <1>1, <1>3, <2>1 DEF SameButCounts
<1>5. Begun(u, size) = Begun(t, size)
  <2>1. CASE u.sus = None
    BY <2>1 DEF Begun
  <2>2. CASE u.sus # None
    BY <1>4, <2>2 DEF Begun
  <2> QED BY <2>1, <2>2
<1>6. u.sus # None => u.window[u.sus].nextSo \in 1 .. size[Len(size)] - 1
  BY <1>3, <1>4
<1>7. TxOk(u, a, size)
  BY <1>1, <1>2, <1>3, <1>5, <1>6, Zenon DEF TxOk, RetxOk
<1> QED BY <1>5, <1>7

\* What counting up or down changes.
CountedOk(u, t, sn) ==
    /\ TxTyped(u) /\ SameButCounts(u.window, t.window)
    /\ u.queue = t.queue /\ u.next = t.next /\ u.nextAck = t.nextAck /\ u.pollSn = t.pollSn
    /\ u.sus = t.sus /\ u.retx = t.retx /\ u.pollTimer = t.pollTimer
    /\ \A x \in DOMAIN t.window : x # sn => u.window[x] = t.window[x]

\* Setting one retransmission count.
LEMMA RecountIs ==
  ASSUME NEW t, TxTyped(t), NEW sn \in DOMAIN t.window, NEW n \in Int
  PROVE  /\ CountedOk([t EXCEPT !.window[sn].retx = n], t, sn)
         /\ [t EXCEPT !.window[sn].retx = n].window[sn].retx = n
<1> DEFINE e == t.window[sn]
           e2 == [e EXCEPT !.retx = n]
           w == [t.window EXCEPT ![sn] = e2]
           u == [t EXCEPT !.window[sn].retx = n]
<1>1. t.window \in [DOMAIN t.window -> EntryType]
  BY DEF TxTyped
<1>2. e \in EntryType
  BY <1>1
<1>3. e2 \in EntryType /\ e2.k = e.k /\ e2.nextSo = e.nextSo /\ e2.retx = n
  <2> HIDE DEF e
  <2> QED BY <1>2 DEF EntryType
<1>4. u = [t EXCEPT !.window = w]
  BY DEF TxTyped
<1> HIDE DEF e2, u
<1>5. /\ DOMAIN w = DOMAIN t.window /\ w \in [DOMAIN w -> EntryType] /\ w[sn] = e2
      /\ \A x \in DOMAIN t.window : x # sn => w[x] = t.window[x]
  BY <1>1, <1>3
<1>6. SameButCounts(w, t.window)
  BY <1>3, <1>5 DEF SameButCounts
<1> HIDE DEF w
<1>7. /\ TxTyped(u) /\ u.window = w
      /\ u.queue = t.queue /\ u.next = t.next /\ u.nextAck = t.nextAck /\ u.pollSn = t.pollSn
      /\ u.sus = t.sus /\ u.retx = t.retx /\ u.pollTimer = t.pollTimer
  BY <1>4, <1>5 DEF TxTyped
<1>8. CountedOk(u, t, sn)
  BY <1>5, <1>6, <1>7 DEF CountedOk
<1> QED BY <1>3, <1>5, <1>7, <1>8 DEF u

LEMMA IncrementedIs ==
  ASSUME NEW t, TxTyped(t), NEW sn \in DOMAIN t.window
  PROVE  /\ CountedOk(Incremented(t, sn), t, sn)
         /\ Incremented(t, sn).window[sn].retx = t.window[sn].retx + 1
<1> DEFINE c == t.window[sn].retx
           n == IF c = NotStarted THEN 0 ELSE c + 1
<1>1. c \in Int
  BY DEF TxTyped, EntryType
<1>2. n \in Int /\ n = c + 1
  BY <1>1 DEF NotStarted
<1>3. Incremented(t, sn) = [t EXCEPT !.window[sn].retx = n]
  BY DEF Incremented
<1> HIDE DEF n
<1> QED BY <1>2, <1>3, RecountIs

LEMMA DecrementedIs ==
  ASSUME NEW t, TxTyped(t), NEW sn \in DOMAIN t.window
  PROVE  CountedOk(Decremented(t, sn), t, sn)
<1> DEFINE c == t.window[sn].retx
           n == IF c = NotStarted THEN c ELSE c - 1
<1>1. c \in Int
  BY DEF TxTyped, EntryType
<1>2. n \in Int
  BY <1>1
<1>3. Decremented(t, sn) = [t EXCEPT !.window[sn].retx = n]
  BY DEF Decremented
<1> HIDE DEF n
<1> QED BY <1>2, <1>3, RecountIs

\* A queue of retransmissions with one more.
LEMMA RetxAppended ==
  ASSUME NEW q \in Seq(RetxType), NEW r \in RetxType, NEW a, NEW size, NEW begun,
         RetxOk(q, a, size, begun),
         NEW i \in a .. Len(size) - 1, r.sn = SnOf(i), r.so + r.len <= begun[i + 1]
  PROVE  Append(q, r) \in Seq(RetxType) /\ RetxOk(Append(q, r), a, size, begun)
<1> DEFINE R == RetxType
           p == Append(q, r)
           l == Len(q)
<1>1. q \in Seq(R) /\ r \in R
  OBVIOUS
<1> HIDE DEF R, p
<1>2. /\ p \in Seq(R) /\ l \in Nat /\ DOMAIN p = 1 .. l + 1 /\ DOMAIN q = 1 .. l
      /\ p[l + 1] = r /\ \A j \in 1 .. l : p[j] = q[j]
  BY <1>1 DEF p
<1>3. RetxOk(p, a, size, begun)
  <2> SUFFICES ASSUME NEW j \in 1 .. l + 1
               PROVE \E x \in a .. Len(size) - 1 :
                        p[j].sn = SnOf(x) /\ p[j].so + p[j].len <= begun[x + 1]
    BY <1>2 DEF RetxOk
  <2>1. CASE j = l + 1
    BY <1>2, <2>1
  <2>2. CASE j # l + 1
    <3>1. j \in 1 .. l
      BY <1>2, <2>2
    <3> QED BY <1>2, <3>1 DEF RetxOk
  <2> QED BY <2>1, <2>2
<1> QED BY <1>2, <1>3 DEF R, p

\* No count is more than one higher than it was.
CountedOnce(w, v) == \A x \in DOMAIN w : x \in DOMAIN v /\ w[x].retx <= v[x].retx + 1

LEMMA CountsTyped ==
  ASSUME NEW t, TxTyped(t)
  PROVE  /\ \A x \in DOMAIN t.window : t.window[x].retx \in Int
         /\ CountedOnce(t.window, t.window)
<1>1. \A x \in DOMAIN t.window : t.window[x].retx \in Int
  BY DEF TxTyped, EntryType
<1> QED BY <1>1 DEF CountedOnce

\* t-PollRetransmit's expiry queues an SDU of the window at most, and counts it once.
LEMMA PollExpired ==
  ASSUME NEW a, TxInv(a), ExpirePoll
  PROVE  TxStep(a) /\ Sizes' = Sizes /\ CountedOnce(tx'.window, tx.window)
<1> DEFINE t == [tx EXCEPT !.pollTimer = FALSE]
           sn == t.nextAck
           r == [sn |-> sn, so |-> 0, len |-> LengthOf(t, sn)]
           t2 == [t EXCEPT !.retx = Append(@, r)]
           u == IF Len(t.retx) >= Window THEN t ELSE Incremented(t2, sn)
           s == Len(sent)
           begun == Begun(tx, Sizes)
<1>1. /\ sent' = sent /\ submitted' = submitted
      /\ IF ~Exhausted(t) \/ ~HasSn(t.window, sn) THEN tx' = t ELSE tx' = BufferStateRead(u)
  BY DEF ExpirePoll
<1>2. TxOk(tx, a, Sizes) /\ TxTyped(tx)
  BY DEF TxInv, TxOk
<1>3. /\ sent \in Seq(Sdus) /\ start \in Sn /\ submitted \in 0 .. Len(Length)
      /\ s + Len(tx.queue) <= submitted /\ Len(tx.queue) \in Nat
  <2>1. tx.queue \in QueueType
    BY <1>2, TxTypes
  <2>2. Len(tx.queue) \in Nat
    BY <2>1 DEF QueueType
  <2> QED BY <2>2 DEF TxInv
<1>4. s \in Nat /\ Len(Sizes) = s /\ Len(Length) \in Nat
  BY <1>3, SizesAre, LengthIs
<1>5. /\ TxTyped(t) /\ t.queue = tx.queue /\ t.next = tx.next /\ t.nextAck = tx.nextAck
      /\ t.window = tx.window /\ t.sus = tx.sus /\ t.retx = tx.retx
  BY <1>2 DEF TxTyped
<1> HIDE DEF t
<1>6. TxOk(t, a, Sizes) /\ Begun(t, Sizes) = begun
  <2>1. RetxOk(t.retx, a, Sizes, begun)
    BY <1>2, <1>5 DEF TxOk, RetxOk
  <2> QED BY <1>2, <1>5, <2>1, TxFrame
<1>7. CASE ~Exhausted(t) \/ ~HasSn(t.window, sn)
  <2>1. tx' = t
    BY <1>1, <1>7
  <2>2. /\ submitted' \in 0 .. Len(Length) /\ submitted' >= submitted /\ Len(tx'.queue) \in Nat
        /\ Len(sent) + Len(tx'.queue) <= submitted'
    BY <1>1, <1>3, <1>4, <1>5, <2>1
  <2>3. CountedOnce(tx'.window, tx.window)
    BY <1>2, <1>5, <2>1, CountsTyped
  <2> QED BY <1>1, <1>6, <2>1, <2>2, <2>3, SameSent
<1>8. CASE Exhausted(t) /\ HasSn(t.window, sn)
  <2>1. tx' = BufferStateRead(u)
    BY <1>1, <1>8
  <2>2. /\ a \in Nat /\ sn = SnOf(a) /\ a <= s /\ s <= a + Window
        /\ DOMAIN t.window = { SnOf(i) : i \in a .. s - 1 }
        /\ \A i \in a .. s - 1 : t.window[SnOf(i)].k = i + 1
        /\ t.sus # None => t.sus = SnOf(s - 1) /\ t.next = SnOf(s - 1)
    BY <1>4, <1>6 DEF TxOk
  <2>3. a \in a .. s - 1 /\ a < s /\ sn \in Sn
    <3>1. PICK i \in a .. s - 1 : sn = SnOf(i)
      BY <1>8, <2>2 DEF HasSn
    <3>2. a <= i /\ i <= s - 1
      BY <1>4, <2>2
    <3> QED BY <1>3, <1>4, <2>2, <3>2, SnOfType
  <2>4. a + 1 \in 1 .. s /\ a + 1 \in Nat
    BY <1>4, <2>2, <2>3
  <2>5. LengthOf(t, sn) = Sizes[a + 1] /\ Sizes[a + 1] \in Nat \ {0}
    <3>1. t.window[sn].k = a + 1
      BY <2>2, <2>3
    <3>2. Sizes[a + 1] = Length[sent[a + 1]] /\ Sizes[a + 1] \in Nat /\ 1 <= Sizes[a + 1]
      BY <1>3, <2>4, SizesAre
    <3> QED BY <3>1, <3>2 DEF LengthOf
  \* The window of one SDU under segmentation is not full.
  <2>6. ~(t.sus # None /\ a + 1 = s)
    <3> SUFFICES ASSUME t.sus # None, a + 1 = s PROVE FALSE
      OBVIOUS
    <3>1. t.next = SnOf(a) /\ s - 1 = a
      BY <1>4, <2>2
    <3>2. WindowFull(t)
      BY <1>8 DEF Exhausted
    <3>3. a \in Int /\ s \in Int /\ a <= s /\ s <= a + Mod /\ s - a = 1
      BY <1>4, <2>2, ModIs
    <3>4. Cardinality(DOMAIN t.window) = 1
      BY <1>3, <2>2, <3>3, CountOfSns
    <3>5. Above(t.nextAck, t.next) = 0
      <4>1. a <= a /\ a < a + Mod /\ a - a = 0
        BY <3>3, ModIs
      <4>2. Above(SnOf(a), SnOf(a)) = a - a
        BY <1>3, <3>3, <4>1, AboveUp
      <4> QED BY <2>2, <3>1, <4>1, <4>2
    <3>6. MaxWindow \in Nat
      BY RlcAssumption
    <3> QED BY <3>2, <3>4, <3>5, <3>6, ModIs DEF WindowFull
  <2>7. begun[a + 1] = Sizes[a + 1]
    <3>1. Begun(t, Sizes)[a + 1] = Sizes[a + 1]
      BY <1>4, <2>4, <2>6 DEF Begun
    <3> QED BY <1>6, <3>1
  <2>8. r \in RetxType /\ r.sn = SnOf(a) /\ r.so + r.len <= begun[a + 1]
    <3> DEFINE b == Sizes[a + 1]
    <3>1. r = [sn |-> sn, so |-> 0, len |-> b] /\ b \in Nat \ {0} /\ 0 + b <= b /\ begun[a + 1] = b
      BY <2>5, <2>7
    <3> HIDE DEF r, b, begun
    <3> QED BY <2>2, <2>3, <3>1 DEF RetxType
  <2> HIDE DEF begun, r
  <2>9. RetxOk(t.retx, a, Sizes, begun) /\ t.retx \in Seq(RetxType)
    BY <1>5, <1>6, TxTypes DEF TxOk, RetxOk
  <2>10. Append(t.retx, r) \in Seq(RetxType) /\ RetxOk(Append(t.retx, r), a, Sizes, begun)
    BY <1>4, <2>3, <2>8, <2>9, RetxAppended
  <2>11. /\ TxTyped(t2) /\ t2.queue = t.queue /\ t2.next = t.next /\ t2.nextAck = t.nextAck
         /\ t2.window = t.window /\ t2.sus = t.sus /\ RetxOk(t2.retx, a, Sizes, begun)
    <3> DEFINE q == Append(t.retx, r)
    <3>1. t2 = [t EXCEPT !.retx = q]
      BY <1>5 DEF TxTyped
    <3> HIDE DEF t2, q
    <3>2. /\ TxTyped(t2) /\ t2.queue = t.queue /\ t2.next = t.next /\ t2.nextAck = t.nextAck
          /\ t2.window = t.window /\ t2.sus = t.sus /\ t2.retx = q
      BY <1>5, <2>10, <3>1 DEF TxTyped, q
    <3> QED BY <2>10, <3>2 DEF q
  <2> HIDE DEF t2
  <2>12. /\ CountedOk(Incremented(t2, sn), t2, sn)
         /\ Incremented(t2, sn).window[sn].retx = t2.window[sn].retx + 1
    <3>1. sn \in DOMAIN t2.window
      BY <1>8, <2>11 DEF HasSn
    <3> QED BY <2>11, <3>1, IncrementedIs
  <2>13. TxOk(u, a, Sizes) /\ Begun(u, Sizes) = begun /\ u.queue = t.queue
    <3>1. CASE Len(t.retx) >= Window
      BY <1>6, <3>1
    <3>2. CASE ~(Len(t.retx) >= Window)
      <4> DEFINE v == Incremented(t2, sn)
      <4> HIDE DEF v
      <4>1. u = v
        BY <3>2 DEF v
      <4>2. /\ TxTyped(v) /\ v.next = t.next /\ v.nextAck = t.nextAck /\ SameButCounts(v.window, t.window)
            /\ v.sus = t.sus /\ RetxOk(v.retx, a, Sizes, begun) /\ v.queue = t.queue
        BY <2>11, <2>12 DEF CountedOk, v
      <4>3. TxOk(v, a, Sizes) /\ Begun(v, Sizes) = Begun(t, Sizes)
        BY <1>3, <1>4, <1>6, <4>2, TxRecounted
      <4> QED BY <1>6, <4>1, <4>2, <4>3
    <3> QED BY <3>1, <3>2
  <2>17. CountedOnce(u.window, tx.window)
    <3>1. CASE Len(t.retx) >= Window
      BY <1>2, <1>5, <3>1, CountsTyped
    <3>2. CASE ~(Len(t.retx) >= Window)
      <4> DEFINE v == Incremented(t2, sn)
      <4>1. /\ DOMAIN v.window = DOMAIN tx.window
            /\ v.window[sn].retx = tx.window[sn].retx + 1
            /\ \A x \in DOMAIN tx.window : x # sn => v.window[x] = tx.window[x]
        BY <1>5, <2>11, <2>12 DEF CountedOk, SameButCounts
      <4>2. u = v /\ \A x \in DOMAIN tx.window : tx.window[x].retx \in Int
        BY <1>2, <3>2, CountsTyped
      <4> HIDE DEF v
      <4> QED BY <4>1, <4>2 DEF CountedOnce
    <3> QED BY <3>1, <3>2
  <2> HIDE DEF u
  <2>14. BufferOk(tx', u, a, Sizes)
    BY <2>1, <2>13, BufferReadIs
  <2>15. /\ submitted' \in 0 .. Len(Length) /\ submitted' >= submitted /\ Len(tx'.queue) \in Nat
         /\ Len(sent) + Len(tx'.queue) <= submitted'
    <3>1. Len(tx'.queue) \in Nat /\ Len(tx'.queue) <= Len(tx.queue)
      BY <1>5, <2>13, <2>14 DEF BufferOk
    <3> QED BY <1>1, <1>3, <1>4, <3>1
  <2>16. TxOk(tx', a, Sizes) /\ Begun(tx', Sizes) = begun
    BY <2>13, <2>14 DEF BufferOk
  <2>18. CountedOnce(tx'.window, tx.window)
    BY <2>14, <2>17 DEF BufferOk
  <2> QED BY <1>1, <2>15, <2>16, <2>18, SameSent DEF begun
<1> QED BY <1>7, <1>8

--------------------------------------------------------------------------------
(* The transmitting entity: STATUS PDUs.                                      *)

\* What an accepted report is to an entity whose window begins after a SDUs.
AcceptedOk(report, a, f, upto, size, begun) ==
    /\ a <= f /\ a < upto /\ upto <= a + Window
    /\ \A j \in DOMAIN report.nacks :
          \E i \in f .. upto - 1 :
             NackOk(report.nacks[j], i, size, begun) /\ i + report.nacks[j].range <= upto

LEMMA ReportTypes ==
  ASSUME NEW report, NEW f, NEW upto, NEW size, NEW begun, ReportOk(report, f, upto, size, begun)
  PROVE  /\ report.ack = SnOf(upto) /\ upto \in Nat /\ f <= upto /\ upto <= f + Window
         /\ upto <= Len(size) /\ report.nacks \in Seq(NackType)
         /\ report.nacks = <<>> => f = upto
         /\ report.nacks # <<>> => report.nacks[1].sn = SnOf(f)
BY DEF ReportOk

\* Where a sequence number is, seen from the window.
LEMMA SeenFrom ==
  ASSUME start \in Sn, NEW a \in Nat, NEW upto \in Nat, a < upto, upto <= a + Window,
         NEW i \in Nat, upto <= i + Window, i <= a + Window + 1,
         Above(SnOf(a), SnOf(i)) < upto - a
  PROVE  a <= i /\ i < upto
<1>1. CASE i < a
  <2>1. a \in Int /\ i \in Int /\ a <= i + Mod
    BY <1>1, ModIs
  <2>2. Above(SnOf(a), SnOf(i)) = (i - a) + Mod
    BY <1>1, <2>1, AboveDown
  <2> QED BY <2>2, ModIs
<1>2. CASE a <= i
  <2>1. a \in Int /\ i \in Int /\ i < a + Mod
    BY ModIs
  <2>2. Above(SnOf(a), SnOf(i)) = i - a
    BY <1>2, <2>1, AboveUp
  <2> QED BY <1>2, <2>2
<1> QED BY <1>1, <1>2

\* A timely report is never beyond the window; an accepted one begins in it.
LEMMA AcceptedIs ==
  ASSUME start \in Sn, NEW t, NEW a, NEW size, TxOk(t, a, size), NEW begun, SizesOk(size, begun),
         NEW report, NEW f \in Nat, NEW upto, ReportOk(report, f, upto, size, begun),
         upto + Window > a
  PROVE  /\ ValidAck(t, report.ack) => NotBeyond(t, report.ack)
         /\ Accepted(t, report) => AcceptedOk(report, a, f, upto, size, begun)
<1> DEFINE s == Len(size)
           l == IF t.sus = None THEN s ELSE s - 1
<1>1. /\ a \in Nat /\ s \in Nat /\ a <= s /\ s <= a + Window /\ t.nextAck = SnOf(a)
      /\ t.next = SnOf(l) /\ (t.sus # None => a < s)
  BY DEF TxOk, SizesOk
<1>2. /\ report.ack = SnOf(upto) /\ upto \in Nat /\ f <= upto /\ upto <= f + Window /\ upto <= s
      /\ report.nacks \in Seq(NackType)
      /\ report.nacks = <<>> => f = upto
      /\ report.nacks # <<>> => report.nacks[1].sn = SnOf(f)
  BY ReportTypes
<1>3. ASSUME ValidAck(t, report.ack) PROVE a < upto /\ upto <= a + Window
  <2>1. Above(SnOf(a), SnOf(upto)) \in 1 .. Window
    BY <1>1, <1>2, <1>3 DEF ValidAck
  <2>2. CASE upto < a
    <3>1. a \in Int /\ upto \in Int /\ a <= upto + Mod
      BY <1>1, <1>2, ModIs
    <3>2. Above(SnOf(a), SnOf(upto)) = (upto - a) + Mod
      BY <2>2, <3>1, AboveDown
    <3> QED BY <1>1, <1>2, <2>1, <3>2, ModIs
  <2>3. CASE upto >= a
    <3>1. a \in Int /\ upto \in Int /\ upto < a + Mod
      BY <1>1, <1>2, ModIs
    <3>2. Above(SnOf(a), SnOf(upto)) = upto - a
      BY <2>3, <3>1, AboveUp
    <3>3. upto - a \in 1 .. Window
      BY <2>1, <3>2
    <3> QED BY <1>1, <1>2, <3>3, ModIs
  <2> QED BY <1>1, <1>2, <2>2, <2>3
<1>4. ASSUME ValidAck(t, report.ack) PROVE NotBeyond(t, report.ack)
  <2>1. a < upto /\ upto <= a + Window
    BY <1>3, <1>4
  <2>2. a \in Int /\ upto \in Int /\ upto < a + Mod /\ l \in Int /\ a <= l + 1 /\ l + 1 < a + Mod
    BY <1>1, <1>2, <2>1, ModIs
  <2>3. Above(SnOf(a), SnOf(upto)) = upto - a
    BY <1>1, <1>2, <2>1, <2>2, AboveUp
  <2> HIDE DEF l
  <2>4. Above(SnOf(a), SnOf(l) + 1) = (l + 1) - a
    BY <2>2, AboveNext
  <2>5. upto - a <= (l + 1) - a
    <3>1. l + 1 >= s
      BY <1>1 DEF l
    <3> QED BY <1>1, <1>2, <2>2, <3>1
  <2> QED BY <1>1, <1>2, <2>3, <2>4, <2>5 DEF NotBeyond
<1>5. ASSUME Accepted(t, report) PROVE AcceptedOk(report, a, f, upto, size, begun)
  <2>1. /\ a < upto /\ upto <= a + Window
        /\ \A j \in DOMAIN report.nacks : ValidNack(t, report.ack, report.nacks[j])
    BY <1>3, <1>5 DEF Accepted
  <2>2. Above(SnOf(a), SnOf(upto)) = upto - a
    <3>1. a \in Int /\ upto \in Int /\ upto < a + Mod /\ a <= upto
      BY <1>1, <1>2, <2>1, ModIs
    <3> QED BY <3>1, AboveUp
  <2>3. ASSUME NEW j \in DOMAIN report.nacks, NEW i \in Nat, f <= i, i < upto,
               NackOk(report.nacks[j], i, size, begun)
        PROVE  a <= i /\ i + report.nacks[j].range <= upto
    <3> DEFINE nack == report.nacks[j]
               g == nack.range
               e == i + g - 1
    <3>1. g \in Nat \ {0}
      <4> DEFINE R == NackType
                 q == report.nacks
      <4>1. \A x \in R : x.range \in Nat \ {0}
        BY DEF NackType
      <4>2. q \in Seq(R) /\ j \in DOMAIN q
        BY <1>2
      <4> HIDE DEF R, q
      <4>3. q[j] \in R
        BY <4>2
      <4> QED BY <4>1, <4>3 DEF q
    <3>2. nack.sn = SnOf(i) /\ i + g <= s
      BY <2>3 DEF NackOk
    <3>3. LastSn(nack) = SnOf(e)
      <4>1. i \in Int /\ g - 1 \in Int /\ SnOf(i) \in Int
        BY <3>1, SnOfType DEF Sn
      <4>2. (SnOf(i) + (g - 1)) % Mod = SnOf(i + (g - 1))
        BY <4>1, SnOfSum, Zenon
      <4>3. nack.sn + nack.range - 1 = SnOf(i) + (g - 1) /\ i + (g - 1) = e
        BY <3>1, <3>2, <4>1
      <4> QED BY <4>2, <4>3 DEF LastSn
    <3>4. ValidNack(t, report.ack, nack)
      BY <2>1
    <3> HIDE DEF g
    <3>5. Above(SnOf(a), SnOf(i)) < upto - a /\ Above(SnOf(a), SnOf(e)) < upto - a
      BY <1>1, <1>2, <2>2, <3>2, <3>3, <3>4 DEF ValidNack
    <3>6. e \in Nat /\ i <= e /\ e + 1 <= s /\ e + 1 = i + g
      BY <3>1, <3>2, <2>3, <1>1
    <3> HIDE DEF e
    <3>7. upto <= i + Window /\ i <= a + Window + 1 /\ upto <= e + Window /\ e <= a + Window + 1
      BY <1>1, <1>2, <2>1, <2>3, <3>6, ModIs
    <3>8. a <= i
      BY <1>1, <1>2, <2>1, <3>5, <3>7, SeenFrom
    <3>9. e < upto
      BY <1>1, <1>2, <2>1, <3>5, <3>6, <3>7, SeenFrom
    <3>10. i + g <= upto
      BY <1>2, <3>6, <3>9
    <3> QED BY <3>8, <3>10 DEF g
  <2>4. \A j \in DOMAIN report.nacks : \E i \in f .. upto - 1 : NackOk(report.nacks[j], i, size, begun)
    BY DEF ReportOk
  <2>5. a <= f
    <3>1. CASE report.nacks = <<>>
      BY <1>1, <1>2, <2>1, <3>1
    <3>2. CASE report.nacks # <<>>
      <4>1. 1 \in DOMAIN report.nacks
        <5> DEFINE q == report.nacks
                   R == NackType
        <5>1. q \in Seq(R) /\ q # <<>>
          BY <1>2, <3>2
        <5> HIDE DEF q, R
        <5>2. 1 \in DOMAIN q
          BY <5>1
        <5> QED BY <5>2 DEF q
      <4>2. ValidNack(t, report.ack, report.nacks[1]) /\ report.nacks[1].sn = SnOf(f)
        BY <1>2, <2>1, <3>2, <4>1
      <4>3. Above(SnOf(a), SnOf(f)) < upto - a
        BY <1>1, <1>2, <2>2, <4>2 DEF ValidNack
      <4>4. upto <= f + Window /\ f <= a + Window + 1
        BY <1>1, <1>2, <2>1, ModIs
      <4> QED BY <1>1, <1>2, <2>1, <4>3, <4>4, SeenFrom
    <3> QED BY <3>1, <3>2
  <2>6. ASSUME NEW j \in DOMAIN report.nacks
        PROVE  \E i \in f .. upto - 1 :
                  NackOk(report.nacks[j], i, size, begun) /\ i + report.nacks[j].range <= upto
    <3>1. PICK i \in f .. upto - 1 : NackOk(report.nacks[j], i, size, begun)
      BY <2>4
    <3>2. i \in Nat /\ f <= i /\ i < upto
      BY <1>2
    <3> QED BY <2>3, <3>1, <3>2
  <2> QED BY <2>1, <2>5, <2>6 DEF AcceptedOk
<1> QED BY <1>4, <1>5

\* The acknowledged are those from the edge of the window up to the first the
\* receiving entity was missing.
LEMMA AckedIs ==
  ASSUME start \in Sn, NEW t, NEW a, NEW size, TxOk(t, a, size), NEW begun, SizesOk(size, begun),
         NEW report, NEW f \in Nat, NEW upto, ReportOk(report, f, upto, size, begun),
         a <= f, upto <= a + Window
  PROVE  Acked(t, report) = { SnOf(i) : i \in a .. f - 1 }
<1> DEFINE s == Len(size)
           stop == IF report.nacks = <<>> THEN report.ack ELSE report.nacks[1].sn
<1>1. /\ a \in Nat /\ s \in Nat /\ a <= s /\ s <= a + Window /\ t.nextAck = SnOf(a)
      /\ DOMAIN t.window = { SnOf(i) : i \in a .. s - 1 }
  BY DEF TxOk, SizesOk
<1>2. stop = SnOf(f) /\ upto \in Nat /\ f <= upto /\ upto <= s
  BY ReportTypes
<1> HIDE DEF stop
<1>3. a \in Int /\ f \in Int /\ a <= f /\ f < a + Mod
  BY <1>1, <1>2, ModIs
<1>4. Between(SnOf(a), SnOf(f)) = { SnOf(i) : i \in a .. f - 1 }
  BY <1>3, BetweenIs
<1>5. ASSUME NEW i \in a .. f - 1, NEW x \in Between(SnOf(a), SnOf(i)) \cup {SnOf(i)}
      PROVE  HasSn(t.window, x)
  <2>1. a \in Int /\ i \in Int /\ a <= i /\ i < a + Mod
    <3>1. i \in Int /\ a <= i /\ i < f
      BY <1>3
    <3> HIDE DEF s
    <3> QED BY <1>3, <3>1, ModIs
  <2>2. Between(SnOf(a), SnOf(i)) = { SnOf(j) : j \in a .. i - 1 }
    BY <2>1, BetweenIs
  <2>3. PICK j \in a .. i : x = SnOf(j)
    BY <1>1, <2>2
  <2>4. j \in a .. s - 1
    BY <1>1, <1>2
  <2> QED BY <1>1, <2>3, <2>4 DEF HasSn
<1>6. Acked(t, report) = { x \in Between(SnOf(a), SnOf(f)) :
                              \A y \in Between(SnOf(a), x) \cup {x} : HasSn(t.window, y) }
  BY <1>1, <1>2 DEF Acked, stop
<1> QED BY <1>4, <1>5, <1>6

\* The window after the first f SDUs instead of the first a.
Shifted(u, t, f, size) ==
    /\ TxTyped(u) /\ u.nextAck = SnOf(f)
    /\ u.queue = t.queue /\ u.next = t.next /\ u.sus = t.sus /\ u.retx = t.retx
    /\ DOMAIN u.window = { SnOf(i) : i \in f .. Len(size) - 1 }
    /\ \A x \in DOMAIN u.window : x \in DOMAIN t.window /\ u.window[x] = t.window[x]

\* Dropping what is acknowledged moves the window's edge to the first SDU that is not.
LEMMA WithAckedIs ==
  ASSUME start \in Sn, NEW t, NEW a, NEW size, TxOk(t, a, size), Len(size) \in Nat,
         NEW f \in Nat, a <= f, f <= Len(size)
  PROVE  Shifted(WithAcked(t, { SnOf(i) : i \in a .. f - 1 }), t, f, size)
<1> DEFINE s == Len(size)
           acks == { SnOf(i) : i \in a .. f - 1 }
           w == WithoutSns(t.window, acks)
           edge == (t.nextAck + Cardinality(acks)) % Mod
           u == WithAcked(t, acks)
<1>1. /\ TxTyped(t) /\ a \in Nat /\ s \in Nat /\ a <= s /\ s <= a + Window /\ t.nextAck = SnOf(a)
      /\ DOMAIN t.window = { SnOf(i) : i \in a .. s - 1 }
  BY DEF TxOk
<1>2. u = [t EXCEPT !.window = w, !.nextAck = edge]
  BY <1>1 DEF WithAcked, TxTyped
<1>3. edge = SnOf(f) /\ edge \in Sn
  <2>1. a \in Int /\ f \in Int /\ a <= f /\ f <= a + Mod /\ f - a \in Int /\ a + (f - a) = f
    BY <1>1, ModIs
  <2>2. Cardinality(acks) = f - a
    BY <2>1, CountOfSns
  <2>3. (SnOf(a) + (f - a)) % Mod = SnOf(a + (f - a))
    BY <2>1, SnOfSum, Zenon
  <2>4. SnOf(f) \in Sn
    BY <2>1, SnOfType
  <2> HIDE DEF acks
  <2> QED BY <1>1, <2>1, <2>2, <2>3, <2>4
<1> HIDE DEF edge, u
<1>4. DOMAIN t.window \ acks = { SnOf(i) : i \in f .. s - 1 }
  <2>1. ASSUME NEW i \in f .. s - 1, NEW j \in a .. f - 1 PROVE SnOf(i) # SnOf(j)
    <3>1. /\ a \in Int /\ i \in Int /\ j \in Int /\ a <= i /\ i <= a + Window
          /\ a <= j /\ j <= a + Window /\ i # j
      BY <1>1, ModIs
    <3> QED BY <3>1, Apart
  <2>2. a .. s - 1 = (a .. f - 1) \cup (f .. s - 1)
    BY <1>1
  <2> QED BY <1>1, <2>1, <2>2
<1>5. /\ DOMAIN w = { SnOf(i) : i \in f .. s - 1 }
      /\ \A x \in DOMAIN w : x \in DOMAIN t.window /\ w[x] = t.window[x]
  BY <1>4 DEF WithoutSns
<1>6. w \in [DOMAIN w -> EntryType]
  <2>1. t.window \in [DOMAIN t.window -> EntryType]
    BY <1>1 DEF TxTyped
  <2>2. \A x \in DOMAIN t.window : t.window[x] \in EntryType
    BY <2>1
  <2>3. w = [x \in DOMAIN w |-> w[x]]
    BY DEF WithoutSns
  <2> HIDE DEF w
  <2> QED BY <1>5, <2>2, <2>3
<1> HIDE DEF w, acks
<1>7. /\ TxTyped(u) /\ u.nextAck = edge /\ u.window = w
      /\ u.queue = t.queue /\ u.next = t.next /\ u.sus = t.sus /\ u.retx = t.retx
  BY <1>1, <1>2, <1>3, <1>6 DEF TxTyped
<1>8. Shifted(u, t, f, size)
  BY <1>3, <1>5, <1>7, Zenon DEF Shifted
<1> QED BY <1>8 DEF u, acks

\* The fold that winds the counts back.
RewindStep(u, r) ==
    IF u.retxSn = r.sn THEN u
    ELSE [IF HasSn(u.window, r.sn) THEN Decremented(u, r.sn) ELSE u EXCEPT !.retxSn = r.sn]

RewindFold(t, g) ==
    g = [s \in SUBSET (DOMAIN t.retx) |->
            IF s = {} THEN t ELSE RewindStep(g[s \ {Max(s)}], t.retx[Max(s)])]

\* Clearing the retransmissions, as the function the library chooses.
LEMMA RewoundIs ==
  ASSUME NEW t
  PROVE  Cleared(t) = [(CHOOSE g : RewindFold(t, g))[DOMAIN t.retx]
                          EXCEPT !.retx = <<>>, !.retxSn = None]
BY Zenon DEF Cleared, FoldLeft, MapThenFoldSet, RewindFold, RewindStep

\* No count is higher than it was.
NotCountedUp(w, v) == \A x \in DOMAIN v : w[x].retx <= v[x].retx

ClearedOk(u, t) ==
    /\ TxTyped(u) /\ u.retx = <<>>
    /\ u.queue = t.queue /\ u.next = t.next /\ u.nextAck = t.nextAck /\ u.sus = t.sus
    /\ SameButCounts(u.window, t.window) /\ NotCountedUp(u.window, t.window)

\* Entities with the same window as t but for counts, none of them higher.
Rewound(t) ==
    { u \in [queue : {t.queue}, next : {t.next}, nextAck : {t.nextAck}, pollSn : {t.pollSn},
             pdus : {t.pdus}, bytes : {t.bytes}, window : [DOMAIN t.window -> EntryType],
             sus : {t.sus}, retx : {t.retx}, retxSn : Sn \cup {None},
             pollTimer : {t.pollTimer}, halted : {t.halted}] :
       SameButCounts(u.window, t.window) /\ NotCountedUp(u.window, t.window) }

\* Taking one retransmission back lowers one count at most.
LEMMA RewoundStep ==
  ASSUME NEW t, TxTyped(t), NEW u \in Rewound(t), NEW r, r.sn \in Sn
  PROVE  RewindStep(u, r) \in Rewound(t)
<1> DEFINE e == u.window[r.sn]
           c == e.retx
           m == IF c = NotStarted THEN c ELSE c - 1
           w == [u.window EXCEPT ![r.sn].retx = m]
           rsn == r.sn
<1>1. /\ SameButCounts(u.window, t.window) /\ NotCountedUp(u.window, t.window)
      /\ u.window \in [DOMAIN t.window -> EntryType] /\ DOMAIN u.window = DOMAIN t.window
  BY DEF Rewound
<1>2. CASE u.retxSn = r.sn
  BY <1>2 DEF RewindStep
<1>3. CASE u.retxSn # r.sn /\ ~HasSn(u.window, r.sn)
  <2>1. RewindStep(u, r) = [u EXCEPT !.retxSn = rsn]
    BY <1>3 DEF RewindStep
  <2>2. rsn \in Sn
    OBVIOUS
  <2> HIDE DEF rsn
  <2> QED BY <2>1, <2>2 DEF Rewound
<1>4. CASE u.retxSn # r.sn /\ HasSn(u.window, r.sn)
  <2>1. Decremented(u, r.sn) = [u EXCEPT !.window = w]
    BY DEF Decremented, Rewound
  <2>2. RewindStep(u, r) = [[u EXCEPT !.window = w] EXCEPT !.retxSn = rsn]
    BY <1>4, <2>1 DEF RewindStep
  <2>3. e \in EntryType /\ c \in Int
    <3>1. e \in EntryType
      BY <1>1, <1>4 DEF HasSn
    <3> HIDE DEF e
    <3> QED BY <3>1 DEF EntryType
  <2>4. m \in Int /\ m <= c
    <3> HIDE DEF c
    <3> QED BY <2>3
  <2> DEFINE e2 == [e EXCEPT !.retx = m]
  <2>5. e2 \in EntryType /\ e2.k = e.k /\ e2.nextSo = e.nextSo /\ e2.retx = m
    <3> HIDE DEF e, m
    <3> QED BY <2>3, <2>4 DEF EntryType
  <2>6. /\ w \in [DOMAIN t.window -> EntryType] /\ DOMAIN w = DOMAIN t.window
        /\ w[rsn] = e2 /\ \A x \in DOMAIN t.window : x # rsn => w[x] = u.window[x]
    <3>1. w = [u.window EXCEPT ![rsn] = e2]
      OBVIOUS
    <3>2. rsn \in DOMAIN u.window
      BY <1>4 DEF HasSn
    <3> HIDE DEF w, e2, rsn
    <3> QED BY <1>1, <2>5, <3>1, <3>2
  <2>7. SameButCounts(w, t.window)
    <3>1. rsn \in DOMAIN t.window
      BY <1>1, <1>4 DEF HasSn
    <3>2. e2.k = t.window[rsn].k /\ e2.nextSo = t.window[rsn].nextSo
      BY <1>1, <2>5, <3>1 DEF SameButCounts
    <3> HIDE DEF w, e2, rsn
    <3> QED BY <1>1, <2>6, <3>2 DEF SameButCounts
  <2>8. NotCountedUp(w, t.window)
    <3>1. rsn \in DOMAIN t.window
      BY <1>1, <1>4 DEF HasSn
    <3>2. c <= t.window[rsn].retx /\ t.window[rsn].retx \in Int
      <4>1. c <= t.window[rsn].retx
        BY <1>1, <3>1 DEF NotCountedUp
      <4>2. t.window[rsn].retx \in Int
        BY <3>1 DEF TxTyped, EntryType
      <4> QED BY <4>1, <4>2
    <3>3. e2.retx <= t.window[rsn].retx
      <4> DEFINE d == t.window[rsn].retx
      <4>1. d \in Int /\ c <= d
        BY <3>2
      <4> HIDE DEF c, d, m, e2
      <4>2. m <= d
        BY <2>3, <2>4, <4>1
      <4> QED BY <2>5, <4>2 DEF d
    <3> HIDE DEF w, e2, rsn
    <3> QED BY <1>1, <2>6, <3>3 DEF NotCountedUp
  <2>9. rsn \in Sn
    OBVIOUS
  <2> HIDE DEF w, rsn
  <2> QED BY <2>2, <2>6, <2>7, <2>8, <2>9 DEF Rewound
<1> QED BY <1>2, <1>3, <1>4

\* Clearing the retransmissions leaves none, and raises no count.
LEMMA ClearedIs ==
  ASSUME NEW t, TxTyped(t)
  PROVE  ClearedOk(Cleared(t), t)
<1> DEFINE q == t.retx
           n == Len(q)
           V == Rewound(t)
           op == [x \in (1..n) \X V |-> RewindStep(x[2], q[x[1]])]
<1>1. n \in Nat /\ DOMAIN q = 1..n /\ q \in Seq(RetxType)
  <2>1. q \in Seq(RetxType)
    BY TxTypes
  <2> QED BY <2>1
<1>2. t \in V
  <2>1. t.window \in [DOMAIN t.window -> EntryType]
    BY DEF TxTyped
  <2>2. \A x \in DOMAIN t.window : t.window[x].retx \in Int
    BY <2>1 DEF EntryType
  <2>3. SameButCounts(t.window, t.window) /\ NotCountedUp(t.window, t.window)
    BY <2>2 DEF SameButCounts, NotCountedUp
  <2> QED BY <2>1, <2>3 DEF Rewound, TxTyped
<1>3. \A x \in 1..n : q[x].sn \in Sn
  <2> DEFINE R == RetxType
  <2>1. \A x \in R : x.sn \in Sn
    BY DEF RetxType
  <2>2. q \in Seq(R)
    BY <1>1
  <2> HIDE DEF R, q
  <2>3. \A x \in 1..n : q[x] \in R
    BY <2>2
  <2> QED BY <2>1, <2>3
<1>4. \A x \in 1..n, v \in V : RewindStep(v, q[x]) \in V
  <2> SUFFICES ASSUME NEW x \in 1..n, NEW v \in V PROVE RewindStep(v, q[x]) \in V
    OBVIOUS
  <2>1. q[x].sn \in Sn
    BY <1>3
  <2> QED BY <2>1, RewoundStep, Zenon
<1>5. op \in [(1..n) \X V -> V]
  <2> HIDE DEF V
  <2> QED BY <1>4
<1>6. \A x \in 1..n, v \in V : op[<<x, v>>] = RewindStep(v, q[x])
  OBVIOUS
<1> HIDE DEF n, V, op
<1>7. PICK g \in [SUBSET (1..n) -> V] : \A s \in SUBSET (1..n) :
          g[s] = IF s = {} THEN t ELSE op[<<Max(s), g[s \ {Max(s)}]>>]
  <2>1. \E g \in [SUBSET (1..n) -> V] : Folds(g, n, t, op)
    BY <1>1, <1>2, <1>5, FoldExists, Zenon
  <2> QED BY <2>1 DEF Folds
<1>8. RewindFold(t, g)
  <2>1. ASSUME NEW s \in SUBSET (1..n)
        PROVE  g[s] = IF s = {} THEN t ELSE RewindStep(g[s \ {Max(s)}], q[Max(s)])
    <3>1. CASE s = {}
      BY <1>7, <3>1
    <3>2. CASE s # {}
      <4>1. s \in SUBSET Nat /\ \A x \in s : x <= n
        BY <1>1
      <4>2. Max(s) \in 1..n
        BY <1>1, <3>2, <4>1, MaxIs
      <4>3. g[s \ {Max(s)}] \in V
        BY <1>7
      <4> QED BY <1>6, <1>7, <3>2, <4>2, <4>3
    <3> QED BY <3>1, <3>2
  <2> QED BY <1>1, <1>7, <2>1 DEF RewindFold
<1> DEFINE c == CHOOSE c : RewindFold(t, c)
<1>9. RewindFold(t, c)
  BY <1>8
<1>10. Cleared(t) = [c[1..n] EXCEPT !.retx = <<>>, !.retxSn = None]
  BY <1>1, RewoundIs
<1> HIDE DEF c
<1> DEFINE S == { m \in Nat : m <= n => c[1..m] \in V }
<1>11. 0 \in S
  <2>1. 1..0 = {} /\ {} \in SUBSET (1..n)
    OBVIOUS
  <2>2. c[1..0] = t
    BY <1>1, <1>9, <2>1 DEF RewindFold
  <2> QED BY <1>2, <2>2
<1>12. ASSUME NEW m \in S PROVE m + 1 \in S
  <2> SUFFICES ASSUME m + 1 <= n PROVE c[1 .. m + 1] \in V
    OBVIOUS
  <2>1. m \in Nat /\ m + 1 \in 1..n /\ m + 1 - 1 = m /\ m <= n
    BY <1>1
  <2> DEFINE l == m + 1
  <2>2. 1..l \in SUBSET (1..n) /\ 1..l # {} /\ Max(1..l) = l /\ (1..l) \ {l} = 1 .. m
    <3>1. 1..l \in SUBSET (1..n) /\ 1..l # {} /\ Max(1..l) = l /\ (1..l) \ {l} = 1 .. l - 1
      <4> HIDE DEF l
      <4> QED BY <1>1, <2>1, Prefix DEF l
    <3> QED BY <2>1, <3>1
  <2> HIDE DEF l
  <2>3. c[1..l] = RewindStep(c[1 .. m], q[l])
    BY <1>1, <1>9, <2>2 DEF RewindFold
  <2>4. c[1 .. m] \in V
    BY <2>1
  <2> QED BY <1>4, <2>1, <2>3, <2>4 DEF l
<1>13. c[1..n] \in V
  <2>1. Nat \subseteq S
    <3> HIDE DEF S
    <3> QED BY <1>11, <1>12, CountUp
  <2> QED BY <1>1, <2>1
<1> DEFINE u == c[1..n]
           d == Cleared(t)
<1>14. u \in V /\ d = [u EXCEPT !.retx = <<>>, !.retxSn = None]
  BY <1>10, <1>13
<1> HIDE DEF u, d
<1>15. /\ d.retx = <<>> /\ d.queue = t.queue /\ d.next = t.next /\ d.nextAck = t.nextAck
       /\ d.sus = t.sus /\ d.window = u.window
       /\ SameButCounts(u.window, t.window) /\ NotCountedUp(u.window, t.window)
       /\ u.window \in [DOMAIN t.window -> EntryType] /\ DOMAIN u.window = DOMAIN t.window
  BY <1>14 DEF V, Rewound
<1>16. TxTyped(d)
  <2>1. <<>> \in Seq(RetxType)
    OBVIOUS
  <2>2. d.window \in [DOMAIN d.window -> EntryType]
    BY <1>15
  <2> QED BY <1>14, <2>1, <2>2 DEF V, Rewound, TxTyped
<1> QED BY <1>15, <1>16 DEF ClearedOk, d

\* A nack of one SDU, of which j are before.
ItemOk(item, j, size, begun) ==
    /\ item.sn = SnOf(j) /\ item.from < size[j + 1]
    /\ item.to = EndOfSdu /\ item.from = 0 => j + 1 < Len(size)
    /\ item.to # EndOfSdu => item.to < begun[j + 1] /\ item.from <= item.to

UnrangedOk(q, range, i, size, begun) ==
    /\ q \in Seq(NackType) /\ Len(q) = range
    /\ \A x \in 1 .. range : ItemOk(q[x], i + x - 1, size, begun)

\* A range of nacks taken apart is a nack for each of its SDUs.
LEMMA UnrangedIs ==
  ASSUME start \in Sn, NEW size, NEW begun, SizesOk(size, begun), NEW nack \in NackType,
         NEW i \in Nat, NEW upto \in Nat, NackOk(nack, i, size, begun),
         i + nack.range <= upto, upto <= i + Window, upto <= Len(size)
  PROVE  UnrangedOk(Unranged(nack, SnOf(upto)), nack.range, i, size, begun)
<1> DEFINE g == nack.range
           Item(x) == Nack((nack.sn + x - 1) % Mod,
                           IF x = 1 THEN nack.from ELSE 0,
                           IF x = g THEN nack.to ELSE EndOfSdu)
           q == [x \in 1 .. g |-> Item(x)]
           s == Len(size)
<1>1. /\ nack.sn \in Sn /\ g \in Nat \ {0} /\ nack.from \in Nat /\ nack.to \in Nat
  BY DEF NackType
<1>2. /\ nack.sn = SnOf(i) /\ i + g <= s /\ nack.from < size[i + 1] /\ s \in Nat
      /\ nack.to = EndOfSdu /\ (nack.from = 0 \/ g > 1) => i + g < s
      /\ nack.to # EndOfSdu => nack.to < begun[i + g] /\ (g = 1 => nack.from <= nack.to)
  BY DEF NackOk, SizesOk
<1>3. Unranged(nack, SnOf(upto)) = q
  <2>1. (SnOf(upto) - nack.sn) % Mod = upto - i
    <3>1. i \in Int /\ upto \in Int /\ i <= upto /\ upto < i + Mod
      BY <1>1, ModIs
    <3>2. Above(SnOf(i), SnOf(upto)) = upto - i
      BY <3>1, AboveUp
    <3> QED BY <1>2, <3>2 DEF Above
  <2>2. Min({nack.range, (SnOf(upto) - nack.sn) % Mod}) = g
    <3> DEFINE d == upto - i
    <3>1. d \in Nat /\ g <= d /\ g \in Nat
      BY <1>1
    <3> HIDE DEF d, g
    <3>2. Min({g, d}) = g
      BY <3>1, MinOfTwo
    <3> QED BY <2>1, <3>2 DEF d, g
  <2> QED BY <2>2 DEF Unranged
<1>4. ASSUME NEW x \in 1 .. g
      PROVE  Item(x) \in NackType /\ ItemOk(Item(x), i + x - 1, size, begun)
  <2> DEFINE j == i + x - 1
             e == Item(x)
             from == IF x = 1 THEN nack.from ELSE 0
             to == IF x = g THEN nack.to ELSE EndOfSdu
  <2>1. (nack.sn + x - 1) % Mod = SnOf(j) /\ SnOf(j) \in Sn
    <3>1. i \in Int /\ x - 1 \in Int /\ i + (x - 1) = j /\ j \in Int /\ SnOf(i) \in Int
      BY <1>1, <1>2 DEF Sn
    <3>2. (SnOf(i) + (x - 1)) % Mod = SnOf(i + (x - 1))
      BY <3>1, SnOfSum, Zenon
    <3>3. nack.sn + x - 1 = SnOf(i) + (x - 1)
      BY <1>2, <3>1
    <3> QED BY <3>1, <3>2, <3>3, SnOfType
  <2>2. from \in Nat /\ to \in Nat
    BY <1>1 DEF EndOfSdu
  <2>3. e = [sn |-> SnOf(j), range |-> 1, from |-> from, to |-> to]
    BY <2>1 DEF Nack
  <2>4. j \in Nat /\ j + 1 \in 1 .. s /\ j + 1 <= i + g /\ (x # g => j + 1 < i + g)
    BY <1>1, <1>2
  <2>5. size[j + 1] \in Nat /\ begun[j + 1] \in Nat /\ 1 <= size[j + 1]
    BY <2>4, SizesAt
  <2>6. from < size[j + 1]
    <3>1. CASE x = 1
      BY <1>2, <3>1
    <3>2. CASE x # 1
      BY <2>5, <3>2
    <3> QED BY <3>1, <3>2
  <2>7. to = EndOfSdu /\ from = 0 => j + 1 < s
    <3> SUFFICES ASSUME to = EndOfSdu, from = 0 PROVE j + 1 < s
      OBVIOUS
    <3>1. CASE x # g
      BY <1>1, <1>2, <2>4, <3>1
    <3>2. CASE x = g
      <4>1. nack.to = EndOfSdu /\ (nack.from = 0 \/ g > 1)
        BY <1>1, <3>2
      <4> QED BY <1>1, <1>2, <2>4, <4>1
    <3> QED BY <3>1, <3>2
  <2>8. to # EndOfSdu => to < begun[j + 1] /\ from <= to
    <3> SUFFICES ASSUME to # EndOfSdu PROVE to < begun[j + 1] /\ from <= to
      OBVIOUS
    <3>1. x = g /\ to = nack.to /\ nack.to # EndOfSdu
      OBVIOUS
    <3>2. j + 1 = i + g
      BY <1>1, <3>1
    <3>3. to < begun[j + 1]
      BY <1>2, <3>1, <3>2
    <3>4. CASE x = 1
      <4>1. g = 1 /\ from = nack.from
        BY <3>1, <3>4
      <4> QED BY <1>2, <3>1, <3>3, <4>1
    <3>5. CASE x # 1
      <4>1. from = 0
        BY <3>5
      <4> HIDE DEF from, to
      <4> QED BY <2>2, <3>3, <4>1
    <3> QED BY <3>4, <3>5
  <2> HIDE DEF j, e, from, to
  <2>9. e \in NackType /\ e.sn = SnOf(j) /\ e.from = from /\ e.to = to
    BY <2>1, <2>2, <2>3 DEF NackType
  <2>10. ItemOk(e, j, size, begun)
    BY <2>6, <2>7, <2>8, <2>9 DEF ItemOk
  <2> QED BY <2>9, <2>10 DEF e, j
<1>5. q \in Seq(NackType) /\ Len(q) = g /\ \A x \in 1 .. g : q[x] = Item(x)
  <2> DEFINE R == NackType
  <2>1. \A x \in 1 .. g : Item(x) \in R
    BY <1>4
  <2> HIDE DEF R, g, Item
  <2>2. q \in Seq(R) /\ Len(q) = g /\ \A x \in 1 .. g : q[x] = Item(x)
    BY <1>1, <2>1
  <2> QED BY <2>2 DEF R
<1>6. \A x \in 1 .. g : ItemOk(q[x], i + x - 1, size, begun)
  BY <1>4, <1>5
<1> HIDE DEF q
<1> QED BY <1>3, <1>5, <1>6 DEF UnrangedOk

\* The nacks of single SDUs, in order.
ItemsOk(q, f, upto, size, begun) ==
    /\ q \in Seq(NackType)
    /\ \A x \in 1 .. Len(q) : \E j \in f .. upto - 1 : ItemOk(q[x], j, size, begun)
    /\ \A x \in 1 .. Len(q), y \in 1 .. Len(q) :
          x < y => Above(SnOf(f), q[x].sn) <= Above(SnOf(f), q[y].sn)

\* The items of a report, one per SDU or segment, are in order and in the window.
LEMMA ItemsIs ==
  ASSUME start \in Sn, NEW report, NEW a \in Nat, NEW f \in Nat, NEW upto, NEW size, NEW begun,
         SizesOk(size, begun), ReportOk(report, f, upto, size, begun),
         AcceptedOk(report, a, f, upto, size, begun)
  PROVE  ItemsOk(Items(report), f, upto, size, begun)
<1> DEFINE q == report.nacks
           l == Len(q)
           P == [x \in DOMAIN q |-> Unranged(q[x], report.ack)]
<1>1. /\ report.ack = SnOf(upto) /\ upto \in Nat /\ f <= upto /\ upto <= f + Window
      /\ upto <= Len(size) /\ q \in Seq(NackType)
  BY ReportTypes
<1>2. l \in Nat /\ DOMAIN q = 1 .. l /\ \A x \in 1 .. l : q[x] \in NackType
  <2> DEFINE R == NackType
  <2>1. q \in Seq(R)
    BY <1>1
  <2> HIDE DEF R, q
  <2>2. l \in Nat /\ DOMAIN q = 1 .. l /\ \A x \in 1 .. l : q[x] \in R
    BY <2>1
  <2> QED BY <2>2 DEF R
<1>3. PICK at \in [1 .. l -> f .. upto - 1] : NacksAre(q, at, f, size, begun)
  BY <1>1, NacksInOrder
<1>4. /\ \A x \in 1 .. l : at[x] \in f .. upto - 1 /\ NackOk(q[x], at[x], size, begun)
      /\ \A x \in 1 .. l - 1 : at[x] + q[x].range - 1 <= at[x + 1]
      /\ \A x \in 1 .. l, y \in 1 .. l : x <= y => at[x] <= at[y]
  BY <1>3 DEF NacksAre
<1> HIDE DEF q, l
<1>5. ASSUME NEW x \in 1 .. l
      PROVE  at[x] \in Nat /\ q[x].range \in Nat \ {0} /\ at[x] + q[x].range <= upto
  <2>1. at[x] \in Nat /\ f <= at[x] /\ at[x] <= f + Window /\ q[x].sn = SnOf(at[x])
    <3>1. at[x] \in f .. upto - 1 /\ NackOk(q[x], at[x], size, begun)
      BY <1>4
    <3> QED BY <1>1, <3>1, ModIs DEF NackOk
  <2>2. PICK i \in f .. upto - 1 : NackOk(q[x], i, size, begun) /\ i + q[x].range <= upto
    BY <1>2 DEF AcceptedOk, q
  <2>3. i \in Nat /\ f <= i /\ i <= f + Window /\ SnOf(i) = SnOf(at[x])
    BY <1>1, <2>1, <2>2, ModIs DEF NackOk
  <2>4. i = at[x]
    <3> DEFINE b == at[x]
    <3>1. f \in Int /\ i \in Int /\ b \in Int /\ f <= i /\ i <= f + Window /\ f <= b /\ b <= f + Window /\ SnOf(i) = SnOf(b)
      BY <2>1, <2>3
    <3> HIDE DEF b
    <3>2. i = b
      BY <3>1, Apart, Zenon
    <3> QED BY <3>2 DEF b
  <2>5. q[x] \in NackType
    BY <1>2
  <2>6. q[x].range \in Nat \ {0}
    <3> DEFINE e == q[x]
    <3> HIDE DEF e
    <3>1. e.range \in Nat \ {0}
      BY <2>5 DEF NackType, e
    <3> QED BY <3>1 DEF e
  <2> QED BY <2>1, <2>2, <2>4, <2>6
<1>6. ASSUME NEW x \in 1 .. l PROVE UnrangedOk(P[x], q[x].range, at[x], size, begun)
  <2>1. P[x] = Unranged(q[x], SnOf(upto))
    BY <1>1, <1>2
  <2>2. upto <= at[x] + Window
    <3>1. at[x] \in Nat /\ f <= at[x]
      BY <1>4, <1>5
    <3> QED BY <1>1, <3>1, ModIs
  <2>3. q[x] \in NackType /\ NackOk(q[x], at[x], size, begun)
    BY <1>2, <1>4
  <2> HIDE DEF P
  <2>4. UnrangedOk(Unranged(q[x], SnOf(upto)), q[x].range, at[x], size, begun)
    BY <1>1, <1>5, <2>2, <2>3, UnrangedIs
  <2> QED BY <2>1, <2>4
<1> DEFINE T == { e \in NackType : \E j \in f .. upto - 1 : ItemOk(e, j, size, begun) }
           key == [e \in T |-> Above(SnOf(f), e.sn)]
<1>7. DOMAIN P = 1 .. l /\ Len(P) = l
  BY <1>2
<1> HIDE DEF P
<1>8. ASSUME NEW x \in 1 .. l
      PROVE  /\ P[x] \in Seq(T) /\ Len(P[x]) = q[x].range
             /\ \A y \in 1 .. Len(P[x]) : P[x][y] \in T /\ key[P[x][y]] = (at[x] + y - 1) - f
  <2> DEFINE p == P[x]
             g == q[x].range
             b == at[x]
  <2>1. p \in Seq(NackType) /\ Len(p) = g /\ \A y \in 1 .. g : ItemOk(p[y], b + y - 1, size, begun)
    BY <1>6 DEF UnrangedOk
  <2>2. b \in Nat /\ g \in Nat \ {0} /\ b + g <= upto /\ f <= b
    BY <1>4, <1>5
  <2> HIDE DEF p, g, b
  <2>3. ASSUME NEW y \in 1 .. g
        PROVE  p[y] \in T /\ Above(SnOf(f), p[y].sn) = (b + y - 1) - f
    <3> DEFINE j == b + y - 1
    <3>1. j \in f .. upto - 1 /\ j \in Int /\ f <= j /\ j < f + Mod
      BY <1>1, <2>2, ModIs
    <3> HIDE DEF j
    <3>2. ItemOk(p[y], j, size, begun)
      BY <2>1 DEF j
    <3>3. p[y] \in NackType
      <4> DEFINE R == NackType
      <4>1. p \in Seq(R) /\ y \in 1 .. Len(p)
        BY <2>1
      <4> HIDE DEF R
      <4>2. p[y] \in R
        BY <4>1
      <4> QED BY <4>2 DEF R
    <3>4. Above(SnOf(f), SnOf(j)) = j - f
      BY <3>1, AboveUp
    <3>5. p[y].sn = SnOf(j)
      BY <3>2 DEF ItemOk
    <3> QED BY <3>1, <3>2, <3>3, <3>4, <3>5 DEF j
  <2> HIDE DEF T
  <2>4. p \in Seq(T)
    BY <2>1, <2>2, <2>3
  <2>5. \A y \in 1 .. g : key[p[y]] = (b + y - 1) - f
    BY <2>3
  <2> QED BY <2>1, <2>3, <2>4, <2>5 DEF p, g, b
<1>9. ItemsOk(FlattenSeq(P), f, upto, size, begun)
  <2>1. CASE l = 0
    <3>1. FlattenSeq(P) = P
      BY <1>7, <2>1, FlattenIs, Zenon
    <3>2. P = <<>>
      BY <1>2, <2>1 DEF P
    <3>3. <<>> \in Seq(NackType) /\ Len(<<>>) = 0
      OBVIOUS
    <3> QED BY <3>1, <3>2, <3>3 DEF ItemsOk
  <2>2. CASE l # 0
    <3> HIDE DEF T, key
    <3>1. P \in Seq(Seq(T))
      BY <1>2, <1>7, <1>8 DEF P
    <3>2. \A x \in 1 .. Len(P) : Sorted(P[x], key)
      <4> SUFFICES ASSUME NEW x \in 1 .. l, NEW y \in 1 .. Len(P[x]), NEW z \in 1 .. Len(P[x]), y < z
                   PROVE  key[P[x][y]] <= key[P[x][z]]
        BY <1>7 DEF Sorted
      <4>1. key[P[x][y]] = (at[x] + y - 1) - f /\ key[P[x][z]] = (at[x] + z - 1) - f /\ at[x] \in Nat
        BY <1>5, <1>8
      <4> DEFINE b == at[x]
      <4>2. y \in Nat /\ z \in Nat /\ b \in Nat
        BY <1>5, <1>8
      <4> HIDE DEF b
      <4>3. (b + y - 1) - f <= (b + z - 1) - f
        BY <4>2
      <4> QED BY <4>1, <4>3 DEF b
    <3>3. ASSUME NEW x \in 1 .. Len(P), NEW w \in 1 .. Len(P), x < w,
                 NEW y \in 1 .. Len(P[x]), NEW z \in 1 .. Len(P[w])
          PROVE  key[P[x][y]] <= key[P[w][z]]
      <4>1. x \in 1 .. l /\ w \in 1 .. l /\ x \in 1 .. l - 1 /\ x + 1 \in 1 .. l /\ x + 1 <= w
        BY <1>2, <1>7, <3>3
      <4>2. /\ key[P[x][y]] = (at[x] + y - 1) - f /\ key[P[w][z]] = (at[w] + z - 1) - f
            /\ Len(P[x]) = q[x].range /\ Len(P[w]) = q[w].range
        BY <1>8, <4>1
      <4>3. at[x] + q[x].range - 1 <= at[x + 1] /\ at[x + 1] <= at[w]
        BY <1>4, <4>1
      <4> DEFINE b == at[x]
                 c == at[x + 1]
                 d == at[w]
                 g == q[x].range
      <4>4. /\ b \in Nat /\ c \in Nat /\ d \in Nat /\ g \in Nat /\ y \in 1 .. g /\ z \in Nat /\ 1 <= z
            /\ b + g - 1 <= c /\ c <= d
        <5>1. b \in Nat /\ c \in Nat /\ d \in Nat /\ g \in Nat /\ q[w].range \in Nat
          BY <1>5, <4>1
        <5>2. y \in 1 .. g /\ z \in 1 .. q[w].range
          BY <4>2
        <5> QED BY <4>3, <5>1, <5>2
      <4> HIDE DEF b, c, d, g
      <4>5. (b + y - 1) - f <= (d + z - 1) - f
        BY <4>4
      <4> QED BY <4>2, <4>5 DEF b, d
    <3>4. FlattenSeq(P) \in Seq(T) /\ Sorted(FlattenSeq(P), key)
      <4>1. \A x \in 1 .. Len(P), w \in 1 .. Len(P) : x < w =>
               \A y \in 1 .. Len(P[x]), z \in 1 .. Len(P[w]) : key[P[x][y]] <= key[P[w][z]]
        BY <3>3
      <4>2. Len(P) # 0
        BY <1>7, <2>2
      <4> HIDE DEF T, key
      <4> QED BY <3>1, <3>2, <4>1, <4>2, FlattenKeeps
    <3> DEFINE F == FlattenSeq(P)
    <3> HIDE DEF F
    <3>5. \A x \in 1 .. Len(F) : F[x] \in T
      BY <3>4 DEF F
    <3>6. F \in Seq(NackType)
      <4>1. T \subseteq NackType
        BY DEF T
      <4> DEFINE R == NackType
      <4> HIDE DEF R
      <4>2. F \in Seq(T) /\ T \subseteq R
        BY <3>4, <4>1 DEF F, R
      <4>3. F \in Seq(R)
        BY <4>2
      <4> QED BY <4>3 DEF R
    <3>7. \A e \in T : key[e] = Above(SnOf(f), e.sn) /\ \E j \in f .. upto - 1 : ItemOk(e, j, size, begun)
      BY DEF T, key
    <3>8. \A x \in 1 .. Len(F), y \in 1 .. Len(F) :
             x < y => Above(SnOf(f), F[x].sn) <= Above(SnOf(f), F[y].sn)
      <4>1. Sorted(F, key)
        BY <3>4 DEF F
      <4> QED BY <3>5, <3>7, <4>1 DEF Sorted
    <3>9. \A x \in 1 .. Len(F) : \E j \in f .. upto - 1 : ItemOk(F[x], j, size, begun)
      BY <3>5, <3>7
    <3> QED BY <3>6, <3>8, <3>9 DEF ItemsOk, F
  <2> QED BY <2>1, <2>2
<1> QED BY <1>9 DEF Items, P, q

\* A window after the first f SDUs, whatever waits for retransmission.
View(t, f, size, begun) ==
    /\ DOMAIN t.window = { SnOf(i) : i \in f .. Len(size) - 1 }
    /\ \A i \in f .. Len(size) - 1 : t.window[SnOf(i)].k = i + 1
    /\ t.sus # None => t.sus = SnOf(Len(size) - 1) /\ t.window[t.sus].nextSo = begun[Len(size)]
    /\ \A k \in f + 1 .. Len(size) : t.sus = None \/ k < Len(size) => begun[k] = size[k]

\* A request for bytes that were sent.
RequestOk(t, item, j, begun) ==
    /\ ~Malformed(t, item)
    /\ Requested(t, item) \in RetxType
    /\ Requested(t, item).sn = SnOf(j)
    /\ Requested(t, item).so + Requested(t, item).len <= begun[j + 1]

\* What an item asks for is in the window and was sent.
LEMMA RequestedIs ==
  ASSUME start \in Sn, sent \in Seq(Sdus), NEW t, NEW f \in Nat, NEW begun,
         SizesOk(Sizes, begun), View(t, f, Sizes, begun), Len(Sizes) <= f + Window,
         NEW item \in NackType, NEW j \in Nat, f <= j, j < Len(Sizes),
         ItemOk(item, j, Sizes, begun), ~Unsent(t, item)
  PROVE  RequestOk(t, item, j, begun)
<1> DEFINE s == Len(Sizes)
           z == Sizes[j + 1]
           b == begun[j + 1]
           from == item.from
           last == LastByte(t, item)
           length == LengthOf(t, item.sn)
<1>1. /\ j + 1 \in 1 .. s /\ s \in Nat /\ z \in Nat /\ b \in Nat /\ b <= z /\ j \in f .. s - 1
      /\ j + 1 \in f + 1 .. s
  <2>1. j + 1 \in 1 .. s /\ j \in f .. s - 1 /\ j + 1 \in f + 1 .. s /\ s \in Nat
    BY DEF SizesOk
  <2> QED BY <2>1, SizesAt
<1>2. from \in Nat /\ item.to \in Nat /\ item.sn \in Sn
  BY DEF NackType
<1>3. /\ item.sn = SnOf(j) /\ from < z
      /\ item.to = EndOfSdu /\ from = 0 => j + 1 < s
      /\ item.to # EndOfSdu => item.to < b /\ from <= item.to
  BY DEF ItemOk
<1>4. length = z
  <2>1. t.window[SnOf(j)].k = j + 1
    BY <1>1 DEF View
  <2>2. Sizes[j + 1] = Length[sent[j + 1]]
    <3>1. Len(Sizes) = Len(sent)
      BY SizesAre
    <3> QED BY <1>1, <3>1, SizesAre
  <2> QED BY <1>3, <2>1, <2>2 DEF LengthOf
<1>5. t.sus # None /\ j + 1 = s => item.sn = t.sus
  <2>1. j + 1 = s => s - 1 = j
    BY <1>1
  <2> QED BY <1>3, <2>1 DEF View
<1>6. t.sus = None \/ j + 1 < s => b = z
  BY <1>1 DEF View
<1>7. last \in Nat /\ from <= last /\ last < b
  <2>1. CASE from = 0 /\ item.to = EndOfSdu
    <3>1. last = length - 1
      BY <2>1 DEF LastByte
    <3>2. b = z
      BY <1>3, <1>6, <2>1
    <3> HIDE DEF last, length, b, z, from
    <3> QED BY <1>1, <1>3, <1>4, <2>1, <3>1, <3>2
  <2>2. CASE from # 0 /\ item.to = EndOfSdu /\ item.sn = t.sus
    <3>1. last = t.window[item.sn].nextSo - 1
      BY <2>2 DEF LastByte
    <3>2. item.sn # None /\ t.sus # None /\ t.sus = SnOf(s - 1)
      <4>1. item.sn # None
        BY <1>2, RlcAssumption DEF Sn
      <4> QED BY <2>2, <4>1 DEF View
    <3>3. j = s - 1
      <4>1. /\ f \in Int /\ j \in Int /\ s - 1 \in Int /\ f <= j /\ j <= f + Window
            /\ f <= s - 1 /\ s - 1 <= f + Window /\ SnOf(j) = SnOf(s - 1)
        BY <1>1, <1>3, <2>2, <3>2, ModIs
      <4> HIDE DEF s
      <4> QED BY <4>1, Apart, Zenon
    <3>4. t.window[item.sn].nextSo = b
      <4>1. s = j + 1
        BY <1>1, <3>3
      <4> QED BY <2>2, <3>2, <4>1 DEF View
    <3>5. from < t.window[item.sn].nextSo
      BY <1>2, <1>1, <2>2, <3>4 DEF Unsent
    <3> HIDE DEF last, b, from
    <3> QED BY <1>1, <1>2, <3>1, <3>4, <3>5
  <2>3. CASE from # 0 /\ item.to = EndOfSdu /\ item.sn # t.sus
    <3>1. last = length - 1
      BY <2>3 DEF LastByte
    <3>2. b = z
      BY <1>1, <1>5, <1>6, <2>3
    <3> HIDE DEF last, length, b, z, from
    <3> QED BY <1>1, <1>2, <1>3, <1>4, <3>1, <3>2
  <2>4. CASE item.to # EndOfSdu
    <3>1. last = item.to
      BY <2>4 DEF LastByte
    <3> QED BY <1>2, <1>3, <2>4, <3>1
  <2> QED BY <2>1, <2>2, <2>3, <2>4
<1> HIDE DEF last, length, from, z, b
<1>8. ~Malformed(t, item)
  <2>1. ~(from > last) /\ ~(from >= length) /\ ~(last >= length)
    BY <1>1, <1>2, <1>3, <1>4, <1>7
  <2> QED BY <2>1 DEF Malformed, last, length, from
<1> DEFINE len == last - from + 1
<1>9. Requested(t, item) = [sn |-> item.sn, so |-> from, len |-> len]
  <2>1. length - 1 \in Nat /\ last <= length - 1
    BY <1>1, <1>4, <1>7
  <2> DEFINE m == length - 1
  <2>2. Min({last, m}) = last
    <3> HIDE DEF m
    <3> QED BY <1>7, <2>1, MinOfTwo DEF m
  <2>3. ~(from > last) /\ ~(from >= length)
    BY <1>1, <1>2, <1>3, <1>4, <1>7
  <2> QED BY <2>2, <2>3 DEF Requested, last, length, from
<1>10. len \in Nat \ {0} /\ from + len <= b
  BY <1>1, <1>2, <1>7
<1> HIDE DEF len
<1>11. /\ Requested(t, item) \in RetxType /\ Requested(t, item).sn = SnOf(j)
       /\ Requested(t, item).so = from /\ Requested(t, item).len = len
  BY <1>2, <1>3, <1>9, <1>10 DEF RetxType
<1> QED BY <1>8, <1>10, <1>11 DEF RequestOk, b

\* The fold that rebuilds the queue.
TakeStep(acc, item) ==
    IF ~Taken(acc.tx, item) THEN acc
    ELSE LET u == [acc.tx EXCEPT !.retx = Append(@, Requested(acc.tx, item))]
         IN [tx |-> IF acc.counted = item.sn THEN u ELSE Incremented(u, item.sn),
             counted |-> item.sn]

TakeFold(t, q, g) ==
    g = [s \in SUBSET (DOMAIN q) |->
            IF s = {} THEN [tx |-> t, counted |-> None]
            ELSE TakeStep(g[s \ {Max(s)}], q[Max(s)])]

\* Rebuilding the retransmissions, as the function the library chooses.
LEMMA RebuiltFold ==
  ASSUME NEW t, NEW q
  PROVE  Rebuilt(t, q) = (CHOOSE g : TakeFold(t, q, g))[DOMAIN q].tx
BY Zenon DEF Rebuilt, FoldLeft, MapThenFoldSet, TakeFold, TakeStep

\* What is built on t: the same but for counts and for the retransmissions.
Built(t, f, begun) ==
    { acc \in [tx : [queue : {t.queue}, next : {t.next}, nextAck : {t.nextAck},
                     pollSn : {t.pollSn}, pdus : {t.pdus}, bytes : {t.bytes},
                     window : [DOMAIN t.window -> EntryType], sus : {t.sus},
                     retx : Seq(RetxType), retxSn : {t.retxSn},
                     pollTimer : {t.pollTimer}, halted : {t.halted}],
               counted : Sn \cup {None}] :
       SameButCounts(acc.tx.window, t.window) /\ RetxOk(acc.tx.retx, f, Sizes, begun) }

\* How one nack counts.
CountStep(acc2, acc, sn) ==
    \/ acc2.tx.window = acc.tx.window /\ acc2.counted = acc.counted
    \/ /\ acc.counted # sn /\ acc2.counted = sn
       /\ \A x \in DOMAIN acc.tx.window : x # sn => acc2.tx.window[x] = acc.tx.window[x]
       /\ acc2.tx.window[sn].retx = acc.tx.window[sn].retx + 1

\* What the items are compared with does not change with the counts.
LEMMA ViewKept ==
  ASSUME NEW t, NEW u, NEW f \in Nat, NEW size, NEW begun, View(t, f, size, begun),
         Len(size) \in Nat, f < Len(size),
         SameButCounts(u.window, t.window), u.sus = t.sus
  PROVE  View(u, f, size, begun)
<1>1. \A i \in f .. Len(size) - 1 : SnOf(i) \in DOMAIN t.window
  BY DEF View
<1>2. \A i \in f .. Len(size) - 1 : u.window[SnOf(i)].k = i + 1
  BY <1>1 DEF View, SameButCounts
<1>3. u.sus # None => u.window[u.sus].nextSo = begun[Len(size)]
  <2>1. Len(size) - 1 \in f .. Len(size) - 1
    OBVIOUS
  <2> QED BY <1>1, <2>1 DEF View, SameButCounts
<1> QED BY <1>2, <1>3 DEF View, SameButCounts

LEMMA BuiltTypes ==
  ASSUME NEW t, TxTyped(t), NEW f, NEW begun, NEW acc \in Built(t, f, begun)
  PROVE  /\ TxTyped(acc.tx) /\ acc.counted \in Sn \cup {None}
         /\ acc = [tx |-> acc.tx, counted |-> acc.counted]
         /\ acc.tx.queue = t.queue /\ acc.tx.next = t.next /\ acc.tx.nextAck = t.nextAck
         /\ acc.tx.sus = t.sus /\ acc.tx.retx \in Seq(RetxType)
         /\ acc.tx.pollTimer = t.pollTimer
         /\ SameButCounts(acc.tx.window, t.window) /\ RetxOk(acc.tx.retx, f, Sizes, begun)
         /\ DOMAIN acc.tx.window = DOMAIN t.window
<1> DEFINE u == acc.tx
<1>1. /\ u \in [queue : {t.queue}, next : {t.next}, nextAck : {t.nextAck},
                     pollSn : {t.pollSn}, pdus : {t.pdus}, bytes : {t.bytes},
                     window : [DOMAIN t.window -> EntryType], sus : {t.sus},
                     retx : Seq(RetxType), retxSn : {t.retxSn},
                     pollTimer : {t.pollTimer}, halted : {t.halted}]
      /\ acc.counted \in Sn \cup {None} /\ acc = [tx |-> u, counted |-> acc.counted]
      /\ SameButCounts(u.window, t.window) /\ RetxOk(u.retx, f, Sizes, begun)
  BY DEF Built
<1> HIDE DEF u
<1>2. DOMAIN u.window = DOMAIN t.window /\ u.window \in [DOMAIN u.window -> EntryType]
  BY <1>1
<1>3. TxTyped(u)
  BY <1>1, <1>2 DEF TxTyped
<1> QED BY <1>1, <1>2, <1>3 DEF u

\* Taking one item queues bytes that were sent, and counts its SDU unless just counted.
LEMMA TakenStep ==
  ASSUME start \in Sn, sent \in Seq(Sdus), NEW t, TxTyped(t), NEW f \in Nat, NEW begun,
         SizesOk(Sizes, begun), View(t, f, Sizes, begun), Len(Sizes) <= f + Window,
         NEW item \in NackType, NEW j \in f .. Len(Sizes) - 1, ItemOk(item, j, Sizes, begun),
         NEW acc \in Built(t, f, begun)
  PROVE  TakeStep(acc, item) \in Built(t, f, begun) /\ CountStep(TakeStep(acc, item), acc, item.sn)
<1> DEFINE v == acc.tx
           r == Requested(v, item)
           q == Append(v.retx, r)
           u == [v EXCEPT !.retx = q]
           w == IF acc.counted = item.sn THEN u ELSE Incremented(u, item.sn)
<1>1. /\ TxTyped(v) /\ acc.counted \in Sn \cup {None} /\ v.sus = t.sus /\ v.retx \in Seq(RetxType)
      /\ SameButCounts(v.window, t.window) /\ RetxOk(v.retx, f, Sizes, begun)
      /\ DOMAIN v.window = DOMAIN t.window
  BY BuiltTypes
<1>2. CASE ~Taken(v, item)
  <2>1. TakeStep(acc, item) = acc
    BY <1>2 DEF TakeStep
  <2> QED BY <2>1 DEF CountStep
<1>3. CASE Taken(v, item)
  <2>0. Len(Sizes) \in Nat /\ f < Len(Sizes) /\ j \in Nat /\ f <= j /\ j < Len(Sizes)
    BY DEF SizesOk
  <2>1. View(v, f, Sizes, begun)
    BY <1>1, <2>0, ViewKept
  <2>2. RequestOk(v, item, j, begun)
    <3>1. ~Unsent(v, item)
      BY <1>3 DEF Taken
    <3> QED BY <2>0, <2>1, <3>1, RequestedIs
  <2>3. r \in RetxType /\ r.sn = SnOf(j) /\ r.so + r.len <= begun[j + 1]
    BY <2>2 DEF RequestOk
  <2> HIDE DEF r
  <2>4. q \in Seq(RetxType) /\ RetxOk(q, f, Sizes, begun)
    BY <1>1, <2>3, RetxAppended
  <2> HIDE DEF q
  <2>5. item.sn \in Sn /\ item.sn \in DOMAIN v.window
    <3>1. item.sn = SnOf(j)
      BY DEF ItemOk
    <3>2. item.sn \in DOMAIN v.window
      BY <2>1, <3>1 DEF View
    <3> QED BY <3>2 DEF NackType
  <2>6. /\ TxTyped(u) /\ u.window = v.window /\ u.retx = q
        /\ u = [v EXCEPT !.retx = q]
    <3> HIDE DEF v
    <3> QED BY <1>1, <2>4 DEF TxTyped
  <2>7. TakeStep(acc, item) = [tx |-> w, counted |-> item.sn]
    BY <1>3 DEF TakeStep, q, r
  <2> DEFINE Tx == [queue : {t.queue}, next : {t.next}, nextAck : {t.nextAck},
                     pollSn : {t.pollSn}, pdus : {t.pdus}, bytes : {t.bytes},
                     window : [DOMAIN t.window -> EntryType], sus : {t.sus},
                     retx : Seq(RetxType), retxSn : {t.retxSn},
                     pollTimer : {t.pollTimer}, halted : {t.halted}]
  <2>8. u \in Tx
    <3>1. v \in Tx
      BY DEF Built
    <3> HIDE DEF v
    <3> QED BY <2>4, <3>1
  <2>9. ASSUME NEW x \in Tx, SameButCounts(x.window, t.window), x.retx = q
        PROVE  [tx |-> x, counted |-> item.sn] \in Built(t, f, begun)
    <3> HIDE DEF Tx
    <3>1. [tx |-> x, counted |-> item.sn] \in [tx : Tx, counted : Sn \cup {None}]
      BY <2>5
    <3> QED BY <2>4, <2>9, <3>1 DEF Built, Tx
  <2>10. CASE acc.counted = item.sn
    <3>1. w = u
      BY <2>10
    <3>2. SameButCounts(u.window, t.window) /\ u.retx = q
      BY <1>1, <2>6
    <3>3. TakeStep(acc, item) \in Built(t, f, begun)
      <4> HIDE DEF Tx, u, w
      <4>1. [tx |-> u, counted |-> item.sn] \in Built(t, f, begun)
        BY <2>8, <2>9, <3>2
      <4> QED BY <2>7, <3>1, <4>1
    <3>4. TakeStep(acc, item).tx.window = acc.tx.window /\ TakeStep(acc, item).counted = acc.counted
      <4>1. u.window = acc.tx.window
        BY <2>6
      <4> HIDE DEF u, w
      <4>2. TakeStep(acc, item).tx = u /\ TakeStep(acc, item).counted = item.sn
        BY <2>7, <3>1
      <4> QED BY <2>10, <4>1, <4>2
    <3> QED BY <3>3, <3>4 DEF CountStep
  <2>11. CASE acc.counted # item.sn
    <3> DEFINE c == v.window[item.sn].retx
               n == IF c = NotStarted THEN 0 ELSE c + 1
               e == [v.window[item.sn] EXCEPT !.retx = n]
               win == [v.window EXCEPT ![item.sn] = e]
    <3>1. w = Incremented(u, item.sn)
      BY <2>11
    <3>2. CountedOk(w, u, item.sn) /\ w.window[item.sn].retx = u.window[item.sn].retx + 1
      <4>1. TxTyped(u) /\ item.sn \in DOMAIN u.window
        BY <2>5, <2>6
      <4> HIDE DEF u
      <4>2. CountedOk(Incremented(u, item.sn), u, item.sn)
            /\ Incremented(u, item.sn).window[item.sn].retx = u.window[item.sn].retx + 1
        BY <4>1, IncrementedIs
      <4> HIDE DEF w
      <4> QED BY <3>1, <4>2
    <3>3. w = [u EXCEPT !.window = win]
      <4>1. w = [u EXCEPT !.window[item.sn].retx = IF u.window[item.sn].retx = NotStarted THEN 0 ELSE u.window[item.sn].retx + 1]
        BY <3>1 DEF Incremented
      <4> HIDE DEF u, v, w
      <4> QED BY <2>6, <4>1 DEF TxTyped
    <3> HIDE DEF w, win, u
    <3>4. /\ w.retx = q /\ SameButCounts(w.window, v.window)
          /\ \A x \in DOMAIN v.window : x # item.sn => w.window[x] = v.window[x]
          /\ w.window[item.sn].retx = v.window[item.sn].retx + 1
          /\ TxTyped(w)
      BY <2>6, <3>2 DEF CountedOk
    <3>5. SameButCounts(w.window, t.window)
      BY <1>1, <3>4 DEF SameButCounts
    <3>6. w \in Tx
      <4>1. w.window \in [DOMAIN t.window -> EntryType]
        BY <3>4, <3>5 DEF TxTyped, SameButCounts
      <4>2. w.window = win
        BY <2>8, <3>3
      <4> QED BY <2>8, <3>3, <4>1, <4>2
    <3> HIDE DEF Tx, v
    <3>7. TakeStep(acc, item) \in Built(t, f, begun)
      BY <2>7, <2>9, <3>4, <3>5, <3>6
    <3>8. TakeStep(acc, item).tx = w /\ TakeStep(acc, item).counted = item.sn
      BY <2>7
    <3> QED BY <2>11, <3>4, <3>7, <3>8 DEF CountStep, v
  <2> QED BY <2>10, <2>11
<1> QED BY <1>2, <1>3

\* What one nack after the others counts: nothing twice.
CountsAre(acc, m, q, f, v) ==
    \A sn \in DOMAIN v :
       /\ acc.tx.window[sn].retx <= v[sn].retx + 1
       /\ (\A y \in 1 .. m : Above(SnOf(f), q[y].sn) < Above(SnOf(f), sn)) =>
             acc.tx.window[sn].retx <= v[sn].retx
       /\ (\A y \in 1 .. m : Above(SnOf(f), q[y].sn) <= Above(SnOf(f), sn)) =>
             acc.counted = sn \/ acc.tx.window[sn].retx <= v[sn].retx

\* Items are in order, so that an SDU is counted once however many items it has.
LEMMA CountsKept ==
  ASSUME start \in Sn, NEW v, NEW f \in Nat, DOMAIN v \subseteq Sn, NEW acc, NEW acc2,
         DOMAIN acc.tx.window = DOMAIN v, DOMAIN acc2.tx.window = DOMAIN v,
         \A x \in DOMAIN v : /\ v[x].retx \in Int /\ acc.tx.window[x].retx \in Int
                             /\ acc2.tx.window[x].retx \in Int,
         NEW q, NEW m \in Nat, CountsAre(acc, m, q, f, v),
         \A y \in 1 .. m + 1 : q[y].sn \in DOMAIN v,
         \A y \in 1 .. m : Above(SnOf(f), q[y].sn) <= Above(SnOf(f), q[m + 1].sn),
         CountStep(acc2, acc, q[m + 1].sn)
  PROVE  CountsAre(acc2, m + 1, q, f, v)
<1> DEFINE Key(sn) == Above(SnOf(f), sn)
           T(sn) == v[sn].retx
           R(sn) == acc.tx.window[sn].retx
           R2(sn) == acc2.tx.window[sn].retx
           new == q[m + 1].sn
<1>1. \A sn \in DOMAIN v : Key(sn) \in Int /\ T(sn) \in Int /\ R(sn) \in Int /\ R2(sn) \in Int
  <2>1. \A sn \in Sn : Above(SnOf(f), sn) \in Int
    BY AboveType, ModIs
  <2> QED BY <2>1
<1>2. \A x \in DOMAIN v, y \in DOMAIN v : Key(x) = Key(y) => x = y
  <2>1. \A sn \in Sn : sn = SnOf(f + Above(SnOf(f), sn))
    BY SnIsOf
  <2> QED BY <2>1
<1>3. /\ \A y \in 1 .. m + 1 : q[y].sn \in DOMAIN v
      /\ \A y \in 1 .. m : Key(q[y].sn) <= Key(new)
      /\ new \in DOMAIN v /\ m + 1 \in 1 .. m + 1
      /\ \A y \in 1 .. m : y \in 1 .. m + 1
  OBVIOUS
<1>4. \A sn \in DOMAIN v :
         /\ R(sn) <= T(sn) + 1
         /\ (\A y \in 1 .. m : Key(q[y].sn) < Key(sn)) => R(sn) <= T(sn)
         /\ (\A y \in 1 .. m : Key(q[y].sn) <= Key(sn)) => acc.counted = sn \/ R(sn) <= T(sn)
  BY DEF CountsAre
<1>5. \/ (\A sn \in DOMAIN v : R2(sn) = R(sn)) /\ acc2.counted = acc.counted
      \/ /\ acc.counted # new /\ acc2.counted = new
         /\ \A sn \in DOMAIN v : sn # new => R2(sn) = R(sn)
         /\ R2(new) = R(new) + 1
  BY DEF CountStep
<1> HIDE DEF Key, T, R, R2, new
<1>6. ASSUME NEW sn \in DOMAIN v
      PROVE  /\ R2(sn) <= T(sn) + 1
             /\ (\A y \in 1 .. m + 1 : Key(q[y].sn) < Key(sn)) => R2(sn) <= T(sn)
             /\ (\A y \in 1 .. m + 1 : Key(q[y].sn) <= Key(sn)) => acc2.counted = sn \/ R2(sn) <= T(sn)
  <2>1. (\A y \in 1 .. m + 1 : Key(q[y].sn) < Key(sn)) =>
           Key(new) < Key(sn) /\ \A y \in 1 .. m : Key(q[y].sn) < Key(sn)
    BY <1>3 DEF new
  <2>2. (\A y \in 1 .. m + 1 : Key(q[y].sn) <= Key(sn)) =>
           Key(new) <= Key(sn) /\ \A y \in 1 .. m : Key(q[y].sn) <= Key(sn)
    BY <1>3 DEF new
  <2>3. CASE (\A x \in DOMAIN v : R2(x) = R(x)) /\ acc2.counted = acc.counted
    <3>1. R2(sn) = R(sn) /\ acc2.counted = acc.counted
      BY <2>3
    <3> QED BY <1>4, <2>1, <2>2, <3>1
  <2>4. CASE sn # new /\ R2(sn) = R(sn) /\ acc2.counted = new
    <3>1. Key(new) <= Key(sn) => Key(new) < Key(sn)
      BY <1>1, <1>2, <1>3, <2>4
    <3>2. Key(new) < Key(sn) => \A y \in 1 .. m : Key(q[y].sn) < Key(sn)
      <4> SUFFICES ASSUME Key(new) < Key(sn), NEW y \in 1 .. m PROVE Key(q[y].sn) < Key(sn)
        OBVIOUS
      <4>1. q[y].sn \in DOMAIN v /\ Key(q[y].sn) <= Key(new)
        BY <1>3
      <4>2. Key(q[y].sn) \in Int /\ Key(new) \in Int /\ Key(sn) \in Int
        BY <1>1, <1>3, <4>1
      <4> QED BY <4>1, <4>2
    <3> QED BY <1>4, <2>1, <2>2, <2>4, <3>1, <3>2
  <2>5. CASE sn = new /\ acc.counted # new /\ acc2.counted = new /\ R2(new) = R(new) + 1
    <3>1. R(new) <= T(new)
      BY <1>3, <1>4, <2>5
    <3>2. R2(new) <= T(new) + 1
      BY <1>1, <1>3, <2>5, <3>1
    <3>3. ~(Key(new) < Key(new))
      BY <1>1, <1>3
    <3> QED BY <2>1, <2>5, <3>2, <3>3
  <2> QED BY <1>5, <2>3, <2>4, <2>5
<1> QED BY <1>6 DEF CountsAre, Key, T, R2

\* What the rebuilt queue makes of the entity.
RebuiltOk(u, t, f, begun) ==
    /\ TxTyped(u)
    /\ u.queue = t.queue /\ u.next = t.next /\ u.nextAck = t.nextAck /\ u.sus = t.sus
    /\ u.pollTimer = t.pollTimer
    /\ SameButCounts(u.window, t.window) /\ CountedOnce(u.window, t.window)
    /\ RetxOk(u.retx, f, Sizes, begun)

\* The retransmissions after a report are sound, and each SDU was counted once at most.
LEMMA RebuiltIs ==
  ASSUME start \in Sn, sent \in Seq(Sdus), NEW t, TxTyped(t), NEW f \in Nat, NEW begun,
         SizesOk(Sizes, begun), View(t, f, Sizes, begun), Len(Sizes) <= f + Window,
         NEW upto \in Nat, upto <= Len(Sizes), NEW q, ItemsOk(q, f, upto, Sizes, begun),
         RetxOk(t.retx, f, Sizes, begun)
  PROVE  RebuiltOk(Rebuilt(t, q), t, f, begun)
<1> DEFINE n == Len(q)
           V == Built(t, f, begun)
           base == [tx |-> t, counted |-> None]
           op == [x \in (1..n) \X V |-> TakeStep(x[2], q[x[1]])]
<1>1. n \in Nat /\ DOMAIN q = 1..n /\ \A x \in 1..n : q[x] \in NackType
  <2> DEFINE R == NackType
  <2>1. q \in Seq(R)
    BY DEF ItemsOk
  <2> HIDE DEF R
  <2>2. n \in Nat /\ DOMAIN q = 1..n /\ \A x \in 1..n : q[x] \in R
    BY <2>1
  <2> QED BY <2>2 DEF R
<1>2. base \in V
  <2>1. t.window \in [DOMAIN t.window -> EntryType] /\ t.retx \in Seq(RetxType)
    BY DEF TxTyped
  <2>2. SameButCounts(t.window, t.window)
    BY DEF SameButCounts
  <2> DEFINE Tx == [queue : {t.queue}, next : {t.next}, nextAck : {t.nextAck},
                     pollSn : {t.pollSn}, pdus : {t.pdus}, bytes : {t.bytes},
                     window : [DOMAIN t.window -> EntryType], sus : {t.sus},
                     retx : Seq(RetxType), retxSn : {t.retxSn},
                     pollTimer : {t.pollTimer}, halted : {t.halted}]
  <2>3. t \in Tx
    BY <2>1 DEF TxTyped
  <2> HIDE DEF Tx
  <2>4. base \in [tx : Tx, counted : Sn \cup {None}]
    BY <2>3
  <2> QED BY <2>2, <2>4 DEF Built, Tx
<1>3. ASSUME NEW x \in 1..n, NEW v \in V
      PROVE  TakeStep(v, q[x]) \in V /\ CountStep(TakeStep(v, q[x]), v, q[x].sn)
  <2>1. PICK j \in f .. upto - 1 : ItemOk(q[x], j, Sizes, begun)
    BY DEF ItemsOk
  <2>2. j \in f .. Len(Sizes) - 1
    <3>1. Len(Sizes) \in Nat
      BY DEF SizesOk
    <3> QED BY <3>1
  <2>3. q[x] \in NackType
    BY <1>1
  <2> HIDE DEF n
  <2> QED BY <2>1, <2>2, <2>3, TakenStep, Zenon
<1>4. op \in [(1..n) \X V -> V]
  <2> HIDE DEF V
  <2> QED BY <1>3
<1>5. \A x \in 1..n, v \in V : op[<<x, v>>] = TakeStep(v, q[x])
  OBVIOUS
<1> HIDE DEF n, V, op, base
<1>6. PICK g \in [SUBSET (1..n) -> V] : \A s \in SUBSET (1..n) :
          g[s] = IF s = {} THEN base ELSE op[<<Max(s), g[s \ {Max(s)}]>>]
  <2>1. \E g \in [SUBSET (1..n) -> V] : Folds(g, n, base, op)
    BY <1>1, <1>2, <1>4, FoldExists, Zenon
  <2> QED BY <2>1 DEF Folds
<1>7. TakeFold(t, q, g)
  <2>1. ASSUME NEW s \in SUBSET (1..n)
        PROVE  g[s] = IF s = {} THEN base ELSE TakeStep(g[s \ {Max(s)}], q[Max(s)])
    <3>1. CASE s = {}
      BY <1>6, <3>1
    <3>2. CASE s # {}
      <4>1. s \in SUBSET Nat /\ \A x \in s : x <= n
        BY <1>1
      <4>2. Max(s) \in 1..n
        BY <1>1, <3>2, <4>1, MaxIs
      <4>3. g[s \ {Max(s)}] \in V
        BY <1>6
      <4> QED BY <1>5, <1>6, <3>2, <4>2, <4>3
    <3> QED BY <3>1, <3>2
  <2> QED BY <1>1, <1>6, <2>1 DEF TakeFold, base
<1> DEFINE c == CHOOSE c : TakeFold(t, q, c)
<1>8. TakeFold(t, q, c)
  BY <1>7
<1>9. Rebuilt(t, q) = c[1..n].tx
  BY <1>1, RebuiltFold
<1> HIDE DEF c
<1>10. c[1..0] = base
  <2>1. 1..0 = {} /\ {} \in SUBSET (1..n)
    OBVIOUS
  <2> QED BY <1>1, <1>8, <2>1 DEF TakeFold, base
<1>11. ASSUME NEW m \in Nat, m + 1 <= n PROVE c[1 .. m + 1] = TakeStep(c[1 .. m], q[m + 1])
  <2> DEFINE l == m + 1
  <2>1. l \in 1..n /\ l - 1 = m
    BY <1>1, <1>11
  <2>2. 1..l \in SUBSET (1..n) /\ 1..l # {} /\ Max(1..l) = l /\ (1..l) \ {l} = 1 .. l - 1
    <3> HIDE DEF l
    <3> QED BY <1>1, <2>1, Prefix
  <2>3. (1..l) \ {l} = 1 .. m
    BY <2>1, <2>2
  <2> HIDE DEF l
  <2>4. c[1..l] = TakeStep(c[1 .. m], q[l])
    BY <1>1, <1>8, <2>2, <2>3 DEF TakeFold
  <2> QED BY <2>4 DEF l
<1>12. \A x \in DOMAIN t.window : t.window[x].retx \in Int
  BY CountsTyped
<1>13. \A v \in V : DOMAIN v.tx.window = DOMAIN t.window /\ \A x \in DOMAIN t.window : v.tx.window[x].retx \in Int
  <2> SUFFICES ASSUME NEW v \in V
               PROVE  DOMAIN v.tx.window = DOMAIN t.window /\ \A x \in DOMAIN t.window : v.tx.window[x].retx \in Int
    OBVIOUS
  <2>1. TxTyped(v.tx) /\ DOMAIN v.tx.window = DOMAIN t.window
    BY BuiltTypes DEF V
  <2> QED BY <2>1, CountsTyped
<1>14. DOMAIN t.window \subseteq Sn /\ \A x \in 1..n : q[x].sn \in DOMAIN t.window
  <2>1. DOMAIN t.window = { SnOf(i) : i \in f .. Len(Sizes) - 1 } /\ Len(Sizes) \in Nat
    BY DEF View, SizesOk
  <2>2. ASSUME NEW x \in 1..n PROVE q[x].sn \in DOMAIN t.window
    <3>1. PICK j \in f .. upto - 1 : ItemOk(q[x], j, Sizes, begun)
      BY DEF ItemsOk, n
    <3>2. j \in f .. Len(Sizes) - 1 /\ q[x].sn = SnOf(j)
      BY <2>1, <3>1 DEF ItemOk
    <3> QED BY <2>1, <3>2
  <2>3. \A i \in f .. Len(Sizes) - 1 : SnOf(i) \in Sn
    BY <2>1, SnOfType
  <2> QED BY <2>1, <2>2, <2>3
<1> DEFINE S == { m \in Nat : m <= n => c[1..m] \in V /\ CountsAre(c[1..m], m, q, f, t.window) }
<1>15. 0 \in S
  <2>1. CountsAre(base, 0, q, f, t.window)
    BY <1>12 DEF CountsAre, base
  <2> QED BY <1>2, <1>10, <2>1
<1>16. ASSUME NEW m \in S PROVE m + 1 \in S
  <2> SUFFICES ASSUME m + 1 <= n PROVE c[1 .. m + 1] \in V /\ CountsAre(c[1 .. m + 1], m + 1, q, f, t.window)
    OBVIOUS
  <2>1. m \in Nat /\ m + 1 \in 1..n /\ m <= n /\ c[1..m] \in V /\ CountsAre(c[1..m], m, q, f, t.window)
    BY <1>1
  <2> DEFINE acc == c[1..m]
             acc2 == c[1 .. m + 1]
  <2>2. acc2 = TakeStep(acc, q[m + 1])
    BY <1>11, <2>1
  <2>3. acc2 \in V /\ CountStep(acc2, acc, q[m + 1].sn)
    BY <1>3, <2>1, <2>2
  <2>4. \A y \in 1 .. m : Above(SnOf(f), q[y].sn) <= Above(SnOf(f), q[m + 1].sn)
    <3> SUFFICES ASSUME NEW y \in 1 .. m PROVE Above(SnOf(f), q[y].sn) <= Above(SnOf(f), q[m + 1].sn)
      OBVIOUS
    <3>1. y \in 1..n /\ m + 1 \in 1..n /\ y < m + 1
      BY <1>1, <2>1
    <3> QED BY <3>1 DEF ItemsOk, n
  <2>5. \A y \in 1 .. m + 1 : q[y].sn \in DOMAIN t.window
    <3>1. \A y \in 1 .. m + 1 : y \in 1..n
      BY <1>1, <2>1
    <3> QED BY <1>14, <3>1
  <2> HIDE DEF acc, acc2, S
  <2>6. /\ DOMAIN acc.tx.window = DOMAIN t.window /\ DOMAIN acc2.tx.window = DOMAIN t.window
        /\ \A x \in DOMAIN t.window : /\ t.window[x].retx \in Int /\ acc.tx.window[x].retx \in Int
                                      /\ acc2.tx.window[x].retx \in Int
    BY <1>12, <1>13, <2>1, <2>3 DEF acc
  <2>7. CountsAre(acc, m, q, f, t.window)
    BY <2>1 DEF acc
  <2>8. CountsAre(acc2, m + 1, q, f, t.window)
    BY <1>14, <2>1, <2>3, <2>4, <2>5, <2>6, <2>7, CountsKept
  <2> QED BY <2>3, <2>8 DEF acc2
<1>17. c[1..n] \in V /\ CountsAre(c[1..n], n, q, f, t.window)
  <2>1. Nat \subseteq S
    <3> HIDE DEF S
    <3> QED BY <1>15, <1>16, CountUp
  <2> QED BY <1>1, <2>1
<1> DEFINE acc == c[1..n]
           u == acc.tx
<1> HIDE DEF acc
<1>18. /\ TxTyped(u)
       /\ u.queue = t.queue /\ u.next = t.next /\ u.nextAck = t.nextAck /\ u.sus = t.sus
       /\ u.pollTimer = t.pollTimer
       /\ SameButCounts(u.window, t.window) /\ RetxOk(u.retx, f, Sizes, begun)
       /\ DOMAIN u.window = DOMAIN t.window
  <2>1. acc \in Built(t, f, begun)
    BY <1>17 DEF acc, V
  <2> QED BY <2>1, BuiltTypes
<1>19. CountedOnce(u.window, t.window)
  <2>1. CountsAre(acc, n, q, f, t.window)
    BY <1>17 DEF acc
  <2> QED BY <1>18, <2>1 DEF CountsAre, CountedOnce
<1> HIDE DEF u
<1>20. RebuiltOk(u, t, f, begun)
  BY <1>18, <1>19 DEF RebuiltOk
<1> QED BY <1>9, <1>20 DEF u, acc

--------------------------------------------------------------------------------
(* A whole STATUS PDU.                                                        *)

\* The same, also for an empty window.
LEMMA ViewSame ==
  ASSUME NEW t, NEW u, NEW f \in Nat, NEW size, NEW begun, View(t, f, size, begun),
         Len(size) \in Nat, t.sus = None \/ f < Len(size),
         SameButCounts(u.window, t.window), u.sus = t.sus
  PROVE  View(u, f, size, begun)
<1>1. CASE f < Len(size)
  BY <1>1, ViewKept
<1>2. CASE t.sus = None
  <2>1. \A i \in f .. Len(size) - 1 : SnOf(i) \in DOMAIN t.window
    BY DEF View
  <2> QED BY <1>2, <2>1 DEF View, SameButCounts
<1> QED BY <1>1, <1>2

\* Dropping what is acknowledged leaves the rest of the window as it was.
LEMMA ViewOfShifted ==
  ASSUME NEW t, NEW u, NEW a, NEW size, TxOk(t, a, size), Len(size) \in Nat,
         NEW f \in Nat, a <= f, f <= Len(size), t.sus # None => f < Len(size),
         Shifted(u, t, f, size)
  PROVE  View(u, f, size, Begun(t, size))
<1>1. /\ a \in Nat
      /\ \A i \in a .. Len(size) - 1 : t.window[SnOf(i)].k = i + 1
      /\ t.sus # None => t.sus = SnOf(Len(size) - 1)
  BY DEF TxOk
<1>2. /\ DOMAIN u.window = { SnOf(i) : i \in f .. Len(size) - 1 } /\ u.sus = t.sus
      /\ \A x \in DOMAIN u.window : u.window[x] = t.window[x]
  BY DEF Shifted
<1>3. ASSUME NEW i \in f .. Len(size) - 1
      PROVE  u.window[SnOf(i)].k = i + 1
  <2>1. SnOf(i) \in DOMAIN u.window /\ i \in a .. Len(size) - 1
    BY <1>1, <1>2
  <2> QED BY <1>1, <1>2, <2>1
<1>4. ASSUME t.sus # None
      PROVE  u.window[u.sus].nextSo = Begun(t, size)[Len(size)]
  <2>1. Len(size) - 1 \in f .. Len(size) - 1 /\ Len(size) \in 1 .. Len(size)
    BY <1>4
  <2>2. u.sus \in DOMAIN u.window
    BY <1>1, <1>2, <1>4, <2>1
  <2>3. Begun(t, size)[Len(size)] = t.window[t.sus].nextSo
    BY <1>4, <2>1 DEF Begun
  <2> QED BY <1>2, <2>2, <2>3
<1>5. \A k \in f + 1 .. Len(size) : u.sus = None \/ k < Len(size) => Begun(t, size)[k] = size[k]
  BY <1>2 DEF Begun
<1> QED BY <1>1, <1>2, <1>3, <1>4, <1>5 DEF View

\* From the window after a report back to the transmitter's invariant.
LEMMA TxOfView ==
  ASSUME NEW t, NEW u, NEW a, NEW size, TxOk(t, a, size), Len(size) \in Nat,
         NEW f \in Nat, a <= f, f <= Len(size), t.sus # None => f < Len(size),
         TxTyped(u), u.nextAck = SnOf(f), u.next = t.next, u.sus = t.sus,
         View(u, f, size, Begun(t, size)), RetxOk(u.retx, f, size, Begun(t, size))
  PROVE  TxOk(u, f, size) /\ Begun(u, size) = Begun(t, size)
<1>1. /\ a \in Nat /\ Len(size) <= a + Window
      /\ t.next = SnOf(IF t.sus = None THEN Len(size) ELSE Len(size) - 1)
      /\ t.sus # None => t.window[t.sus].nextSo \in 1 .. size[Len(size)] - 1
  BY DEF TxOk
<1>2. Len(size) <= f + Window
  BY <1>1, ModIs
<1>3. u.sus # None => u.sus = SnOf(Len(size) - 1) /\ u.window[u.sus].nextSo = t.window[t.sus].nextSo
  <2>1. u.sus # None => /\ u.sus = SnOf(Len(size) - 1)
                        /\ u.window[u.sus].nextSo = Begun(t, size)[Len(size)]
    BY DEF View
  <2>2. t.sus # None => Len(size) \in 1 .. Len(size)
    OBVIOUS
  <2>3. t.sus # None => Begun(t, size)[Len(size)] = t.window[t.sus].nextSo
    BY <2>2 DEF Begun
  <2> QED BY <2>1, <2>3
<1>4. Begun(u, size) = Begun(t, size)
  <2>1. \A k \in 1 .. Len(size) :
           (IF u.sus # None /\ k = Len(size) THEN u.window[u.sus].nextSo ELSE size[k])
             = (IF t.sus # None /\ k = Len(size) THEN t.window[t.sus].nextSo ELSE size[k])
    BY <1>3
  <2> QED BY <2>1, Zenon DEF Begun
<1>5. /\ DOMAIN u.window = { SnOf(i) : i \in f .. Len(size) - 1 }
      /\ \A i \in f .. Len(size) - 1 : u.window[SnOf(i)].k = i + 1
  BY DEF View
<1>6. RetxOk(u.retx, f, size, Begun(u, size))
  BY <1>4
<1>7. u.sus # None => /\ f < Len(size) /\ u.sus = SnOf(Len(size) - 1)
                      /\ u.window[u.sus].nextSo \in 1 .. size[Len(size)] - 1
  BY <1>1, <1>3
<1>8. u.next = SnOf(IF u.sus = None THEN Len(size) ELSE Len(size) - 1)
  BY <1>1
<1>9. TxOk(u, f, size)
  BY <1>2, <1>5, <1>6, <1>7, <1>8, Zenon DEF TxOk, RetxOk
<1> QED BY <1>4, <1>9

\* Every nack of it is of an SDU left in the window u, and of bytes it has.
NackedOk(u, report) ==
    \A x \in DOMAIN Items(report) :
       /\ HasSn(u.window, Items(report)[x].sn)
       /\ ~Unsent(u, Items(report)[x]) => ~Malformed(u, Items(report)[x])

\* The items are of SDUs in the window: no report makes the entity report a failure.
LEMMA NackedIs ==
  ASSUME start \in Sn, sent \in Seq(Sdus), NEW u, NEW f \in Nat, NEW begun,
         SizesOk(Sizes, begun), View(u, f, Sizes, begun), Len(Sizes) <= f + Window,
         NEW upto \in Nat, upto <= Len(Sizes), NEW report,
         ItemsOk(Items(report), f, upto, Sizes, begun)
  PROVE  NackedOk(u, report)
<1> DEFINE q == Items(report)
<1>0. Len(Sizes) \in Nat
  BY DEF SizesOk
<1> HIDE DEF q
<1>1. /\ q \in Seq(NackType)
      /\ \A x \in 1 .. Len(q) : \E j \in f .. upto - 1 : ItemOk(q[x], j, Sizes, begun)
  BY Zenon DEF ItemsOk, q
<1>2. DOMAIN q = 1 .. Len(q) /\ \A x \in DOMAIN q : q[x] \in NackType
  <2> DEFINE R == NackType
  <2>1. q \in Seq(R)
    BY <1>1
  <2> HIDE DEF R
  <2>2. DOMAIN q = 1 .. Len(q) /\ \A x \in DOMAIN q : q[x] \in R
    BY <2>1
  <2> QED BY <2>2 DEF R
<1>3. ASSUME NEW x \in DOMAIN q
      PROVE  HasSn(u.window, q[x].sn) /\ (~Unsent(u, q[x]) => ~Malformed(u, q[x]))
  <2>1. PICK j \in f .. upto - 1 : ItemOk(q[x], j, Sizes, begun)
    BY <1>1, <1>2, <1>3, Zenon
  <2>2. j \in Nat /\ f <= j /\ j < Len(Sizes) /\ j \in f .. Len(Sizes) - 1
    BY <1>0, <2>1
  <2>3. q[x].sn = SnOf(j)
    BY <2>1, Zenon DEF ItemOk
  <2>4. HasSn(u.window, q[x].sn)
    BY <2>2, <2>3 DEF HasSn, View
  <2>5. q[x] \in NackType
    BY <1>2, <1>3, Zenon
  <2>6. ASSUME ~Unsent(u, q[x])
        PROVE  RequestOk(u, q[x], j, begun)
    BY <2>1, <2>2, <2>5, <2>6, RequestedIs, Zenon
  <2> QED BY <2>4, <2>6, Zenon DEF RequestOk
<1> QED BY <1>3, Zenon DEF NackedOk, q

\* Counts lowered by the clearing and raised once are raised once at most.
LEMMA CountsCompose ==
  ASSUME NEW w, NEW v, NEW u, NEW c, CountedOnce(w, v), NotCountedUp(v, c), SameButCounts(v, c),
         \A x \in DOMAIN c : x \in DOMAIN u /\ c[x] = u[x],
         \A x \in DOMAIN w : w[x].retx \in Int,
         \A x \in DOMAIN v : v[x].retx \in Int,
         \A x \in DOMAIN u : u[x].retx \in Int
  PROVE  CountedOnce(w, u)
<1>1. ASSUME NEW x \in DOMAIN w
      PROVE  x \in DOMAIN u /\ w[x].retx <= u[x].retx + 1
  <2>1. x \in DOMAIN v /\ w[x].retx <= v[x].retx + 1
    BY DEF CountedOnce
  <2>2. x \in DOMAIN c /\ v[x].retx <= c[x].retx
    BY <2>1 DEF NotCountedUp, SameButCounts
  <2>3. x \in DOMAIN u /\ c[x].retx = u[x].retx
    BY <2>2
  <2>4. w[x].retx \in Int /\ v[x].retx \in Int /\ u[x].retx \in Int
    BY <2>1, <2>3
  <2> QED BY <2>1, <2>2, <2>3, <2>4
<1> QED BY <1>1 DEF CountedOnce

\* What is true of the window once a report was handled: it begins after the
\* first f SDUs, and each count went up by no more than one.
HandledOk(u, t, report, a, f) ==
    /\ a <= f /\ f <= Len(Sizes)
    /\ TxOk(u, f, Sizes) /\ Begun(u, Sizes) = Begun(t, Sizes)
    /\ CountedOnce(u.window, t.window) /\ u.sus = t.sus
    /\ Len(u.queue) \in Nat /\ Len(u.queue) <= Len(t.queue)
    /\ Acked(t, report) = { SnOf(i) : i \in a .. f - 1 }
    /\ NackedOk(WithAcked(t, Acked(t, report)), report)

\* A report that is accepted moves the window to the RX_Next it was built with, and counts
\* each SDU once.
LEMMA HandledIs ==
  ASSUME start \in Sn, sent \in Seq(Sdus), NEW t, NEW a, TxOk(t, a, Sizes),
         NEW report, NEW f \in Nat, NEW upto,
         ReportOk(report, f, upto, Sizes, Begun(t, Sizes)), upto + Window > a,
         Accepted(t, report), t.sus # None => f < Len(Sizes)
  PROVE  HandledOk(Handled(t, report), t, report, a, f)
<1> DEFINE s == Len(Sizes)
           begun == Begun(t, Sizes)
           v == IF PollAnswered(t, report) THEN [t EXCEPT !.pollTimer = FALSE] ELSE t
           acked == { SnOf(i) : i \in a .. f - 1 }
           w == WithAcked(v, acked)
           c == Cleared(w)
           b == Rebuilt(c, Items(report))
<1>1. SizesOk(Sizes, begun) /\ s \in Nat /\ Sizes \in Seq(Nat)
  BY BegunOk, SizesAre DEF SizesOk
<1>2. a \in Nat /\ TxTyped(t) /\ s <= a + Window
  BY DEF TxOk
<1>3. /\ upto \in Nat /\ f <= upto /\ upto <= s
  BY ReportTypes, Zenon
<1>4. AcceptedOk(report, a, f, upto, Sizes, begun)
  <2>1. /\ ValidAck(t, report.ack) => NotBeyond(t, report.ack)
        /\ Accepted(t, report) => AcceptedOk(report, a, f, upto, Sizes, begun)
    BY <1>1, AcceptedIs
  <2> QED BY <2>1
<1>5. a <= f /\ upto <= a + Window /\ f <= s
  <2>1. a <= f /\ upto <= a + Window
    BY <1>4, Zenon DEF AcceptedOk
  <2> HIDE DEF s
  <2> QED BY <1>1, <1>3, <2>1
<1>6. /\ TxTyped(v) /\ v.queue = t.queue /\ v.next = t.next /\ v.nextAck = t.nextAck
      /\ v.window = t.window /\ v.sus = t.sus /\ v.retx = t.retx
  BY <1>2 DEF TxTyped
<1>7. TxOk(v, a, Sizes) /\ Begun(v, Sizes) = begun
  <2>1. RetxOk(t.retx, a, Sizes, begun)
    BY Zenon DEF TxOk, RetxOk
  <2> HIDE DEF v
  <2> QED BY <1>6, <2>1, TxFrame
<1>8. ItemsOk(Items(report), f, upto, Sizes, begun)
  BY <1>1, <1>2, <1>4, ItemsIs
<1>9. Acked(t, report) = acked
  BY <1>1, <1>5, AckedIs
<1> HIDE DEF v
<1>10. Acked(v, report) = acked
  <2>1. Acked(v, report) = Acked(t, report)
    BY <1>6 DEF Acked
  <2> QED BY <1>9, <2>1
<1>11. Handled(t, report) = BufferStateRead(b)
  <2>1. Handled(t, report)
          = BufferStateRead(Rebuilt(Cleared(WithAcked(v, Acked(v, report))), Items(report)))
    BY Zenon DEF Handled, v
  <2> QED BY <1>10, <2>1
<1>12. Shifted(w, v, f, Sizes)
  BY <1>1, <1>5, <1>7, WithAckedIs
<1> HIDE DEF w
<1>13. View(w, f, Sizes, begun)
  <2>1. View(w, f, Sizes, Begun(v, Sizes))
    BY <1>1, <1>5, <1>6, <1>7, <1>12, ViewOfShifted
  <2> QED BY <1>7, <2>1
<1>14. /\ TxTyped(w) /\ w.nextAck = SnOf(f) /\ w.queue = t.queue /\ w.next = t.next
       /\ w.sus = t.sus
       /\ \A x \in DOMAIN w.window : x \in DOMAIN t.window /\ w.window[x] = t.window[x]
  BY <1>6, <1>12 DEF Shifted
<1>15. ClearedOk(c, w)
  BY <1>14, ClearedIs
<1> HIDE DEF c
<1>16. /\ TxTyped(c) /\ c.retx = <<>> /\ c.queue = w.queue /\ c.next = w.next
       /\ c.nextAck = w.nextAck /\ c.sus = w.sus
       /\ SameButCounts(c.window, w.window) /\ NotCountedUp(c.window, w.window)
  BY <1>15, Zenon DEF ClearedOk
<1>17. View(c, f, Sizes, begun)
  BY <1>1, <1>13, <1>14, <1>16, ViewSame
<1>18. RetxOk(c.retx, f, Sizes, begun)
  BY <1>16 DEF RetxOk
<1>19. s <= f + Window
  <2> HIDE DEF s
  <2> QED BY <1>1, <1>2, <1>5, ModIs
<1>20. RebuiltOk(b, c, f, begun)
  BY <1>1, <1>3, <1>8, <1>16, <1>17, <1>18, <1>19, RebuiltIs
<1> HIDE DEF b
<1>21. /\ TxTyped(b) /\ b.queue = c.queue /\ b.next = c.next /\ b.nextAck = c.nextAck
       /\ b.sus = c.sus /\ SameButCounts(b.window, c.window)
       /\ CountedOnce(b.window, c.window) /\ RetxOk(b.retx, f, Sizes, begun)
  BY <1>20, Zenon DEF RebuiltOk
<1>22. View(b, f, Sizes, begun)
  BY <1>1, <1>14, <1>16, <1>17, <1>21, ViewSame
<1>23. TxOk(b, f, Sizes) /\ Begun(b, Sizes) = begun
  BY <1>1, <1>5, <1>14, <1>16, <1>21, <1>22, TxOfView
<1>24. BufferOk(BufferStateRead(b), b, f, Sizes)
  BY <1>23, BufferReadIs
<1>25. CountedOnce(b.window, t.window)
  <2>1. /\ \A x \in DOMAIN b.window : b.window[x].retx \in Int
        /\ \A x \in DOMAIN c.window : c.window[x].retx \in Int
        /\ \A x \in DOMAIN t.window : t.window[x].retx \in Int
    BY <1>2, <1>16, <1>21, CountsTyped
  <2> QED BY <1>14, <1>16, <1>21, <2>1, CountsCompose
<1>26. NackedOk(WithAcked(t, Acked(t, report)), report)
  <2> DEFINE u == WithAcked(t, acked)
  <2>1. Shifted(u, t, f, Sizes)
    BY <1>1, <1>5, WithAckedIs
  <2> HIDE DEF u
  <2>2. View(u, f, Sizes, begun)
    BY <1>1, <1>5, <2>1, ViewOfShifted
  <2>3. NackedOk(u, report)
    BY <1>1, <1>3, <1>8, <1>19, <2>2, NackedIs
  <2> QED BY <1>9, <2>3 DEF u
<1> DEFINE u == BufferStateRead(b)
<1> HIDE DEF u, acked
<1>27. /\ TxOk(u, f, Sizes) /\ Begun(u, Sizes) = Begun(b, Sizes) /\ u.window = b.window
       /\ Len(u.queue) \in Nat /\ Len(u.queue) <= Len(b.queue) /\ u.sus = b.sus
  BY <1>24, Zenon DEF BufferOk, u
<1>28. b.queue = t.queue /\ b.sus = t.sus
  BY <1>14, <1>16, <1>21
<1>29. /\ Begun(u, Sizes) = Begun(t, Sizes) /\ CountedOnce(u.window, t.window)
       /\ Len(u.queue) \in Nat /\ Len(u.queue) <= Len(t.queue) /\ u.sus = t.sus
  BY <1>23, <1>25, <1>27, <1>28
<1>30. HandledOk(u, t, report, a, f)
  BY <1>5, <1>9, <1>26, <1>27, <1>29, Zenon DEF HandledOk, acked
<1> QED BY <1>11, <1>30 DEF u

--------------------------------------------------------------------------------
(* The steps, each with what it leaves of the invariant.                      *)

\* The first SDU keeps its sequence number, so the definitions above mean the
\* same after a step.
LEMMA TxNext ==
  ASSUME start' = start, NEW a
  PROVE  TxOk(tx, a, Sizes)' <=> TxOk(tx', a, Sizes')
BY Zenon DEF TxOk, TxTyped, SnOf, Begun

\* The receiver's invariant in the next state.
LEMMA RxNext ==
  ASSUME start' = start, NEW n, NEW h, NEW high
  PROVE  RxOk(rx, n, h, high, Sizes, Begun(tx, Sizes))'
            <=> RxOk(rx', n, h, high, Sizes', Begun(tx', Sizes'))
BY DEF RxOk, RxWindow, RxTyped, SnOf, StatusEdge, Triggered, Begun

\* The deliveries in the next state.
LEMMA DeliveriesNext ==
  ASSUME start' = start, NEW n
  PROVE  Deliveries(rx.window, n)' = Deliveries(rx'.window, n)
BY DEF Deliveries, SnOf

\* A sound PDU in the next state.
LEMMA PduNext ==
  ASSUME start' = start, NEW pdu
  PROVE  PduOk(pdu, Sizes, Begun(tx, Sizes))' <=> PduOk(pdu, Sizes', Begun(tx', Sizes'))
BY DEF PduOk, SnOf, Begun

\* A sound report in the next state.
LEMMA ReportNext ==
  ASSUME start' = start, NEW report, NEW f, NEW upto
  PROVE  ReportOk(report, f, upto, Sizes, Begun(tx, Sizes))'
            <=> ReportOk(report, f, upto, Sizes', Begun(tx', Sizes'))
BY DEF ReportOk, NackOk, SnOf, Begun

\* The SDUs delivered without a gap are those before RX_Next.
LEMMA SettledIs ==
  ASSUME NEW n \in Nat, n <= Len(Length), NEW window, ~Complete(window, SnOf(n))
  PROVE  { k \in Sdus : \A j \in 1 .. k : Deliveries(window, n)[j] > 0 } = 1 .. n
<1>1. Sdus = 1 .. Len(Length) /\ Len(Length) \in Nat
  BY LengthIs
<1>2. ASSUME NEW k \in 1 .. n
      PROVE  k \in Sdus /\ \A j \in 1 .. k : Deliveries(window, n)[j] > 0
  BY <1>1 DEF Deliveries
<1>3. ASSUME NEW k \in Sdus, \A j \in 1 .. k : Deliveries(window, n)[j] > 0
      PROVE  k \in 1 .. n
  <2>1. SUFFICES ASSUME k > n PROVE FALSE
    BY <1>1
  <2>2. n + 1 \in Sdus /\ n + 1 \in 1 .. k /\ ~(n + 1 <= n) /\ (n + 1) - 1 = n
    BY <1>1, <2>1
  <2>3. Deliveries(window, n)[n + 1] = 0
    BY <2>2 DEF Deliveries
  <2> QED BY <1>3, <2>2, <2>3
<1> QED BY <1>2, <1>3

\* What is in flight after one PDU more.
LEMMA AddedToBag ==
  ASSUME NEW B1, NEW e, NEW x, x \in BagToSet(B1 (+) SetToBag({e}))
  PROVE  x \in BagToSet(B1) \/ x = e
BY DEF BagToSet, SetToBag, (+)

\* What is in flight after one PDU less.
LEMMA TakenFromBag ==
  ASSUME NEW B1, NEW e, NEW x, x \in BagToSet(B1 (-) SetToBag({e}))
  PROVE  x \in BagToSet(B1)
BY DEF BagToSet, SetToBag, (-)

LEMMA CountTo ==
  ASSUME NEW n \in Nat
  PROVE  IsFiniteSet(1 .. n) /\ Cardinality(1 .. n) = n
<1>1. 1 \in Int /\ n \in Int
  OBVIOUS
<1>2. IsFiniteSet(1 .. n) /\ Cardinality(1 .. n) = IF 1 > n THEN 0 ELSE n - 1 + 1
  BY <1>1, FS_Interval, Zenon
<1> QED BY <1>2

\* The invariant in the next state, from its parts.
LEMMA InvAfter ==
  ASSUME start' = start, start \in Sn, sent' \in Seq(Sdus), submitted' \in 0 .. Len(Length),
         Len(sent') + Len(tx'.queue) <= submitted', Len(tx'.queue) \in Nat,
         NEW a \in Nat, NEW n \in Nat, confirmed' = 1 .. a, a <= n,
         TxOk(tx', a, Sizes'), tx'.sus # None => n < Len(sent'),
         NEW h \in Nat, NEW high \in Nat, RxOk(rx', n, h, high, Sizes', Begun(tx', Sizes')),
         received' = Deliveries(rx'.window, n),
         \A pdu \in BagToSet(data') : PduOk(pdu, Sizes', Begun(tx', Sizes')),
         \A r \in BagToSet(reports') :
            \E f \in 0 .. n : ReportOk(r.report, f, r.upto, Sizes', Begun(tx', Sizes')),
         "protocol_failure" \notin alarms'
  PROVE  IInv' /\ Settled' = 1 .. n
<1>1. RxWindow(rx', n, high, Sizes', Begun(tx', Sizes')) /\ ~Complete(rx'.window, SnOf(n))
      /\ StatusEdge(rx', n, h, high)
  BY DEF RxOk
<1>2. Len(Length) \in Nat /\ Len(sent') \in Nat /\ Len(Sizes') = Len(sent')
  BY LengthIs DEF Sizes
<1>3. n <= high /\ high <= Len(Sizes') /\ h <= high
  BY <1>1 DEF RxWindow, StatusEdge
<1>4. Len(Sizes') <= Len(Length)
  BY <1>2
<1>5. n <= Len(Length) /\ h \in Small /\ high \in Small
  BY <1>2, <1>3, <1>4, ModIs DEF Small
<1>6. Settled' = 1 .. n
  <2>1. Settled' = { k \in Sdus : \A j \in 1 .. k : received'[j] > 0 }
    BY DEF Settled
  <2> QED BY <1>1, <1>5, <2>1, SettledIs
<1>7. Cardinality(confirmed)' = a /\ Cardinality(Settled)' = n
  <2>1. Cardinality(1 .. a) = a /\ Cardinality(1 .. n) = n
    BY CountTo
  <2> QED BY <1>6, <2>1
<1>8. TxOk(tx, a, Sizes)'
  BY TxNext
<1>9. (\E x \in Small, y \in Small : RxOk(rx, n, x, y, Sizes, Begun(tx, Sizes)))'
  BY <1>5, RxNext
<1>10. Deliveries(rx.window, n)' = received'
  BY DeliveriesNext
<1>11. (\A pdu \in BagToSet(data) : PduOk(pdu, Sizes, Begun(tx, Sizes)))'
  BY PduNext
<1>12. (\A r \in BagToSet(reports) :
          \E f \in 0 .. n : ReportOk(r.report, f, r.upto, Sizes, Begun(tx, Sizes)))'
  <2>1. ASSUME NEW r, NEW f, ReportOk(r.report, f, r.upto, Sizes', Begun(tx', Sizes'))
        PROVE  ReportOk(r.report, f, r.upto, Sizes, Begun(tx, Sizes))'
    BY <2>1, ReportNext
  <2> QED BY <2>1
<1>13. InvAt(a, n)'
  BY <1>6, <1>8, <1>9, <1>10, <1>11, <1>12, Zenon DEF InvAt
<1>14. IInv' = InvAt(a, n)'
  BY <1>7 DEF IInv, InvAt
<1> QED BY <1>6, <1>13, <1>14

\* What the invariant says of a state in which a SDUs are confirmed.
Facts(a, n, h, high) ==
    /\ a \in Nat /\ n \in Nat /\ a <= n
    /\ confirmed = 1 .. a /\ Settled = 1 .. n /\ Cardinality(Settled) = n
    /\ Cardinality(confirmed) = a
    /\ TxInv(a) /\ start \in Sn
    /\ tx.sus # None => n < Len(sent)
    /\ h \in Nat /\ high \in Nat /\ RxOk(rx, n, h, high, Sizes, Begun(tx, Sizes))
    /\ received = Deliveries(rx.window, n)
    /\ \A pdu \in BagToSet(data) : PduOk(pdu, Sizes, Begun(tx, Sizes))
    /\ \A r \in BagToSet(reports) :
          \E f \in 0 .. n : ReportOk(r.report, f, r.upto, Sizes, Begun(tx, Sizes))
    /\ "protocol_failure" \notin alarms

\* The invariant with its parts named.
LEMMA FactsHold ==
  ASSUME IInv
  PROVE  \E a, n, h, high : Facts(a, n, h, high)
<1> DEFINE a == Cardinality(confirmed)
           n == Cardinality(Settled)
<1>1. InvAt(a, n)
  BY DEF IInv
<1>2. /\ TxInv(a) /\ start \in Sn /\ sent \in Seq(Sdus) /\ submitted \in 0 .. Len(Length)
      /\ confirmed = 1 .. a /\ Settled = 1 .. n /\ a <= n
      /\ tx.sus # None => n < Len(sent)
      /\ received = Deliveries(rx.window, n)
      /\ \A pdu \in BagToSet(data) : PduOk(pdu, Sizes, Begun(tx, Sizes))
      /\ \A r \in BagToSet(reports) :
            \E f \in 0 .. n : ReportOk(r.report, f, r.upto, Sizes, Begun(tx, Sizes))
      /\ "protocol_failure" \notin alarms
  BY <1>1, Zenon DEF InvAt, TxInv
<1>3. PICK h \in Small, high \in Small : RxOk(rx, n, h, high, Sizes, Begun(tx, Sizes))
  BY <1>1, Zenon DEF InvAt
<1>4. h \in Nat /\ high \in Nat
  BY LengthIs, ModIs DEF Small
<1>5. a \in Nat /\ n \in Nat
  BY <1>2, <1>3 DEF TxInv, TxOk, RxOk, RxWindow
<1> HIDE DEF a, n
<1>6. Cardinality(1 .. a) = a /\ Cardinality(1 .. n) = n
  BY <1>5, CountTo
<1>7. Cardinality(confirmed) = a /\ Cardinality(Settled) = n
  BY <1>2, <1>6
<1>8. Facts(a, n, h, high)
  BY <1>2, <1>3, <1>4, <1>5, <1>7, Zenon DEF Facts
<1> QED BY <1>8

\* The steps of the transmitting entity but for a STATUS PDU.
LEMMA TxKept ==
  ASSUME NEW a, NEW n, NEW h, NEW high, Facts(a, n, h, high), TxStep(a), start' = start,
         UNCHANGED <<rx, received, confirmed, reports>>, Sends(a),
         "protocol_failure" \notin alarms'
  PROVE  IInv' /\ Settled' = 1 .. n
<1> DEFINE begun == Begun(tx, Sizes)
           begun2 == Begun(tx', Sizes')
<1>1. Grows(Sizes, begun, Sizes', begun2)
  BY Zenon DEF TxStep
<1>2. /\ start \in Sn /\ sent \in Seq(Sdus) /\ Len(sent) \in Nat
      /\ a \in Nat /\ n \in Nat /\ a <= n /\ confirmed = 1 .. a
      /\ RxOk(rx, n, h, high, Sizes, begun) /\ received = Deliveries(rx.window, n)
      /\ h \in Nat /\ high \in Nat
  BY DEF Facts, TxInv
<1>3. /\ sent' \in Seq(Sdus) /\ submitted' \in 0 .. Len(Length) /\ Len(sent') \in Nat
      /\ Len(sent') + Len(tx'.queue) <= submitted' /\ TxOk(tx', a, Sizes')
  BY DEF TxStep
<1>4. Len(tx'.queue) \in Nat
  <2>1. tx'.queue \in QueueType
    BY <1>3, TxTypes DEF TxOk
  <2> QED BY <2>1 DEF QueueType
<1>5. ASSUME tx'.sus # None
      PROVE  n < Len(sent')
  <2>1. Len(Sizes) = Len(sent) /\ Len(Sizes') = Len(sent')
    BY <1>2, <1>3 DEF Sizes
  <2>2. n <= Len(sent)
    BY <1>2, <2>1 DEF RxOk, RxWindow
  <2>3. Len(sent) <= Len(sent')
    BY <1>1, <2>1 DEF Grows
  <2>4. CASE Len(sent') = Len(sent)
    <3> DEFINE s == Len(sent)
    <3>1. s >= 1 /\ begun2[s] < Sizes'[s]
      <4>1. /\ a \in Nat /\ a < Len(Sizes') /\ tx'.window[tx'.sus].nextSo \in 1 .. Sizes'[Len(Sizes')] - 1
        BY <1>3, <1>5 DEF TxOk
      <4>2. s >= 1 /\ s \in 1 .. Len(Sizes') /\ s = Len(Sizes')
        BY <1>3, <2>1, <2>4, <4>1
      <4>3. Sizes'[s] \in Nat /\ begun2[s] = tx'.window[tx'.sus].nextSo
        <5>1. Sizes'[s] \in Nat
          BY <1>1, <4>2, SizesAt DEF Grows
        <5> QED BY <1>5, <4>2, <5>1 DEF Begun
      <4> QED BY <4>1, <4>2, <4>3
    <3>2. s \in 1 .. Len(Sizes) /\ SizesOk(Sizes, begun) /\ SizesOk(Sizes', begun2)
      BY <1>1, <1>2, <2>1, <3>1 DEF Grows
    <3>3. /\ begun[s] <= begun2[s] /\ Sizes'[s] = Sizes[s]
          /\ begun[s] \in Nat /\ begun2[s] \in Nat /\ Sizes[s] \in Nat
      <4>1. begun[s] <= begun2[s] /\ Sizes'[s] = Sizes[s]
        BY <1>1, <3>2 DEF Grows
      <4>2. s \in 1 .. Len(Sizes')
        BY <2>1, <2>4, <3>2
      <4>3. begun[s] \in Nat /\ Sizes[s] \in Nat
        BY <3>2, SizesAt
      <4>4. begun2[s] \in Nat
        BY <3>2, <4>2, SizesAt
      <4> QED BY <4>1, <4>3, <4>4
    <3>4. begun[s] # Sizes[s]
      BY <3>1, <3>3
    <3>5. tx.sus # None
      BY <3>2, <3>4 DEF Begun
    <3> QED BY <2>4, <3>5 DEF Facts
  <2>5. CASE Len(sent') # Len(sent)
    BY <1>2, <1>3, <2>2, <2>3, <2>5
  <2> QED BY <2>4, <2>5
<1>6. RxOk(rx', n, h, high, Sizes', begun2)
  BY <1>1, <1>2, RxGrows
<1>7. ASSUME NEW pdu \in BagToSet(data')
      PROVE  PduOk(pdu, Sizes', begun2)
  <2>1. CASE pdu \in BagToSet(data)
    <3>1. PduOk(pdu, Sizes, begun)
      BY <2>1 DEF Facts
    <3> QED BY <1>1, <3>1, PduGrows
  <2>2. CASE pdu \notin BagToSet(data)
    <3>1. PICK e : data' = data (+) SetToBag({e}) /\ PduOk(e, Sizes', begun2)
      BY <2>2, Zenon DEF Sends
    <3>2. pdu \in BagToSet(data (+) SetToBag({e}))
      BY <3>1
    <3>3. pdu = e
      BY <2>2, <3>2, AddedToBag
    <3> QED BY <3>1, <3>3
  <2> QED BY <2>1, <2>2
<1>8. ASSUME NEW r \in BagToSet(reports')
      PROVE  \E f \in 0 .. n : ReportOk(r.report, f, r.upto, Sizes', begun2)
  <2>1. PICK f \in 0 .. n : ReportOk(r.report, f, r.upto, Sizes, begun)
    BY DEF Facts
  <2>2. f \in Nat
    OBVIOUS
  <2> QED BY <1>1, <2>1, <2>2, ReportGrows
<1> HIDE DEF begun, begun2
<1>9. confirmed' = 1 .. a /\ received' = Deliveries(rx'.window, n)
  BY <1>2
<1> USE DEF begun2
<1> QED BY <1>2, <1>3, <1>4, <1>5, <1>6, <1>7, <1>8, <1>9, InvAfter

\* The steps of the receiving entity and of the lower layer.
LEMMA RxKept ==
  ASSUME NEW a, NEW n, NEW h, NEW high, Facts(a, n, h, high),
         UNCHANGED <<start, submitted, tx, sent, confirmed>>, alarms' = alarms,
         NEW n2, NEW h2 \in Nat, NEW high2 \in Nat, n <= n2,
         RxOk(rx', n2, h2, high2, Sizes, Begun(tx, Sizes)),
         received' = Deliveries(rx'.window, n2), tx.sus # None => n2 < Len(sent),
         \A pdu \in BagToSet(data') : pdu \in BagToSet(data),
         \A r \in BagToSet(reports') :
            r \in BagToSet(reports) \/ ReportOk(r.report, n, r.upto, Sizes, Begun(tx, Sizes))
  PROVE  IInv'
<1> DEFINE begun == Begun(tx, Sizes)
<1>1. /\ start \in Sn /\ sent \in Seq(Sdus) /\ submitted \in 0 .. Len(Length)
      /\ Len(sent) + Len(tx.queue) <= submitted /\ TxOk(tx, a, Sizes)
      /\ a \in Nat /\ n \in Nat /\ a <= n /\ confirmed = 1 .. a
  BY DEF Facts, TxInv
<1>2. Sizes' = Sizes /\ Begun(tx', Sizes') = begun
  BY DEF Sizes, Begun
<1>3. Len(tx.queue) \in Nat
  <2>1. tx.queue \in QueueType
    BY <1>1, TxTypes DEF TxOk
  <2> QED BY <2>1 DEF QueueType
<1>4. n2 \in Nat
  BY DEF RxOk, RxWindow
<1>5. \A pdu \in BagToSet(data') : PduOk(pdu, Sizes, begun)
  BY DEF Facts
<1>6. ASSUME NEW r \in BagToSet(reports')
      PROVE  \E f \in 0 .. n2 : ReportOk(r.report, f, r.upto, Sizes, begun)
  <2>1. CASE r \in BagToSet(reports)
    <3>1. PICK f \in 0 .. n : ReportOk(r.report, f, r.upto, Sizes, begun)
      BY <2>1 DEF Facts
    <3>2. f \in 0 .. n2
      BY <1>1, <1>4
    <3> QED BY <3>1, <3>2
  <2>2. CASE r \notin BagToSet(reports)
    <3>1. n \in 0 .. n2
      BY <1>1, <1>4
    <3> QED BY <2>2, <3>1
  <2> QED BY <2>1, <2>2
<1>7. "protocol_failure" \notin alarms'
  BY DEF Facts
<1>8. a <= n2
  BY <1>1, <1>4
<1> HIDE DEF begun
<1>9. RxOk(rx', n2, h2, high2, Sizes', Begun(tx', Sizes'))
  BY <1>2 DEF begun
<1>10. /\ \A pdu \in BagToSet(data') : PduOk(pdu, Sizes', Begun(tx', Sizes'))
       /\ \A r \in BagToSet(reports') :
             \E f \in 0 .. n2 : ReportOk(r.report, f, r.upto, Sizes', Begun(tx', Sizes'))
  BY <1>2, <1>5, <1>6
<1>11. /\ start' = start /\ sent' \in Seq(Sdus) /\ submitted' \in 0 .. Len(Length)
       /\ Len(sent') + Len(tx'.queue) <= submitted' /\ Len(tx'.queue) \in Nat
       /\ confirmed' = 1 .. a /\ TxOk(tx', a, Sizes')
       /\ tx'.sus # None => n2 < Len(sent')
  BY <1>1, <1>2, <1>3
<1> QED BY <1>1, <1>4, <1>7, <1>8, <1>9, <1>10, <1>11, InvAfter

BearerStep == [B!Next]_(B!bvars)

\* A step is kept when it keeps the invariant and is one of the bearer's or none.
Kept == IInv' /\ BearerStep

\* A step that delivers and confirms nothing is a stutter of the bearer.
LEMMA Stutters ==
  ASSUME sent' = sent, received' = received, confirmed' = confirmed
  PROVE  BearerStep
BY DEF BearerStep, B!bvars

\* Losses keep the invariant.
LEMMA LowerLayerKept ==
  ASSUME IInv, LoseData \/ LoseReport \/ DropLate
  PROVE  Kept
<1>1. PICK a, n, h, high : Facts(a, n, h, high)
  BY FactsHold
<1>2. UNCHANGED <<start, submitted, tx, rx, sent, received, confirmed, alarms>>
  BY DEF LoseData, LoseReport, DropLate
<1>3. \A pdu \in BagToSet(data') : pdu \in BagToSet(data)
  <2>1. data' = data \/ \E e : data' = data (-) SetToBag({e})
    BY DEF LoseData, LoseReport, DropLate
  <2> QED BY <2>1, TakenFromBag
<1>4. \A r \in BagToSet(reports') : r \in BagToSet(reports)
  <2>1. reports' = reports \/ \E e : reports' = reports (-) SetToBag({e})
    BY DEF LoseData, LoseReport, DropLate
  <2> QED BY <2>1, TakenFromBag
<1>5. /\ n \in Nat /\ h \in Nat /\ high \in Nat /\ n <= n
      /\ RxOk(rx', n, h, high, Sizes, Begun(tx, Sizes))
      /\ received' = Deliveries(rx'.window, n)
      /\ tx.sus # None => n < Len(sent)
  BY <1>1, <1>2 DEF Facts
<1>6. IInv'
  BY <1>1, <1>2, <1>3, <1>4, <1>5, RxKept
<1> QED BY <1>2, <1>6, Stutters DEF Kept

\* Sending a STATUS PDU keeps the invariant.
LEMMA StatusPullKept ==
  ASSUME IInv, NEW k \in Nat, PullStatus(k)
  PROVE  Kept
<1>1. PICK a, n, h, high : Facts(a, n, h, high)
  BY FactsHold
<1>2. UNCHANGED <<start, submitted, tx, data, sent, received, confirmed, alarms>>
  BY DEF PullStatus
<1>3. /\ start \in Sn /\ n \in Nat /\ h \in Nat /\ high \in Nat /\ n <= n
      /\ RxOk(rx, n, h, high, Sizes, Begun(tx, Sizes))
      /\ received = Deliveries(rx.window, n)
      /\ tx.sus # None => n < Len(sent)
      /\ Cardinality(Settled) = n
  BY <1>1 DEF Facts
<1>4. SizesOk(Sizes, Begun(tx, Sizes))
  BY <1>1, BegunOk DEF Facts, TxInv
<1>5. /\ rx'.window = rx.window /\ RxOk(rx', n, h, high, Sizes, Begun(tx, Sizes))
      /\ \E r : /\ reports' = reports (+) SetToBag({r})
                /\ ReportOk(r.report, n, r.upto, Sizes, Begun(tx, Sizes))
  BY <1>3, <1>4, StatusPulled
<1>6. ASSUME NEW r \in BagToSet(reports')
      PROVE  r \in BagToSet(reports) \/ ReportOk(r.report, n, r.upto, Sizes, Begun(tx, Sizes))
  <2>1. PICK e : /\ reports' = reports (+) SetToBag({e})
                 /\ ReportOk(e.report, n, e.upto, Sizes, Begun(tx, Sizes))
    BY <1>5
  <2>2. r \in BagToSet(reports (+) SetToBag({e}))
    BY <2>1
  <2> QED BY <2>1, <2>2, AddedToBag
<1>7. IInv'
  <2>1. received' = Deliveries(rx'.window, n)
    BY <1>2, <1>3, <1>5
  <2> QED BY <1>1, <1>2, <1>3, <1>5, <1>6, <2>1, RxKept
<1> QED BY <1>2, <1>7, Stutters DEF Kept

\* The receiver's timers keep the invariant.
LEMMA TimersKept ==
  ASSUME IInv, ExpireProhibit \/ ExpireReassembly
  PROVE  Kept
<1>1. PICK a, n, h, high : Facts(a, n, h, high)
  BY FactsHold
<1>2. UNCHANGED <<start, submitted, tx, data, reports, sent, received, confirmed, alarms>>
  BY DEF ExpireProhibit, ExpireReassembly, env
<1>3. /\ start \in Sn /\ n \in Nat /\ h \in Nat /\ high \in Nat /\ n <= n
      /\ RxOk(rx, n, h, high, Sizes, Begun(tx, Sizes))
      /\ received = Deliveries(rx.window, n)
      /\ tx.sus # None => n < Len(sent)
  BY <1>1 DEF Facts
<1>4. PICK h2 \in Nat :
        rx'.window = rx.window /\ RxOk(rx', n, h2, high, Sizes, Begun(tx, Sizes))
  <2>1. CASE ExpireProhibit
    BY <1>3, <2>1, ProhibitExpired
  <2>2. CASE ExpireReassembly
    <3>1. rx'.window = rx.window
          /\ \E h2 \in n .. high : RxOk(rx', n, h2, high, Sizes, Begun(tx, Sizes))
      BY <1>3, <2>2, ReassemblyExpired
    <3>2. n .. high \subseteq Nat
      BY <1>3
    <3> QED BY <3>1, <3>2
  <2> QED BY <2>1, <2>2
<1>5. received' = Deliveries(rx'.window, n)
  BY <1>2, <1>3, <1>4
<1>6. IInv'
  BY <1>1, <1>2, <1>3, <1>4, <1>5, RxKept
<1> QED BY <1>2, <1>6, Stutters DEF Kept

\* New and discarded SDUs and t-PollRetransmit keep the invariant.
LEMMA SduKept ==
  ASSUME IInv, HandleSdu \/ DiscardSdu \/ ExpirePoll
  PROVE  Kept
<1>1. PICK a, n, h, high : Facts(a, n, h, high)
  BY FactsHold
<1>2. /\ UNCHANGED <<start, rx, sent, received, confirmed, data, reports>>
      /\ alarms' = alarms \/ alarms' = alarms \cup {"max_retx"} \/ alarms' = alarms \cup {}
  <2>1. CASE HandleSdu \/ DiscardSdu
    BY <2>1 DEF HandleSdu, DiscardSdu, env
  <2>2. CASE ExpirePoll
    BY <2>2 DEF ExpirePoll, env
  <2> QED BY <2>1, <2>2
<1>3. TxStep(a)
  <2>1. TxInv(a)
    BY <1>1 DEF Facts
  <2> QED BY <2>1, SduQueued, SduDiscarded, PollExpired
<1>4. "protocol_failure" \notin alarms'
  BY <1>1, <1>2 DEF Facts
<1>5. Sends(a)
  BY <1>2 DEF Sends
<1>6. IInv'
  BY <1>1, <1>2, <1>3, <1>4, <1>5, TxKept
<1> QED BY <1>2, <1>6, Stutters DEF Kept

\* Sending data keeps the invariant.
LEMMA PullKept ==
  ASSUME IInv, NEW grant \in 1 .. MaxGrant, Pull(grant)
  PROVE  Kept
<1>0. grant \in Nat \ {0}
  BY RlcAssumption
<1>1. PICK a, n, h, high : Facts(a, n, h, high)
  BY FactsHold
<1>2. UNCHANGED <<start, rx, received, confirmed, reports, alarms>>
  BY DEF Pull, PullNew, PullContinued, PullRetx, Transmit, env
<1>3. /\ TxStep(a) /\ Sends(a)
      /\ sent' = sent \/ \E m \in Sdus : sent' = Append(sent, m)
  <2>1. TxInv(a)
    BY <1>1 DEF Facts
  <2> QED BY <1>0, <2>1, NewPulled, SegmentPulled, RetxPulled DEF Pull
<1>4. "protocol_failure" \notin alarms'
  BY <1>1, <1>2 DEF Facts
<1>5. IInv'
  BY <1>1, <1>2, <1>3, <1>4, TxKept
<1>6. ASSUME NEW m \in Sdus, sent' = Append(sent, m)
      PROVE  BearerStep
  <2>1. sent \in Seq(Sdus) /\ Len(sent) \in Nat
    BY <1>1 DEF Facts, TxInv
  <2>2. PICK s \in Nat : s = Len(sent) + 1
    BY <2>1
  <2>3. Len(sent') = s
    BY <1>6, <2>1, <2>2
  <2>4. s \in Sdus
    <3>1. /\ sent' \in Seq(Sdus) /\ submitted' \in 0 .. Len(Length)
          /\ Len(sent') + Len(tx'.queue) <= submitted' /\ TxOk(tx', a, Sizes')
      BY <1>3 DEF TxStep
    <3>2. tx'.queue \in QueueType
      BY <3>1, TxTypes DEF TxOk
    <3>3. Len(tx'.queue) \in Nat
      BY <3>2 DEF QueueType
    <3> DEFINE l == Len(Length)
    <3>4. l \in Nat /\ Sdus = 1 .. l /\ submitted' \in 0 .. l
      BY <3>1, LengthIs
    <3>5. s >= 1
      BY <2>1, <2>2
    <3>6. s + Len(tx'.queue) <= submitted'
      BY <2>3, <3>1, Zenon
    <3> HIDE DEF l
    <3> QED BY <3>3, <3>4, <3>5, <3>6
  <2>5. s \notin { k \in Sdus : k <= Len(sent) }
    BY <2>1, <2>2
  <2>6. { k \in Sdus : k <= Len(sent') } = { k \in Sdus : k <= Len(sent) } \cup {s}
    BY <2>1, <2>2, <2>3, <2>4, LengthIs
  <2>7. B!Start(s)
    BY <1>2, <2>4, <2>5, <2>6 DEF B!Start
  <2>8. B!Next
    BY <2>4, <2>7, Zenon DEF B!Next
  <2> QED BY <2>8, Zenon DEF BearerStep
<1>7. BearerStep
  BY <1>2, <1>3, <1>6, Stutters
<1> QED BY <1>5, <1>7 DEF Kept

\* Receiving data keeps the invariant, and delivers as the bearer does.
LEMMA DataKept ==
  ASSUME IInv, DeliverData
  PROVE  Kept
<1>1. PICK a, n, h, high : Facts(a, n, h, high)
  BY FactsHold
<1>2. PICK pdu \in BagToSet(data) :
         /\ TimelyData(pdu) /\ data' = data (-) SetToBag({pdu}) /\ HandleDataPdu(pdu)
         /\ UNCHANGED <<start, submitted, tx, reports, lost, sent, confirmed, discards,
                        alarms, forgot>>
  BY DEF DeliverData
<1> DEFINE begun == Begun(tx, Sizes)
<1>3. /\ start \in Sn /\ sent \in Seq(Sdus) /\ submitted \in 0 .. Len(Length)
      /\ Len(sent) + Len(tx.queue) <= submitted /\ TxOk(tx, a, Sizes)
      /\ a \in Nat /\ n \in Nat /\ a <= n /\ Cardinality(Settled) = n
      /\ RxOk(rx, n, h, high, Sizes, begun) /\ received = Deliveries(rx.window, n)
      /\ PduOk(pdu, Sizes, begun)
  BY <1>1, <1>2 DEF Facts, TxInv
<1>4. tx.sus # None => n < Len(sent)
  BY <1>1 DEF Facts
<1>5. SizesOk(Sizes, begun) /\ Len(Sizes) = Len(sent) /\ Len(sent) \in Nat
  BY <1>3, BegunOk, SizesAre
<1>6. /\ pdu.k + Window > n /\ Len(Sizes) <= n + Window /\ Len(Sizes) <= Len(Length)
      /\ Length \in Seq(Nat)
  <2>1. pdu.k + Window > n
    BY <1>2, <1>3 DEF TimelyData
  <2>2. Len(Sizes) <= a + Window
    BY <1>3 DEF TxOk
  <2>3. tx.queue \in QueueType
    BY <1>3, TxTypes DEF TxOk
  <2>4. Len(tx.queue) \in Nat
    BY <2>3 DEF QueueType
  <2>5. Len(sent) <= Len(Length)
    BY <1>3, <1>5, <2>4, LengthIs
  <2> QED BY <1>3, <1>5, <2>1, <2>2, <2>5, LengthIs, ModIs
<1> HIDE DEF begun
<1>7. DeliveredOk(pdu, n, begun)
  BY <1>2, <1>3, <1>5, <1>6, DataPduHandled
<1>8. PICK n2 \in n .. Len(Sizes), h2 \in Nat, high2 \in Nat :
         /\ RxOk(rx', n2, h2, high2, Sizes, begun)
         /\ received' = Deliveries(rx'.window, n2)
         /\ \A j \in n .. n2 - 1 : begun[j + 1] = Sizes[j + 1]
  BY <1>7, Zenon DEF DeliveredOk
<1>9. n2 \in Nat /\ n <= n2 /\ n2 <= Len(sent)
  BY <1>3, <1>5
<1>10. ASSUME tx.sus # None
       PROVE  n2 < Len(sent)
  <2> DEFINE s == Len(sent)
  <2>1. SUFFICES ASSUME n2 = s PROVE FALSE
    BY <1>5, <1>9
  <2>2. n < s
    BY <1>4, <1>10
  <2>3. s - 1 \in n .. n2 - 1 /\ (s - 1) + 1 = s /\ s \in 1 .. Len(Sizes)
    BY <1>3, <1>5, <2>1, <2>2
  <2>4. begun[s] = Sizes[s]
    BY <1>8, <2>3
  <2>5. begun[s] = tx.window[tx.sus].nextSo
    BY <1>5, <1>10, <2>3 DEF begun, Begun
  <2>6. Sizes[s] \in Nat
    BY <1>5, <2>3, SizesAt
  <2>7. tx.window[tx.sus].nextSo \in 1 .. Sizes[s] - 1
    BY <1>3, <1>5, <1>10 DEF TxOk
  <2> QED BY <2>4, <2>5, <2>6, <2>7
<1>11. \A p \in BagToSet(data') : p \in BagToSet(data)
  BY <1>2, TakenFromBag
<1>12. IInv'
  BY <1>1, <1>2, <1>8, <1>9, <1>10, <1>11, RxKept DEF begun
<1>13. BearerStep
  <2>1. \/ received' = received
        \/ pdu.k \in Sdus /\ received[pdu.k] = 0 /\ received' = [received EXCEPT ![pdu.k] = 1]
    BY <1>7, Zenon DEF DeliveredOk
  <2>2. CASE received' = received
    BY <1>2, <2>2, Stutters
  <2>3. CASE pdu.k \in Sdus /\ received[pdu.k] = 0 /\ received' = [received EXCEPT ![pdu.k] = 1]
    <3>1. pdu.k \in { k \in Sdus : k <= Len(sent) }
      BY <1>3, <1>5, <2>3 DEF PduOk
    <3>2. B!Deliver(pdu.k)
      BY <1>2, <2>3, <3>1 DEF B!Deliver
    <3> QED BY <2>3, <3>2 DEF BearerStep, B!Next
  <2> QED BY <2>1, <2>2, <2>3
<1> QED BY <1>12, <1>13 DEF Kept

\* The SDUs that leave the window when it moves on from a to f.
Dropped(t, a, f) == { t.window[sn].k : sn \in { SnOf(i) : i \in a .. f - 1 } }

\* The SDUs whose numbers are acknowledged are the first of the window.
LEMMA DroppedIs ==
  ASSUME start \in Sn, NEW t, NEW a, NEW size, TxOk(t, a, size), Len(size) \in Nat,
         NEW f \in Nat, a <= f, f <= Len(size)
  PROVE  Dropped(t, a, f) = a + 1 .. f
<1>1. a \in Nat /\ \A i \in a .. Len(size) - 1 : t.window[SnOf(i)].k = i + 1
  BY DEF TxOk
<1>2. \A i \in a .. f - 1 : t.window[SnOf(i)].k = i + 1
  BY <1>1
<1>3. ASSUME NEW k \in a + 1 .. f
      PROVE  k \in Dropped(t, a, f)
  <2>1. k - 1 \in a .. f - 1 /\ (k - 1) + 1 = k
    BY <1>1
  <2>2. t.window[SnOf(k - 1)].k = k
    BY <1>2, <2>1
  <2> QED BY <2>1, <2>2 DEF Dropped
<1>4. \A i \in a .. f - 1 : t.window[SnOf(i)].k \in a + 1 .. f
  BY <1>1, <1>2
<1> QED BY <1>3, <1>4 DEF Dropped

\* What a report leaves of the transmitting entity.
AnsweredOk(a, a2, n) ==
    /\ a <= a2 /\ a2 <= n
    /\ TxOk(tx', a2, Sizes) /\ Begun(tx', Sizes) = Begun(tx, Sizes)
    /\ Len(tx'.queue) \in Nat /\ Len(tx'.queue) <= Len(tx.queue) /\ tx'.sus = tx.sus
    /\ confirmed' = 1 .. a2
    /\ CountedOnce(tx'.window, tx.window)
    /\ "protocol_failure" \notin alarms'

\* A report answered moves the window's edge no further than the receiver's.
LEMMA ReportAnswered ==
  ASSUME NEW a, NEW n, NEW h, NEW high, Facts(a, n, h, high),
         NEW r \in BagToSet(reports), TimelyReport(r), HandleStatusPdu(r.report)
  PROVE  \E a2 \in Nat : AnsweredOk(a, a2, n)
<1> DEFINE begun == Begun(tx, Sizes)
<1>1. /\ start \in Sn /\ sent \in Seq(Sdus) /\ TxOk(tx, a, Sizes)
      /\ a \in Nat /\ n \in Nat /\ a <= n /\ confirmed = 1 .. a
      /\ tx.sus # None => n < Len(sent)
      /\ "protocol_failure" \notin alarms
  BY DEF Facts, TxInv
<1>2. SizesOk(Sizes, begun) /\ Len(Sizes) = Len(sent) /\ Len(sent) \in Nat
  BY <1>1, BegunOk, SizesAre
<1>3. PICK f \in 0 .. n : ReportOk(r.report, f, r.upto, Sizes, begun)
  BY DEF Facts
<1>4. r.upto + Window > a
  BY DEF TimelyReport, Facts
<1>5. f \in Nat /\ f <= n /\ (tx.sus # None => f < Len(Sizes))
  BY <1>1, <1>2
<1>6. ValidAck(tx, r.report.ack) => NotBeyond(tx, r.report.ack)
  <2>1. /\ ValidAck(tx, r.report.ack) => NotBeyond(tx, r.report.ack)
        /\ Accepted(tx, r.report) => AcceptedOk(r.report, a, f, r.upto, Sizes, begun)
    BY <1>1, <1>2, <1>3, <1>4, <1>5, AcceptedIs
  <2> QED BY <2>1
<1>7. CASE ~Accepted(tx, r.report)
  <2>1. tx' = tx /\ confirmed' = confirmed
    BY <1>7 DEF HandleStatusPdu
  <2>2. "protocol_failure" \notin alarms'
    BY <1>1, <1>6, <1>7 DEF HandleStatusPdu
  <2>3. TxTyped(tx) /\ tx.queue \in QueueType
    BY <1>1, TxTypes DEF TxOk
  <2>4. Len(tx.queue) \in Nat
    BY <2>3 DEF QueueType
  <2>5. CountedOnce(tx.window, tx.window)
    BY <2>3, CountsTyped
  <2>6. AnsweredOk(a, a, n)
    BY <1>1, <2>1, <2>2, <2>4, <2>5 DEF AnsweredOk
  <2> QED BY <1>1, <2>6
<1>8. CASE Accepted(tx, r.report)
  <2> DEFINE acked == { SnOf(i) : i \in a .. f - 1 }
  <2>1. HandledOk(Handled(tx, r.report), tx, r.report, a, f)
    BY <1>1, <1>3, <1>4, <1>5, <1>8, HandledIs
  <2>2. tx' = Handled(tx, r.report)
    BY <1>8 DEF HandleStatusPdu
  <2>3. /\ a <= f /\ f <= Len(Sizes)
        /\ TxOk(tx', f, Sizes) /\ Begun(tx', Sizes) = begun
        /\ CountedOnce(tx'.window, tx.window) /\ tx'.sus = tx.sus
        /\ Len(tx'.queue) \in Nat /\ Len(tx'.queue) <= Len(tx.queue)
        /\ Acked(tx, r.report) = acked
        /\ NackedOk(WithAcked(tx, Acked(tx, r.report)), r.report)
    BY <2>1, <2>2 DEF HandledOk
  <2>4. confirmed' = 1 .. f
    <3>1. confirmed' = confirmed \cup Dropped(tx, a, f)
      BY <1>8, <2>3 DEF HandleStatusPdu, Dropped
    <3>2. Dropped(tx, a, f) = a + 1 .. f
      <4>1. Len(Sizes) \in Nat /\ a <= f /\ f <= Len(Sizes) /\ f \in Nat
        BY <1>2, <1>5, <2>3
      <4> QED BY <1>1, <4>1, DroppedIs, Zenon
    <3>3. 1 .. a \cup a + 1 .. f = 1 .. f
      BY <1>1, <1>5, <2>3
    <3> QED BY <1>1, <3>1, <3>2, <3>3
  <2>5. "protocol_failure" \notin alarms'
    <3> DEFINE t == WithAcked(tx, Acked(tx, r.report))
               q == Items(r.report)
    <3>1. ~ \E i \in DOMAIN q : InWindow(t, q[i].sn) /\ ~Unsent(t, q[i]) /\ Malformed(t, q[i])
      BY <2>3 DEF NackedOk
    <3>2. \/ alarms' = (alarms \cup {}) \cup {}
          \/ alarms' = (alarms \cup {}) \cup {"max_retx"}
      BY <1>6, <3>1 DEF HandleStatusPdu
    <3> QED BY <1>1, <3>2
  <2>6. AnsweredOk(a, f, n)
    BY <1>5, <2>3, <2>4, <2>5, Zenon DEF AnsweredOk
  <2> QED BY <1>5, <2>6
<1> QED BY <1>7, <1>8

\* Receiving a report keeps the invariant, and confirms as the bearer does.
LEMMA ReportKept ==
  ASSUME IInv, DeliverReport
  PROVE  Kept
<1>1. PICK a, n, h, high : Facts(a, n, h, high)
  BY FactsHold
<1>2. PICK r \in BagToSet(reports) :
         /\ TimelyReport(r) /\ reports' = reports (-) SetToBag({r})
         /\ HandleStatusPdu(r.report)
  BY DEF DeliverReport
<1>3. UNCHANGED <<start, submitted, rx, data, sent, received>>
  BY DEF DeliverReport
<1>4. PICK a2 \in Nat : AnsweredOk(a, a2, n)
  BY <1>1, <1>2, ReportAnswered
<1>5. /\ a <= a2 /\ a2 <= n
      /\ TxOk(tx', a2, Sizes) /\ Begun(tx', Sizes) = Begun(tx, Sizes)
      /\ Len(tx'.queue) \in Nat /\ Len(tx'.queue) <= Len(tx.queue) /\ tx'.sus = tx.sus
      /\ confirmed' = 1 .. a2
      /\ "protocol_failure" \notin alarms'
  BY <1>4, Zenon DEF AnsweredOk
<1>6. /\ start \in Sn /\ sent \in Seq(Sdus) /\ submitted \in 0 .. Len(Length)
      /\ Len(sent) + Len(tx.queue) <= submitted /\ TxOk(tx, a, Sizes)
      /\ a \in Nat /\ n \in Nat /\ confirmed = 1 .. a /\ h \in Nat /\ high \in Nat
      /\ RxOk(rx, n, h, high, Sizes, Begun(tx, Sizes))
      /\ received = Deliveries(rx.window, n)
      /\ tx.sus # None => n < Len(sent)
      /\ \A pdu \in BagToSet(data) : PduOk(pdu, Sizes, Begun(tx, Sizes))
      /\ \A x \in BagToSet(reports) :
            \E f \in 0 .. n : ReportOk(x.report, f, x.upto, Sizes, Begun(tx, Sizes))
  BY <1>1, Zenon DEF Facts, TxInv
<1>7. Sizes' = Sizes
  BY <1>3 DEF Sizes
<1>8. \A x \in BagToSet(reports') : x \in BagToSet(reports)
  BY <1>2, TakenFromBag
<1>9. Len(tx.queue) \in Nat /\ Len(sent) \in Nat
  <2>1. tx.queue \in QueueType
    BY <1>6, TxTypes DEF TxOk
  <2> QED BY <1>6, <2>1 DEF QueueType
<1>10. Len(sent') + Len(tx'.queue) <= submitted'
  BY <1>3, <1>5, <1>6, <1>9
<1>11. RxOk(rx', n, h, high, Sizes', Begun(tx', Sizes'))
  BY <1>3, <1>5, <1>6, <1>7
<1>12. /\ \A pdu \in BagToSet(data') : PduOk(pdu, Sizes', Begun(tx', Sizes'))
       /\ \A x \in BagToSet(reports') :
             \E f \in 0 .. n : ReportOk(x.report, f, x.upto, Sizes', Begun(tx', Sizes'))
  BY <1>3, <1>5, <1>6, <1>7, <1>8
<1>13. IInv'
  <2>1. TxOk(tx', a2, Sizes')
    BY <1>5, <1>7
  <2>2. /\ start' = start /\ sent' \in Seq(Sdus) /\ submitted' \in 0 .. Len(Length)
        /\ received' = Deliveries(rx'.window, n)
        /\ tx'.sus # None => n < Len(sent')
    BY <1>3, <1>5, <1>6
  <2> QED BY <1>5, <1>6, <1>10, <1>11, <1>12, <2>1, <2>2, InvAfter
<1>14. BearerStep
  <2>1. CASE a2 = a
    BY <1>3, <1>5, <1>6, <2>1, Stutters
  <2>2. CASE a2 # a
    <3> DEFINE S == a + 1 .. a2
    <3>1. S # {} /\ confirmed' = confirmed \cup S /\ S \cap confirmed = {}
      <4>1. a \in Nat /\ a2 \in Nat /\ a < a2
        BY <1>5, <1>6, <2>2
      <4>2. a + 1 \in S /\ 1 .. a2 = 1 .. a \cup S /\ S \cap 1 .. a = {}
        BY <4>1
      <4> QED BY <1>5, <1>6, <4>2
    <3>2. n <= Len(sent) /\ Len(sent) <= Len(Length)
      <4>1. Len(Sizes) = Len(sent)
        BY <1>6, SizesAre
      <4>2. n <= Len(sent)
        BY <1>6, <1>9, <4>1 DEF RxOk, RxWindow
      <4>3. Len(sent) <= Len(Length)
        BY <1>6, <1>9, LengthIs
      <4> QED BY <4>2, <4>3
    <3>3. ASSUME NEW k \in S
          PROVE  k \in Sdus /\ k <= Len(sent) /\ received[k] = 1
      <4> DEFINE s == Len(sent)
                 l == Len(Length)
      <4>1. /\ s \in Nat /\ l \in Nat /\ Sdus = 1 .. l /\ n <= s /\ s <= l
            /\ a \in Nat /\ n \in Nat /\ a2 <= n
        BY <1>5, <1>6, <1>9, <3>2, LengthIs
      <4>2. k \in Nat /\ 1 <= k /\ k <= a2
        BY <4>1
      <4> HIDE DEF s, l
      <4>3. k \in Sdus /\ k <= n /\ k <= s
        BY <4>1, <4>2
      <4> QED BY <1>6, <4>3 DEF Deliveries, s
    <3>4. S \subseteq { k \in { j \in Sdus : j <= Len(sent) } : received[k] = 1 } \ confirmed
      BY <3>1, <3>3
    <3>5. S \in SUBSET Sdus
      BY <3>3
    <3> HIDE DEF S
    <3>6. B!Confirm(S)
      BY <1>3, <3>1, <3>4 DEF B!Confirm
    <3>7. B!Next
      BY <3>5, <3>6, Zenon DEF B!Next
    <3> QED BY <3>7, Zenon DEF BearerStep
  <2> QED BY <2>1, <2>2
<1> QED BY <1>13, <1>14 DEF Kept

\* The initial states satisfy the invariant, and are those of the bearer.
LEMMA InitKept ==
  ASSUME Init
  PROVE  IInv /\ B!Init
<1>1. /\ start \in Sn /\ start \in Int /\ Mod \in Nat \ {0} /\ None \notin Sn /\ Window \in Nat
  BY RlcAssumption, ModIs DEF Init, Sn
<1>2. /\ tx = TxAt(start) /\ rx = RxAt(start) /\ sent = <<>> /\ submitted = 0
      /\ confirmed = {} /\ received = [k \in Sdus |-> 0]
      /\ data = EmptyBag /\ reports = EmptyBag /\ alarms = {}
  BY DEF Init
<1>3. SnOf(0) = start
  BY <1>1 DEF SnOf, Sn
<1>4. (start - 1) % Mod \in Sn /\ 0 \in Sn
  BY <1>1 DEF Sn
<1>5. Len(Sizes) = 0 /\ Len(sent) = 0 /\ sent \in Seq(Sdus)
  BY <1>2 DEF Sizes
<1>6. EmptyWindow \in [DOMAIN EmptyWindow -> EntryType] /\ DOMAIN EmptyWindow = {}
      /\ EmptyWindow \in [DOMAIN EmptyWindow -> InfoType]
  BY DEF EmptyWindow
<1>7. TxTyped(tx)
  <2> HIDE DEF EmptyWindow
  <2>1. <<>> \in Seq([n : Sdus, discarded : BOOLEAN]) /\ <<>> \in Seq(RetxType)
    OBVIOUS
  <2> QED BY <1>1, <1>2, <1>4, <1>6, <2>1 DEF TxTyped, TxAt
<1>8. TxOk(tx, 0, Sizes)
  <2>1. /\ tx.nextAck = start /\ tx.next = start /\ tx.sus = None /\ DOMAIN tx.window = {}
        /\ tx.retx = <<>> /\ tx.queue = <<>>
    BY <1>2, <1>6 DEF TxAt
  <2> QED BY <1>1, <1>3, <1>5, <1>7, <2>1 DEF TxOk
<1>9. RxTyped(rx)
  <2> HIDE DEF EmptyWindow
  <2> QED BY <1>1, <1>2, <1>4, <1>6 DEF RxTyped, RxAt
<1>10. RxOk(rx, 0, 0, 0, Sizes, Begun(tx, Sizes))
  <2>1. /\ rx.next = start /\ rx.nextHighest = start /\ rx.highestStatus = start
        /\ DOMAIN rx.window = {} /\ ~rx.reassembly
    BY <1>2, <1>6 DEF RxAt
  <2> QED BY <1>1, <1>3, <1>5, <1>9, <2>1
          DEF RxOk, RxWindow, StatusEdge, Triggered, Complete, HasSn
<1>11. received = Deliveries(rx.window, 0)
  <2>1. DOMAIN rx.window = {}
    BY <1>2, <1>6 DEF RxAt
  <2>2. \A k \in Sdus : ~(k <= 0)
    BY LengthIs
  <2> QED BY <1>2, <2>1, <2>2 DEF Deliveries, Complete, HasSn
<1>12. Settled = {}
  <2>1. \A k \in Sdus : k \in 1 .. k
    BY LengthIs
  <2> QED BY <1>2, <2>1 DEF Settled
<1>13. BagToSet(data) = {} /\ BagToSet(reports) = {}
  BY <1>2 DEF EmptyBag, SetToBag, BagToSet
<1>14. InvAt(0, 0)
  <2>1. 0 \in Small /\ 0 \in 0 .. Len(Length)
    BY <1>1, LengthIs DEF Small
  <2>2. confirmed = 1 .. 0 /\ Settled = 1 .. 0 /\ 0 <= 0
    BY <1>2, <1>12
  <2>3. Len(tx.queue) = 0 /\ tx.sus = None
    BY <1>2 DEF TxAt
  <2> QED BY <1>1, <1>2, <1>5, <1>8, <1>10, <1>11, <1>13, <2>1, <2>2, <2>3 DEF InvAt
<1>15. Cardinality(confirmed) = 0 /\ Cardinality(Settled) = 0
  BY <1>2, <1>12, FS_EmptySet
<1>16. B!Init
  <2>1. { k \in Sdus : k <= Len(sent) } = {}
    BY <1>5, LengthIs
  <2> QED BY <1>2, <2>1 DEF B!Init
<1> QED BY <1>14, <1>15, <1>16 DEF IInv

\* Every step keeps the invariant and is one of the bearer or a stutter.
LEMMA StepKept ==
  ASSUME IInv, [Next]_vars
  PROVE  Kept
<1>1. CASE HandleSdu \/ DiscardSdu \/ ExpirePoll
  BY <1>1, SduKept
<1>2. CASE \E grant \in 1 .. MaxGrant : Pull(grant)
  BY <1>2, PullKept
<1>3. CASE \E k \in 0 .. Window : PullStatus(k)
  <2>1. 0 .. Window \subseteq Nat
    OBVIOUS
  <2> QED BY <1>3, <2>1, StatusPullKept
<1>4. CASE DeliverData
  BY <1>4, DataKept
<1>5. CASE DeliverReport
  BY <1>5, ReportKept
<1>6. CASE LoseData \/ LoseReport \/ DropLate
  BY <1>6, LowerLayerKept
<1>7. CASE ExpireReassembly \/ ExpireProhibit
  BY <1>7, TimersKept
<1>8. CASE UNCHANGED vars
  <2>1. PICK a, n, h, high : Facts(a, n, h, high)
    BY FactsHold
  <2>2. UNCHANGED <<start, submitted, tx, rx, data, reports, sent, received, confirmed, alarms>>
    BY <1>8 DEF vars, env
  <2>3. /\ n \in Nat /\ h \in Nat /\ high \in Nat /\ n <= n
        /\ RxOk(rx', n, h, high, Sizes, Begun(tx, Sizes))
        /\ received' = Deliveries(rx'.window, n)
        /\ tx.sus # None => n < Len(sent)
    BY <2>1, <2>2 DEF Facts
  <2>4. IInv'
    BY <2>1, <2>2, <2>3, RxKept
  <2> QED BY <2>2, <2>4, Stutters DEF Kept
<1> QED BY <1>1, <1>2, <1>3, <1>4, <1>5, <1>6, <1>7, <1>8 DEF Next

\* Retransmissions are of bytes that were sent.
LEMMA RetxInside ==
  ASSUME NEW a, NEW n, NEW h, NEW high, Facts(a, n, h, high)
  PROVE  RetxOfSentBytes
<1> DEFINE begun == Begun(tx, Sizes)
           s == Len(Sizes)
<1>1. start \in Sn /\ sent \in Seq(Sdus) /\ TxOk(tx, a, Sizes)
  BY DEF Facts, TxInv
<1>2. /\ a \in Nat /\ s \in Nat /\ s <= a + Window /\ TxTyped(tx)
      /\ DOMAIN tx.window = { SnOf(i) : i \in a .. s - 1 }
      /\ \A i \in a .. s - 1 : tx.window[SnOf(i)].k = i + 1
      /\ RetxOk(tx.retx, a, Sizes, begun)
      /\ tx.sus # None => tx.sus = SnOf(s - 1)
  BY <1>1, SizesAre DEF TxOk, RetxOk
<1>3. SizesOk(Sizes, begun)
  BY <1>1, BegunOk
<1>4. ASSUME NEW j \in DOMAIN tx.retx
      PROVE  /\ HasSn(tx.window, tx.retx[j].sn)
             /\ tx.retx[j].so + tx.retx[j].len
                   <= IF tx.retx[j].sn = tx.sus THEN tx.window[tx.retx[j].sn].nextSo
                      ELSE LengthOf(tx, tx.retx[j].sn)
  <2> DEFINE r == tx.retx[j]
  <2>1. PICK i \in a .. s - 1 : r.sn = SnOf(i) /\ r.so + r.len <= begun[i + 1]
    BY <1>2 DEF RetxOk
  <2>2. i \in Nat /\ i + 1 \in 1 .. s /\ HasSn(tx.window, r.sn)
    BY <1>2, <2>1 DEF HasSn
  <2>3. r \in RetxType
    BY <1>2 DEF TxTyped
  <2>4. r.so + r.len \in Nat
    BY <2>3 DEF RetxType
  <2>5. CASE r.sn = tx.sus
    <3>1. SnOf(i) \in Sn
      BY <1>1, <2>2, SnOfType
    <3>2. tx.sus # None
      BY <2>1, <2>5, <3>1, RlcAssumption DEF Sn
    <3>3. i = s - 1
      <4>1. SnOf(i) = SnOf(s - 1)
        BY <1>2, <2>1, <2>5, <3>2
      <4>2. i \in Int /\ s - 1 \in Int /\ i < (s - 1) + Mod /\ s - 1 < i + Mod
        <5> HIDE DEF s
        <5> QED BY <1>2, <2>1, ModIs
      <4> QED BY <1>1, <4>1, <4>2, SnOfInjective
    <3>4. begun[i + 1] = tx.window[tx.sus].nextSo
      BY <1>2, <2>2, <3>2, <3>3 DEF Begun
    <3> QED BY <2>1, <2>2, <2>5, <3>4
  <2>6. CASE r.sn # tx.sus
    <3>1. LengthOf(tx, r.sn) = Sizes[i + 1]
      <4>1. tx.window[r.sn].k = i + 1
        BY <1>2, <2>1
      <4>2. Sizes[i + 1] = Length[sent[i + 1]]
        BY <1>1, <2>2, SizesAre
      <4> QED BY <4>1, <4>2 DEF LengthOf
    <3>2. begun[i + 1] <= Sizes[i + 1] /\ begun[i + 1] \in Nat /\ Sizes[i + 1] \in Nat
      BY <1>3, <2>2, SizesAt
    <3>3. r.so + r.len <= LengthOf(tx, r.sn)
      BY <2>1, <2>4, <3>1, <3>2
    <3> QED BY <2>2, <2>6, <3>3
  <2> QED BY <2>5, <2>6
<1> QED BY <1>4, Zenon DEF RetxOfSentBytes

\* The receiver's edges are in its window.
LEMMA EdgesInside ==
  ASSUME NEW a, NEW n, NEW h, NEW high, Facts(a, n, h, high)
  PROVE  EdgesInWindow
<1>1. /\ start \in Sn /\ n \in Nat /\ h \in Nat /\ high \in Nat
      /\ RxOk(rx, n, h, high, Sizes, Begun(tx, Sizes))
  BY DEF Facts
<1>2. /\ n <= h /\ h <= high /\ high <= n + Window
      /\ rx.next = SnOf(n) /\ rx.nextHighest = SnOf(high) /\ rx.highestStatus = SnOf(h)
      /\ Triggered(rx, n, high)
  BY <1>1 DEF RxOk, RxWindow, StatusEdge
<1>3. ASSUME NEW i \in n .. high
      PROVE  Above(rx.next, SnOf(i)) = i - n
  <2>1. i \in Int /\ n \in Int /\ n <= i /\ i < n + Mod
    BY <1>1, <1>2, ModIs
  <2> QED BY <1>1, <1>2, <2>1, AboveUp
<1>4. Above(rx.next, rx.highestStatus) = h - n /\ Above(rx.next, rx.nextHighest) = high - n
  <2>1. h \in n .. high /\ high \in n .. high
    BY <1>1, <1>2
  <2> QED BY <1>2, <1>3, <2>1
<1>5. ASSUME rx.reassembly, Above(rx.next, rx.trigger) = 1
      PROVE  HasSn(rx.window, rx.next)
  <2>1. PICK i \in n + 1 .. high : rx.trigger = SnOf(i) /\ HasSn(rx.window, SnOf(i - 1))
    BY <1>2, <1>5 DEF Triggered
  <2>2. i \in n .. high
    BY <1>1
  <2>3. i - 1 = n
    BY <1>1, <1>3, <1>5, <2>1, <2>2
  <2> QED BY <1>2, <2>1, <2>3
<1>6. h - n <= high - n /\ high - n <= Window
  BY <1>1, <1>2, ModIs
<1> QED BY <1>4, <1>5, <1>6 DEF EdgesInWindow

\* A nack finds its SDU in the transmitter's window.
LEMMA NacksInside ==
  ASSUME NEW a, NEW n, NEW h, NEW high, Facts(a, n, h, high)
  PROVE  NacksFindTheirSdu
<1>1. /\ start \in Sn /\ sent \in Seq(Sdus) /\ TxOk(tx, a, Sizes)
      /\ a \in Nat /\ n \in Nat
      /\ tx.sus # None => n < Len(sent)
  BY DEF Facts, TxInv
<1>2. Len(Sizes) = Len(sent) /\ Len(sent) \in Nat
  BY <1>1, SizesAre
<1>3. ASSUME NEW r \in BagToSet(reports), TimelyReport(r), Accepted(tx, r.report)
      PROVE  NackedOk(WithAcked(tx, Acked(tx, r.report)), r.report)
  <2>1. PICK f \in 0 .. n : ReportOk(r.report, f, r.upto, Sizes, Begun(tx, Sizes))
    BY DEF Facts
  <2>2. r.upto + Window > a
    BY <1>3 DEF TimelyReport, Facts
  <2>3. f \in Nat /\ (tx.sus # None => f < Len(Sizes))
    BY <1>1, <1>2
  <2>4. HandledOk(Handled(tx, r.report), tx, r.report, a, f)
    BY <1>1, <1>3, <2>1, <2>2, <2>3, HandledIs
  <2> QED BY <2>4 DEF HandledOk
<1> QED BY <1>3, Zenon DEF NacksFindTheirSdu, NackedOk

\* The invariant implies WindowsAgree.
LEMMA InvGives ==
  ASSUME IInv
  PROVE  WindowsAgree
<1>1. PICK a, n, h, high : Facts(a, n, h, high)
  BY FactsHold
<1>2. NoProtocolFailure
  BY <1>1 DEF Facts, NoProtocolFailure
<1> QED BY <1>1, <1>2, RetxInside, EdgesInside, NacksInside DEF WindowsAgree

\* The inductive invariant: the windows, what is in flight and what was delivered
\* fit together in every state, whatever is lost, late or out of order: IInv.
THEOREM InvHolds == Spec => []IInv
<1>1. Init => IInv
  BY InitKept
<1>2. IInv /\ [Next]_vars => IInv'
  BY StepKept DEF Kept
<1> QED BY <1>1, <1>2, PTL DEF Spec

\* The two entities agree about their windows: WindowsAgree.
THEOREM EntitiesAgree == Spec => []WindowsAgree
<1>1. IInv => WindowsAgree
  BY InvGives
<1> QED BY <1>1, InvHolds, PTL

\* The two entities and the lower layer implement the bearer: ImplementsBearer.
THEOREM BearerIsKept == Spec => ImplementsBearer
<1>1. Init => B!Init
  BY InitKept
<1>2. IInv /\ [Next]_vars => [B!Next]_(B!bvars)
  BY StepKept DEF Kept, BearerStep
<1> QED BY <1>1, <1>2, InvHolds, PTL DEF Spec, ImplementsBearer, B!Spec

--------------------------------------------------------------------------------
(* The counts of retransmissions.                                             *)

\* New and discarded SDUs count nothing.
LEMMA SduCounts ==
  ASSUME TxTyped(tx), HandleSdu \/ DiscardSdu
  PROVE  NewCounts(tx'.window, tx.window)
<1>1. tx'.window = tx.window
  <2>1. CASE HandleSdu
    BY <2>1 DEF HandleSdu, BufferStateRead, TxTyped
  <2>2. CASE DiscardSdu
    BY <2>2 DEF DiscardSdu, BufferStateRead, TxTyped
  <2> QED BY <2>1, <2>2
<1> QED BY <1>1 DEF NewCounts

\* A step that counts nothing keeps MaxRetxTold.
LEMMA NotCounted ==
  ASSUME MaxRetxTold, NewCounts(tx'.window, tx.window), alarms \subseteq alarms'
  PROVE  MaxRetxTold'
<1>1. SUFFICES ASSUME NEW sn \in DOMAIN tx'.window, tx'.window[sn].retx >= MaxRetx
               PROVE  "max_retx" \in alarms'
  BY DEF MaxRetxTold
<1>2. MaxRetx \in Nat /\ ~(NotStarted >= MaxRetx)
  BY RlcAssumption DEF NotStarted
<1>3. sn \in DOMAIN tx.window /\ tx.window[sn].retx >= MaxRetx
  BY <1>1, <1>2 DEF NewCounts
<1> QED BY <1>3 DEF MaxRetxTold

\* So does one that counts each SDU once and tells of the threshold it reaches.
LEMMA Counted ==
  ASSUME MaxRetxTold, TxTyped(tx), TxTyped(tx'), CountedOnce(tx'.window, tx.window),
         alarms \subseteq alarms', ReachedMax(tx, tx') => "max_retx" \in alarms'
  PROVE  MaxRetxTold'
<1>1. SUFFICES ASSUME NEW sn \in DOMAIN tx'.window, tx'.window[sn].retx >= MaxRetx
               PROVE  "max_retx" \in alarms'
  BY DEF MaxRetxTold
<1>2. /\ sn \in DOMAIN tx.window /\ tx'.window[sn].retx <= tx.window[sn].retx + 1
      /\ MaxRetx \in Int
  BY RlcAssumption DEF CountedOnce
<1>3. tx'.window[sn].retx \in Int /\ tx.window[sn].retx \in Int
  BY <1>1, <1>2, CountsTyped
<1>4. CASE tx.window[sn].retx >= MaxRetx
  BY <1>2, <1>4 DEF MaxRetxTold
<1>5. CASE tx.window[sn].retx < MaxRetx
  <2>1. tx'.window[sn].retx = MaxRetx
    BY <1>1, <1>2, <1>3, <1>5
  <2> QED BY <1>1, <1>5, <2>1 DEF ReachedMax
<1> QED BY <1>2, <1>3, <1>4, <1>5

\* Every step keeps MaxRetxTold.
LEMMA ToldStep ==
  ASSUME IInv, MaxRetxTold, [Next]_vars
  PROVE  MaxRetxTold'
<1>1. PICK a, n, h, high : Facts(a, n, h, high)
  BY FactsHold
<1>2. TxInv(a) /\ TxTyped(tx)
  BY <1>1 DEF Facts, TxInv, TxOk
<1>3. CASE HandleSdu \/ DiscardSdu
  <2>1. alarms' = alarms
    BY <1>3 DEF HandleSdu, DiscardSdu
  <2> QED BY <1>2, <1>3, <2>1, SduCounts, NotCounted
<1>4. CASE \E grant \in 1 .. MaxGrant : Pull(grant)
  <2>1. PICK grant \in 1 .. MaxGrant : Pull(grant)
    BY <1>4
  <2>2. grant \in Nat \ {0}
    BY RlcAssumption
  <2>3. alarms' = alarms
    BY <2>1 DEF Pull, PullNew, PullContinued, PullRetx
  <2>4. NewCounts(tx'.window, tx.window)
    BY <1>2, <2>1, <2>2, NewPulled, SegmentPulled, RetxPulled DEF Pull
  <2> QED BY <2>3, <2>4, NotCounted
<1>5. CASE ExpirePoll
  <2>1. CountedOnce(tx'.window, tx.window) /\ TxTyped(tx')
    BY <1>2, <1>5, PollExpired DEF TxStep, TxOk
  <2>2. alarms \subseteq alarms' /\ (ReachedMax(tx, tx') => "max_retx" \in alarms')
    <3>1. \/ tx' = [tx EXCEPT !.pollTimer = FALSE] /\ alarms' = alarms
          \/ alarms' = alarms \cup (IF ReachedMax(tx, tx') THEN {"max_retx"} ELSE {})
      BY <1>5, Zenon DEF ExpirePoll
    <3>2. CASE tx' = [tx EXCEPT !.pollTimer = FALSE] /\ alarms' = alarms
      <4>1. tx'.window = tx.window
        BY <1>2, <3>2 DEF TxTyped
      <4>2. MaxRetx \in Int /\ \A x \in DOMAIN tx.window : tx.window[x].retx \in Int
        BY <1>2, CountsTyped, RlcAssumption
      <4>3. ~ReachedMax(tx, tx')
        BY <4>1, <4>2 DEF ReachedMax
      <4> QED BY <3>2, <4>3
    <3>3. CASE alarms' = alarms \cup (IF ReachedMax(tx, tx') THEN {"max_retx"} ELSE {})
      BY <3>3
    <3> QED BY <3>1, <3>2, <3>3
  <2> QED BY <1>2, <2>1, <2>2, Counted
<1>6. CASE DeliverReport
  <2>1. PICK r \in BagToSet(reports) : TimelyReport(r) /\ HandleStatusPdu(r.report)
    BY <1>6 DEF DeliverReport
  <2>2. PICK a2 \in Nat : AnsweredOk(a, a2, n)
    BY <1>1, <2>1, ReportAnswered
  <2>3. CountedOnce(tx'.window, tx.window) /\ TxTyped(tx')
    BY <2>2 DEF AnsweredOk, TxOk
  <2>4. alarms \subseteq alarms' /\ (ReachedMax(tx, tx') => "max_retx" \in alarms')
    BY <2>1 DEF HandleStatusPdu
  <2> QED BY <1>2, <2>3, <2>4, Counted
<1>7. CASE tx' = tx /\ alarms' = alarms
  BY <1>7 DEF MaxRetxTold
<1>8. ASSUME \/ \E k \in 0 .. Window : PullStatus(k)
             \/ DeliverData \/ LoseData \/ LoseReport \/ DropLate
             \/ ExpireReassembly \/ ExpireProhibit \/ UNCHANGED vars
      PROVE  tx' = tx /\ alarms' = alarms
  BY <1>8 DEF PullStatus, DeliverData, LoseData, LoseReport, DropLate, ExpireReassembly,
              ExpireProhibit, vars
<1> QED BY <1>3, <1>4, <1>5, <1>6, <1>7, <1>8 DEF Next

\* Whatever counts an SDU up to max_retx_thresh tells the upper layer: MaxRetxTold.
THEOREM ThresholdIsTold == Spec => []MaxRetxTold
<1>1. Init => MaxRetxTold
  BY DEF Init, TxAt, EmptyWindow, MaxRetxTold
<1>2. IInv /\ MaxRetxTold /\ [Next]_vars => MaxRetxTold'
  BY ToldStep
<1> QED BY <1>1, <1>2, InvHolds, PTL DEF Spec
=============================================================================
