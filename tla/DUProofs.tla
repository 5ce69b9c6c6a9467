------------------------------- MODULE DUProofs -------------------------------
(***************************************************************************)
(* Proofs about module DU, and about the two modules that watch it handle  *)
(* its messages, DUCounters and CallFlow, for every number of UEs, cells,  *)
(* links and PRBs, every attach flow and every length of a ladder.         *)
(***************************************************************************)
EXTENDS DUCounters, CallFlow, FiniteSetTheorems, TLAPS

-----------------------------------------------------------------------------
(* Counting PRBs and sessions: what changing one UE's share does. *)

\* The PRBs handed out by an assignment are finitely many.
LEMMA UnitsFinite ==
  ASSUME NEW f
  PROVE  IsFiniteSet(Units(f))
<1>1. IsFiniteSet(1..TotalPrbs) /\ IsFiniteSet(UEs)
  BY FS_Interval, TotalAssumption, UEsAssumption
<1>2. IsFiniteSet(UEs \X (1..TotalPrbs))
  BY <1>1, FS_Product
<1>3. Units(f) \in SUBSET (UEs \X (1..TotalPrbs))
  BY DEF Units
<1>. QED  BY <1>2, <1>3, FS_Subset

\* Giving UE u a share of n changes the count of PRBs by n minus its old share.
LEMMA UnitsUpdate ==
  ASSUME NEW f \in [UEs -> 0..TotalPrbs], NEW u \in UEs, NEW n \in 0..TotalPrbs
  PROVE  /\ Cardinality(Units(f)) \in Nat
         /\ Cardinality(Units([f EXCEPT ![u] = n]))
              = Cardinality(Units(f)) - f[u] + n
<1> DEFINE Row(m) == {u} \X (1..m)
           Rest == {g \in Units(f) : g[1] # u}
           h == [f EXCEPT ![u] = n]
<1>1. \A m \in 0..TotalPrbs : IsFiniteSet(Row(m)) /\ Cardinality(Row(m)) = m
  <2> SUFFICES ASSUME NEW m \in 0..TotalPrbs
               PROVE  IsFiniteSet(Row(m)) /\ Cardinality(Row(m)) = m
    OBVIOUS
  <2>0. m \in Nat
    BY TotalAssumption
  <2>1. IsFiniteSet(1..m) /\ Cardinality(1..m) = m
    <3>1. /\ IsFiniteSet(1..m)
          /\ Cardinality(1..m) = IF 1 > m THEN 0 ELSE m - 1 + 1
      BY <2>0, FS_Interval
    <3>. QED  BY <2>0, <3>1
  <2>2. IsFiniteSet({u}) /\ Cardinality({u}) = 1
    BY FS_Singleton
  <2>3. IsFiniteSet(Row(m)) /\ Cardinality(Row(m)) = Cardinality({u}) * Cardinality(1..m)
    BY <2>1, <2>2, FS_Product
  <2>. QED  BY <2>0, <2>1, <2>2, <2>3
<1>2. IsFiniteSet(Rest) /\ Cardinality(Rest) \in Nat
  <2>1. Rest \in SUBSET Units(f)
    OBVIOUS
  <2>. QED  BY <2>1, UnitsFinite, FS_Subset, FS_CardinalityType
<1>3. \A m \in 0..TotalPrbs : Rest \cap Row(m) = {}
  OBVIOUS
<1>4. \A m \in 0..TotalPrbs : Cardinality(Rest \cup Row(m)) = Cardinality(Rest) + m
  <2> SUFFICES ASSUME NEW m \in 0..TotalPrbs
               PROVE  Cardinality(Rest \cup Row(m)) = Cardinality(Rest) + m
    OBVIOUS
  <2>1. Cardinality(Rest \cup Row(m))
          = Cardinality(Rest) + Cardinality(Row(m)) - Cardinality(Rest \cap Row(m))
    BY <1>1, <1>2, FS_Union
  <2>2. Cardinality(Rest \cap Row(m)) = 0
    BY <1>3, FS_EmptySet
  <2>3. m \in Nat
    BY TotalAssumption
  <2>4. Cardinality(Row(m)) = m
    BY <1>1
  <2> HIDE DEF Row, Rest
  <2>. QED  BY <1>2, <2>1, <2>2, <2>3, <2>4
<1>5. Units(f) = Rest \cup Row(f[u])
  <2>1. f[u] \in 0..TotalPrbs
    OBVIOUS
  <2>. QED  BY <2>1, TotalAssumption DEF Units
<1>6. Units(h) = Rest \cup Row(n)
  BY TotalAssumption DEF Units
<1>7. Cardinality(Units(f)) = Cardinality(Rest) + f[u]
  BY <1>4, <1>5
<1>8. Cardinality(Units(h)) = Cardinality(Rest) + n
  BY <1>4, <1>6
<1>9. f[u] \in Nat /\ n \in Nat
  BY TotalAssumption
<1>. QED  BY <1>2, <1>7, <1>8, <1>9

\* Nobody holding anything is no PRB handed out.
LEMMA UnitsNone == Cardinality(Units([u \in UEs |-> 0])) = 0
<1>1. Units([u \in UEs |-> 0]) = {}
  BY DEF Units
<1>. QED  BY <1>1, FS_EmptySet

-----------------------------------------------------------------------------
(* The shape of a handler's step: one UE's share on every cell is replaced,  *)
(* within the pool, at most one cell keeping it, and used_prbs follows.      *)

ShareStep(u) ==
  \E share \in [Cells -> 0..TotalPrbs] :
    /\ prbs' = [c \in Cells |-> [prbs[c] EXCEPT ![u] = share[c]]]
    /\ used' = [c \in Cells |-> (used[c] - prbs[c][u]) + share[c]]
    /\ \A c \in Cells : used[c] - prbs[c][u] + share[c] <= TotalPrbs
    /\ \A c, d \in Cells : share[c] > 0 /\ share[d] > 0 => c = d

\* The pool part of the inductive invariant.
PoolInv ==
  /\ used \in [Cells -> Nat]
  /\ prbs \in [Cells -> [UEs -> 0..TotalPrbs]]
  /\ PoolExact
  /\ \A c \in Cells : used[c] <= TotalPrbs
  /\ OneCell

\* The pool never owes PRBs: a share is part of what is in use.
LEMMA ShareWithinUsed ==
  ASSUME PoolInv, NEW c \in Cells, NEW u \in UEs
  PROVE  prbs[c][u] \in 0..TotalPrbs /\ prbs[c][u] <= used[c]
<1>1. prbs[c] \in [UEs -> 0..TotalPrbs] /\ 0 \in 0..TotalPrbs
  BY TotalAssumption DEF PoolInv
<1>2. Cardinality(Units([prbs[c] EXCEPT ![u] = 0]))
        = Cardinality(Units(prbs[c])) - prbs[c][u] + 0
  BY <1>1, UnitsUpdate
<1>3. Cardinality(Units([prbs[c] EXCEPT ![u] = 0])) \in Nat
  BY UnitsFinite, FS_CardinalityType
<1>4. used[c] = Cardinality(Units(prbs[c])) /\ used[c] \in Nat
  BY DEF PoolInv, PoolExact, Granted
<1>5. prbs[c][u] \in Nat
  BY <1>1, TotalAssumption
<1>. QED  BY <1>1, <1>2, <1>3, <1>4, <1>5

\* A step of that shape keeps the pool consistent.
LEMMA ShareStepPreserves ==
  ASSUME PoolInv, NEW u \in UEs, ShareStep(u)
  PROVE  PoolInv'
<1>1. PICK share \in [Cells -> 0..TotalPrbs] :
    /\ prbs' = [c \in Cells |-> [prbs[c] EXCEPT ![u] = share[c]]]
    /\ used' = [c \in Cells |-> (used[c] - prbs[c][u]) + share[c]]
    /\ \A c \in Cells : used[c] - prbs[c][u] + share[c] <= TotalPrbs
    /\ \A c, d \in Cells : share[c] > 0 /\ share[d] > 0 => c = d
  BY DEF ShareStep
<1>2. prbs' \in [Cells -> [UEs -> 0..TotalPrbs]]
  BY <1>1 DEF PoolInv
<1>3. \A c \in Cells :
        /\ prbs[c] \in [UEs -> 0..TotalPrbs]
        /\ share[c] \in 0..TotalPrbs
        /\ prbs'[c] = [prbs[c] EXCEPT ![u] = share[c]]
        /\ used'[c] = (used[c] - prbs[c][u]) + share[c]
        /\ used[c] \in Nat
        /\ prbs[c][u] \in Nat
        /\ share[c] \in Nat
  BY <1>1, TotalAssumption DEF PoolInv
<1>4. \A c \in Cells : used'[c] \in Nat /\ used'[c] <= TotalPrbs
  BY <1>1, <1>3, ShareWithinUsed
<1>5. used' \in [Cells -> Nat]
  BY <1>1, <1>4
<1>6. PoolExact'
  <2> SUFFICES ASSUME NEW c \in Cells
               PROVE  used'[c] = Cardinality(Units(prbs'[c]))
    BY DEF PoolExact, Granted, Units
  <2>1. /\ Cardinality(Units(prbs[c])) \in Nat
        /\ Cardinality(Units(prbs'[c])) = Cardinality(Units(prbs[c])) - prbs[c][u] + share[c]
    <3>1. /\ Cardinality(Units(prbs[c])) \in Nat
          /\ Cardinality(Units([prbs[c] EXCEPT ![u] = share[c]]))
               = Cardinality(Units(prbs[c])) - prbs[c][u] + share[c]
      BY <1>3, UnitsUpdate
    <3>2. prbs'[c] = [prbs[c] EXCEPT ![u] = share[c]]
      BY <1>3
    <3>. QED  BY <3>1, <3>2
  <2>2. used[c] = Cardinality(Units(prbs[c]))
    BY DEF PoolInv, PoolExact, Granted
  <2>. QED  BY <1>3, <2>1, <2>2
<1>7. OneCell'
  <2>1. \A w \in UEs, c \in Cells : w # u => prbs'[c][w] = prbs[c][w]
    BY <1>3
  <2>2. \A c \in Cells : prbs'[c][u] = share[c]
    BY <1>3
  <2>. QED  BY <1>1, <2>1, <2>2 DEF PoolInv, OneCell, HasSession
<1>. QED  BY <1>1, <1>2, <1>4, <1>5, <1>6, <1>7 DEF PoolInv

\* _release_ue on any cells replaces the UE's share there by nothing.
LEMMA ReleaseIsShareStep ==
  ASSUME PoolInv, NEW u \in UEs, NEW cs, ReleaseUeOn(u, cs)
  PROVE  ShareStep(u)
<1> DEFINE share == [c \in Cells |-> IF c \in cs THEN 0 ELSE prbs[c][u]]
<1>1. \A c \in Cells :
        /\ prbs[c] \in [UEs -> 0..TotalPrbs]
        /\ prbs[c][u] \in 0..TotalPrbs /\ prbs[c][u] \in Nat
        /\ prbs[c][u] <= used[c]
        /\ used[c] \in Nat /\ used[c] <= TotalPrbs
  BY ShareWithinUsed, TotalAssumption DEF PoolInv
<1>2. share \in [Cells -> 0..TotalPrbs]
  BY <1>1, TotalAssumption
<1>3. prbs' = [c \in Cells |-> [prbs[c] EXCEPT ![u] = share[c]]]
  BY <1>1 DEF ReleaseUeOn
<1>4. used' = [c \in Cells |-> (used[c] - prbs[c][u]) + share[c]]
  BY <1>1 DEF ReleaseUeOn
<1>5. \A c \in Cells : used[c] - prbs[c][u] + share[c] <= TotalPrbs
  BY <1>1, TotalAssumption
<1>6. \A c, d \in Cells : share[c] > 0 /\ share[d] > 0 => c = d
  BY DEF PoolInv, OneCell, HasSession
<1> HIDE DEF share
<1>. QED  BY <1>2, <1>3, <1>4, <1>5, <1>6 DEF ShareStep

\* handle_setup leaves the UE a share of the asked cell or none at all.
LEMMA SetupIsShareStep ==
  ASSUME PoolInv, NEW u \in UEs, NEW c \in Cells,
         NEW need \in Required \cup {NoCoverage}, HandleSetup(u, c, need)
  PROVE  ShareStep(u)
<1> DEFINE grant == IF Admissible(u, c, need) THEN need ELSE 0
           share == [d \in Cells |-> IF d = c THEN grant ELSE 0]
<1>1. \A d \in Cells :
        /\ prbs[d] \in [UEs -> 0..TotalPrbs]
        /\ prbs[d][u] \in 0..TotalPrbs /\ prbs[d][u] \in Nat
        /\ prbs[d][u] <= used[d]
        /\ used[d] \in Nat /\ used[d] <= TotalPrbs
  BY ShareWithinUsed, TotalAssumption DEF PoolInv
<1>2. /\ grant \in Nat
      /\ grant > 0 <=> Admissible(u, c, need)
      /\ used[c] - prbs[c][u] + grant <= TotalPrbs
  <2>1. CASE Admissible(u, c, need)
    <3>0. need \in Required
      BY <2>1 DEF Admissible
    <3>1. need \in Nat /\ need > 0
      BY <3>0, RequiredAssumption
    <3>2. need <= TotalPrbs - used[c] + prbs[c][u]
      BY <2>1 DEF Admissible, FreePrbs
    <3>. QED  BY <1>1, <2>1, <3>1, <3>2, TotalAssumption
  <2>2. CASE ~Admissible(u, c, need)
    BY <1>1, <2>2, TotalAssumption
  <2>. QED  BY <2>1, <2>2
<1>3. grant \in 0..TotalPrbs
  BY <1>1, <1>2, TotalAssumption
<1> HIDE DEF grant
<1>4. share \in [Cells -> 0..TotalPrbs]
  BY <1>3, TotalAssumption
<1>5. prbs' = [d \in Cells |-> [prbs[d] EXCEPT ![u] = share[d]]]
  BY DEF HandleSetup, grant
<1>6. used' = [d \in Cells |-> (used[d] - prbs[d][u]) + share[d]]
  BY DEF HandleSetup, grant
<1>7. \A d \in Cells : used[d] - prbs[d][u] + share[d] <= TotalPrbs
  BY <1>1, <1>2, TotalAssumption
<1>8. \A d, e \in Cells : share[d] > 0 /\ share[e] > 0 => d = e
  OBVIOUS
<1> HIDE DEF share
<1>. QED  BY <1>4, <1>5, <1>6, <1>7, <1>8 DEF ShareStep

\* handle_measurement leaves the UE a share of the cell it reported on.
LEMMA MeasurementIsShareStep ==
  ASSUME PoolInv, NEW u \in UEs, NEW c \in Cells,
         NEW need \in Required \cup {NoCoverage}, HandleMeasurement(u, c, need),
         HasSession(u, c)
  PROVE  ShareStep(u)
<1>1. CASE need = NoCoverage
  <2>1. ReleaseUeOn(u, {c})
    BY <1>1 DEF HandleMeasurement
  <2>. QED  BY <2>1, ReleaseIsShareStep
<1>2. CASE need # NoCoverage
  <2> DEFINE new == Regrant(u, c, need)
             share == [d \in Cells |-> IF d = c THEN new ELSE prbs[d][u]]
  <2>1. \A d \in Cells :
          /\ prbs[d] \in [UEs -> 0..TotalPrbs]
          /\ prbs[d][u] \in 0..TotalPrbs /\ prbs[d][u] \in Nat
          /\ prbs[d][u] <= used[d]
          /\ used[d] \in Nat /\ used[d] <= TotalPrbs
      BY ShareWithinUsed, TotalAssumption DEF PoolInv
  <2>2. need \in Nat /\ need > 0
    BY <1>2, RequiredAssumption
  <2>3. new \in Nat /\ new > 0 /\ used[c] - prbs[c][u] + new <= TotalPrbs
    BY <2>1, <2>2, TotalAssumption DEF Regrant, FreePrbs, HasSession
  <2>4. new \in 0..TotalPrbs
    BY <2>1, <2>3, TotalAssumption
  <2>5. /\ prbs' = [prbs EXCEPT ![c][u] = new]
        /\ used' = [used EXCEPT ![c] = @ + (new - prbs[c][u])]
    BY <1>2 DEF HandleMeasurement
  <2> HIDE DEF new
  <2>6. share \in [Cells -> 0..TotalPrbs]
    BY <2>1, <2>4
  <2>7. prbs' = [d \in Cells |-> [prbs[d] EXCEPT ![u] = share[d]]]
    BY <2>1, <2>5 DEF PoolInv
  <2>8. used' = [d \in Cells |-> (used[d] - prbs[d][u]) + share[d]]
    <3>1. used' = [d \in Cells |-> IF d = c THEN used[d] + (new - prbs[d][u]) ELSE used[d]]
      BY <2>5 DEF PoolInv
    <3>2. \A d \in Cells : (IF d = c THEN used[d] + (new - prbs[d][u]) ELSE used[d])
                             = (used[d] - prbs[d][u]) + share[d]
      BY <2>1, <2>3
    <3>. QED  BY <3>1, <3>2
  <2>9. \A d \in Cells : used[d] - prbs[d][u] + share[d] <= TotalPrbs
    BY <2>1, <2>3, TotalAssumption
  <2>10. \A d, e \in Cells : share[d] > 0 /\ share[e] > 0 => d = e
    BY DEF PoolInv, OneCell, HasSession
  <2> HIDE DEF share
  <2>. QED  BY <2>6, <2>7, <2>8, <2>9, <2>10 DEF ShareStep
<1>. QED  BY <1>1, <1>2

\* The cleanup of a link empties whole cells.
LEMMA ReclaimPreserves ==
  ASSUME PoolInv, NEW cs, ReclaimCells(cs)
  PROVE  PoolInv'
<1>1. \A c \in Cells :
        /\ used[c] = Cardinality(Units(prbs[c])) /\ used[c] \in Nat
        /\ used[c] <= TotalPrbs
        /\ prbs[c] \in [UEs -> 0..TotalPrbs]
  BY DEF PoolInv, PoolExact, Granted
<1>2. \A c \in Cells : used'[c] = IF c \in cs THEN 0 ELSE used[c]
  BY <1>1 DEF ReclaimCells, Granted
<1>3. \A c \in Cells : prbs'[c] = IF c \in cs THEN [u \in UEs |-> 0] ELSE prbs[c]
  BY DEF ReclaimCells
<1>5. used' \in [Cells -> Nat]
  <2>1. used' = [c \in Cells |-> used'[c]]
    BY DEF ReclaimCells
  <2>. QED  BY <1>1, <1>2, <2>1 DEF ReclaimCells
<1>6. prbs' \in [Cells -> [UEs -> 0..TotalPrbs]]
  <2>1. prbs' = [c \in Cells |-> prbs'[c]]
    BY DEF ReclaimCells
  <2>. QED  BY <1>1, <1>3, <2>1, TotalAssumption
<1>7. \A c \in Cells : used'[c] <= TotalPrbs
  BY <1>1, <1>2, TotalAssumption
<1>8. PoolExact'
  <2> SUFFICES ASSUME NEW c \in Cells
               PROVE  used'[c] = Cardinality(Units(prbs'[c]))
    BY DEF PoolExact, Granted, Units
  <2>. QED  BY <1>1, <1>2, <1>3, UnitsNone
<1>10. OneCell'
  BY <1>3 DEF OneCell, HasSession, PoolInv
<1>. QED  BY <1>5, <1>6, <1>7, <1>8, <1>10 DEF PoolInv

-----------------------------------------------------------------------------
(* The invariants of the DU *)

IInv == PoolInv /\ open \subseteq Links /\ connCells \in [Links -> SUBSET Cells]
                /\ SessionsHaveLink

\* Only handle_setup can make a cell hold a session it did not hold.
NewSessionsOnlyOn(c) ==
  \A d \in Cells, u \in UEs : prbs'[d][u] > 0 => prbs[d][u] > 0 \/ d = c

LEMMA InitIInv == Init => IInv
<1> SUFFICES ASSUME Init PROVE IInv
  OBVIOUS
<1>1. \A c \in Cells : used[c] = Cardinality(Granted(c))
  BY UnitsNone DEF Init, Granted
<1>3. \A c \in Cells, u \in UEs : prbs[c][u] = 0
  BY DEF Init
<1>4. OneCell /\ SessionsHaveLink
  BY <1>3 DEF OneCell, SessionsHaveLink, HasSession, Sessions, Holders
<1>. QED
  BY <1>1, <1>4, TotalAssumption
     DEF Init, IInv, PoolInv, PoolExact

\* A handler's step on an open link keeps every invariant: the pool by the
\* shape of the step, the link because it now remembers the cell.
LEMMA HandlerPreserves ==
  ASSUME IInv, NEW k \in Links, NEW c \in Cells, OnLink(k, c),
         PoolInv', NewSessionsOnlyOn(c)
  PROVE  IInv'
<1>1. open' = open /\ k \in open
  BY DEF OnLink
<1>2. connCells' \in [Links -> SUBSET Cells]
  BY DEF OnLink, IInv
<1>3. c \in connCells'[k] /\ \A l \in Links : connCells[l] \subseteq connCells'[l]
  BY DEF OnLink, IInv
<1>4. SessionsHaveLink'
  <2> SUFFICES ASSUME NEW d \in Cells, NEW u \in UEs, prbs'[d][u] > 0
               PROVE  \E l \in open' : d \in connCells'[l]
    BY DEF SessionsHaveLink, Sessions, Holders
  <2>1. CASE d = c
    BY <1>1, <1>3, <2>1
  <2>2. CASE d # c
    <3>1. prbs[d][u] > 0
      BY <2>2 DEF NewSessionsOnlyOn
    <3>2. \E l \in open : d \in connCells[l]
      BY <3>1 DEF IInv, SessionsHaveLink, Sessions, Holders
    <3>. QED  BY <1>1, <1>3, <3>2 DEF IInv
  <2>. QED  BY <2>1, <2>2
<1>. QED  BY <1>1, <1>2, <1>4 DEF IInv

LEMMA NextIInv == IInv /\ [Next]_vars => IInv'
<1> SUFFICES ASSUME IInv, [Next]_vars PROVE IInv'
  OBVIOUS
<1>0. PoolInv
  BY DEF IInv
<1>1. ASSUME NEW k \in Links, Accept(k) PROVE IInv'
  <2>1. UNCHANGED pool
    BY <1>1 DEF Accept
  <2>2. PoolInv'
    BY <1>0, <2>1 DEF pool, PoolInv, PoolExact, OneCell,
                      Granted, Units, Sessions, Holders, HasSession
  <2>3. SessionsHaveLink'
    BY <1>1, <2>1 DEF Accept, pool, IInv, SessionsHaveLink, Sessions, Holders
  <2>. QED  BY <1>1, <2>2, <2>3 DEF Accept, IInv
<1>2. ASSUME NEW k \in Links, LinkEnd(k) PROVE IInv'
  <2>1. PoolInv'
    BY <1>0, <1>2, ReclaimPreserves DEF LinkEnd
  <2>2. open' = open \ {k} /\ connCells' = [connCells EXCEPT ![k] = {}]
    BY <1>2 DEF LinkEnd
  <2>3. SessionsHaveLink'
    <3> SUFFICES ASSUME NEW d \in Cells, NEW u \in UEs, prbs'[d][u] > 0
                 PROVE  \E l \in open' : d \in connCells'[l]
      BY DEF SessionsHaveLink, Sessions, Holders
    <3>1. d \notin connCells[k] /\ prbs[d][u] > 0
      BY <1>2 DEF LinkEnd, ReclaimCells
    <3>2. PICK l \in open : d \in connCells[l]
      BY <3>1 DEF IInv, SessionsHaveLink, Sessions, Holders
    <3>. QED  BY <2>2, <3>1, <3>2 DEF IInv
  <2>. QED  BY <2>1, <2>2, <2>3 DEF IInv
<1>3. ASSUME NEW k \in Links, NEW c \in Cells, Other(k, c) PROVE IInv'
  <2>1. UNCHANGED pool /\ OnLink(k, c)
    BY <1>3 DEF Other, HandleOther
  <2>2. PoolInv'
    BY <1>0, <2>1 DEF pool, PoolInv, PoolExact, OneCell,
                      Granted, Units, Sessions, Holders, HasSession
  <2>3. NewSessionsOnlyOn(c)
    BY <2>1 DEF NewSessionsOnlyOn, pool
  <2>. QED  BY <2>1, <2>2, <2>3, HandlerPreserves
<1>4. ASSUME NEW k \in Links, NEW u \in UEs, NEW c \in Cells, Setup(k, u, c)
      PROVE  IInv'
  <2>1. PICK need \in Required \cup {NoCoverage} : HandleSetup(u, c, need)
    BY <1>4 DEF Setup
  <2>2. PoolInv'
    BY <1>0, <2>1, SetupIsShareStep, ShareStepPreserves
  <2>3. NewSessionsOnlyOn(c)
    BY <1>0, <2>1 DEF HandleSetup, NewSessionsOnlyOn, PoolInv
  <2>. QED  BY <1>4, <2>2, <2>3, HandlerPreserves DEF Setup
<1>5. ASSUME NEW k \in Links, NEW u \in UEs, NEW c \in Cells, Measurement(k, u, c)
      PROVE  IInv'
  <2>1. PICK need \in Required \cup {NoCoverage} : HandleMeasurement(u, c, need)
    BY <1>5 DEF Measurement
  <2>2. PoolInv'
    <3>1. CASE HasSession(u, c)
      BY <1>0, <2>1, <3>1, MeasurementIsShareStep, ShareStepPreserves
    <3>2. CASE ~HasSession(u, c)
      <4>1. UNCHANGED pool
        BY <2>1, <3>2 DEF HandleMeasurement
      <4>. QED
        BY <1>0, <4>1 DEF pool, PoolInv, PoolExact, OneCell,
                          Granted, Units, Sessions, Holders, HasSession
    <3>. QED  BY <3>1, <3>2
  <2>3. NewSessionsOnlyOn(c)
    <3>1. CASE ReleaseUeOn(u, {c})
      BY <1>0, <3>1 DEF ReleaseUeOn, NewSessionsOnlyOn, PoolInv
    <3>2. CASE ~ReleaseUeOn(u, {c})
      <4>1. prbs' = prbs \/ \E n : prbs' = [prbs EXCEPT ![c][u] = n]
        BY <2>1, <3>2 DEF HandleMeasurement, pool
      <4>. QED  BY <1>0, <4>1 DEF NewSessionsOnlyOn, PoolInv
    <3>. QED  BY <3>1, <3>2
  <2>. QED  BY <1>5, <2>2, <2>3, HandlerPreserves DEF Measurement
<1>6. ASSUME NEW k \in Links, NEW u \in UEs, NEW c \in Cells, Release(k, u, c)
      PROVE  IInv'
  <2>1. ReleaseUeOn(u, {c}) /\ OnLink(k, c)
    BY <1>6 DEF Release, HandleRelease
  <2>2. PoolInv'
    BY <1>0, <2>1, ReleaseIsShareStep, ShareStepPreserves
  <2>3. NewSessionsOnlyOn(c)
    BY <1>0, <2>1 DEF ReleaseUeOn, NewSessionsOnlyOn, PoolInv
  <2>. QED  BY <2>1, <2>2, <2>3, HandlerPreserves
<1>7. ASSUME Restart PROVE IInv'
  <2>1. Init'
    BY <1>7 DEF Restart, Init
  <2>. QED  BY <2>1, InitIInv, PTL
<1>8. CASE UNCHANGED vars
  <2>1. UNCHANGED <<used, prbs, open, connCells>>
    BY <1>8 DEF vars
  <2>. QED
    BY <2>1 DEF IInv, PoolInv, PoolExact, OneCell, SessionsHaveLink,
                Granted, Units, Sessions, Holders, HasSession
<1>. QED  BY <1>1, <1>2, <1>3, <1>4, <1>5, <1>6, <1>7, <1>8 DEF Next

\* The inductive invariant holds in every reachable state.
THEOREM Invariance == Spec => []IInv
<1>. QED  BY InitIInv, NextIInv, PTL DEF Spec

\* Types: PRB counts are natural numbers, however the handlers subtract from
\* them.
THEOREM TypeCorrect == Spec => []TypeOK
<1>1. IInv => TypeOK
  BY DEF IInv, PoolInv, TypeOK
<1>. QED  BY <1>1, Invariance, PTL

\* used_prbs is exact, the pool is never overcommitted, and a UE holds PRBs of
\* at most one cell.
THEOREM PoolIsSound == Spec => []PoolSound
<1>1. IInv => PoolSound
  BY DEF IInv, PoolInv, PoolSound, PoolExact, PoolBounded
<1>. QED  BY <1>1, Invariance, PTL

\* A cell has sessions only while a link that carried it is open.
THEOREM NoSessionOutlivesItsLinks == Spec => []SessionsHaveLink
<1>1. IInv => SessionsHaveLink
  BY DEF IInv
<1>. QED  BY <1>1, Invariance, PTL

-----------------------------------------------------------------------------
(* One UE's signalling leaves the others alone. *)

\* The handlers as steps on one UE's share.
LEMMA HandlerStep ==
  ASSUME PoolInv, NEW k \in Links, NEW u \in UEs, NEW c \in Cells,
         Setup(k, u, c) \/ Measurement(k, u, c) \/ Release(k, u, c)
  PROVE  ShareStep(u) \/ UNCHANGED pool
<1>1. CASE Setup(k, u, c)
  BY <1>1, SetupIsShareStep DEF Setup
<1>2. CASE Measurement(k, u, c)
  <2>1. PICK need \in Required \cup {NoCoverage} : HandleMeasurement(u, c, need)
    BY <1>2 DEF Measurement
  <2>2. CASE HasSession(u, c)
    BY <2>1, <2>2, MeasurementIsShareStep
  <2>3. CASE ~HasSession(u, c)
    BY <2>1, <2>3 DEF HandleMeasurement
  <2>. QED  BY <2>2, <2>3
<1>3. CASE Release(k, u, c)
  BY <1>3, ReleaseIsShareStep DEF Release, HandleRelease
<1>. QED  BY <1>1, <1>2, <1>3

LEMMA ShareStepLeavesOthers ==
  ASSUME PoolInv, NEW u \in UEs, ShareStep(u), NEW w \in UEs, NEW c \in Cells, w # u
  PROVE  prbs'[c][w] = prbs[c][w]
BY DEF ShareStep, PoolInv

\* Unless a link ends or the DU restarts, a step changes the grants of at
\* most one UE.
THEOREM NoCrossTalkHolds == Spec => NoCrossTalk
<1>1. PoolInv /\ Next => OneUeAtMost
  <2> SUFFICES ASSUME PoolInv, Next PROVE OneUeAtMost
    OBVIOUS
  <2>1. CASE UNCHANGED pool
    BY <2>1 DEF pool, OneUeAtMost
  <2>2. CASE \E u \in UEs : ShareStep(u)
    BY <2>2, ShareStepLeavesOthers DEF OneUeAtMost
  <2>3. CASE \E k \in Links : LinkEnd(k)
    BY <2>3 DEF LinkEnd, OneUeAtMost
  <2>4. CASE Restart
    BY <2>4 DEF Restart, OneUeAtMost
  <2>. QED  BY <2>1, <2>2, <2>3, <2>4, HandlerStep DEF Next, Accept, Other, HandleOther
<1>2. PoolInv /\ [Next]_vars => [OneUeAtMost]_vars
  BY <1>1
<1>3. IInv => PoolInv
  BY DEF IInv
<1>. QED  BY <1>2, <1>3, Invariance, PTL DEF Spec, NoCrossTalk

-----------------------------------------------------------------------------
(* The DU implements module Admission. *)

LEMMA GrantOfSession ==
  ASSUME PoolInv, NEW u \in UEs, NEW c \in Cells, HasSession(u, c)
  PROVE  /\ GrantOf(u) = [cell |-> c, prbs |-> prbs[c][u]]
         /\ GrantOf(u) # NoCoverage
<1>1. {d \in Cells : HasSession(u, d)} = {c}
  BY DEF PoolInv, OneCell
<1>2. (CHOOSE d \in {c} : TRUE) = c
  OBVIOUS
<1>3. GrantOf(u) = [cell |-> c, prbs |-> prbs[c][u]]
  BY <1>1, <1>2 DEF GrantOf
<1>4. prbs[c][u] \in Nat
  BY TotalAssumption DEF PoolInv
<1>. QED  BY <1>3, <1>4, NoCoverageAssumption

LEMMA GrantOfNobody ==
  ASSUME NEW u \in UEs, \A c \in Cells : ~HasSession(u, c)
  PROVE  GrantOf(u) = NoCoverage
BY DEF GrantOf

\* The other UEs' units on a cell are the cell's units without the UE's own.
LEMMA HeldByOthers ==
  ASSUME PoolInv, NEW u \in UEs, NEW c \in Cells
  PROVE  Cardinality(Promise!Held(UEs \ {u}, c)) = used[c] - prbs[c][u]
<1> DEFINE others == [prbs[c] EXCEPT ![u] = 0]
<1>1. prbs[c] \in [UEs -> 0..TotalPrbs] /\ 0 \in 0..TotalPrbs
  BY TotalAssumption DEF PoolInv
<1>2. Cardinality(Units(others)) = used[c] - prbs[c][u]
  <2>1. Cardinality(Units(others)) = Cardinality(Units(prbs[c])) - prbs[c][u] + 0
    BY <1>1, UnitsUpdate
  <2>2. used[c] = Cardinality(Units(prbs[c])) /\ used[c] \in Nat /\ prbs[c][u] \in Nat
    BY <1>1, TotalAssumption DEF PoolInv, PoolExact, Granted
  <2>. QED  BY <2>1, <2>2
<1>3. \A w \in UEs \ {u}, n \in 1..TotalPrbs :
        (GrantOf(w) # NoCoverage /\ GrantOf(w).cell = c /\ n <= GrantOf(w).prbs)
          <=> n <= prbs[c][w]
  <2> SUFFICES ASSUME NEW w \in UEs \ {u}, NEW n \in 1..TotalPrbs
               PROVE  (GrantOf(w) # NoCoverage /\ GrantOf(w).cell = c
                         /\ n <= GrantOf(w).prbs) <=> n <= prbs[c][w]
    OBVIOUS
  <2>0. prbs[c][w] \in 0..TotalPrbs /\ n \in Nat /\ n > 0
    BY <1>1, TotalAssumption
  <2>1. CASE HasSession(w, c)
    <3>1. GrantOf(w) # NoCoverage /\ GrantOf(w).cell = c /\ GrantOf(w).prbs = prbs[c][w]
      BY <2>1, GrantOfSession
    <3>. QED  BY <3>1
  <2>2. CASE ~HasSession(w, c)
    <3>1. ~(n <= prbs[c][w])
      BY <2>0, <2>2, TotalAssumption DEF HasSession
    <3>2. GrantOf(w) = NoCoverage \/ GrantOf(w).cell # c
      <4>1. CASE \E d \in Cells : HasSession(w, d)
        <5>1. PICK d \in Cells : HasSession(w, d)
          BY <4>1
        <5>2. GrantOf(w).cell = d /\ d # c
          BY <2>2, <5>1, GrantOfSession
        <5>. QED  BY <5>2
      <4>2. CASE \A d \in Cells : ~HasSession(w, d)
        BY <4>2, GrantOfNobody
      <4>. QED  BY <4>1, <4>2
    <3>. QED  BY <3>1, <3>2
  <2>. QED  BY <2>1, <2>2
<1>4. Promise!Held(UEs \ {u}, c)
        = {g \in (UEs \ {u}) \X (1..TotalPrbs) : g[2] <= prbs[c][g[1]]}
  <2> DEFINE A == {g \in (UEs \ {u}) \X (1..TotalPrbs) :
                     /\ GrantOf(g[1]) # NoCoverage
                     /\ GrantOf(g[1]).cell = c
                     /\ g[2] <= GrantOf(g[1]).prbs}
             B == {g \in (UEs \ {u}) \X (1..TotalPrbs) : g[2] <= prbs[c][g[1]]}
  <2>1. Promise!Held(UEs \ {u}, c) = A
    BY DEF Promise!Held, grants
  <2>2. A = B
    BY <1>3
  <2>. QED  BY <2>1, <2>2
<1>5. Units(others) = {g \in (UEs \ {u}) \X (1..TotalPrbs) : g[2] <= prbs[c][g[1]]}
  <2>1. \A w \in UEs : others[w] = IF w = u THEN 0 ELSE prbs[c][w]
    BY <1>1
  <2>2. \A n \in 1..TotalPrbs : ~(n <= 0)
    BY TotalAssumption
  <2> HIDE DEF others
  <2>. QED  BY <2>1, <2>2 DEF Units
<1>. QED  BY <1>2, <1>4, <1>5

\* What the promise sees of the other UEs does not change in a share step.
LEMMA OthersKeepGrant ==
  ASSUME PoolInv, NEW u \in UEs, ShareStep(u), NEW w \in UEs, w # u
  PROVE  GrantOf(w)' = GrantOf(w)
<1>1. \A c \in Cells : prbs'[c][w] = prbs[c][w]
  BY ShareStepLeavesOthers
<1>. QED  BY <1>1 DEF GrantOf, HasSession

\* A share step is a grant within the capacity, or a loss.
LEMMA ShareStepIsPromised ==
  ASSUME PoolInv, PoolInv', NEW u \in UEs, ShareStep(u)
  PROVE  Promise!Next
<1>1. \A w \in UEs : w # u => GrantOf(w)' = GrantOf(w)
  BY OthersKeepGrant
<1>2. CASE \A c \in Cells : ~(prbs'[c][u] > 0)
  <2>1. GrantOf(u)' = NoCoverage
    BY <1>2 DEF GrantOf, HasSession
  <2>2. grants' = [grants EXCEPT ![u] = NoCoverage]
    BY <1>1, <2>1 DEF grants
  <2>3. Promise!Lose(u)
    BY <2>2 DEF Promise!Lose
  <2>. QED  BY <2>3 DEF Promise!Next
<1>3. CASE \E c \in Cells : prbs'[c][u] > 0
  <2>1. PICK c \in Cells : prbs'[c][u] > 0
    BY <1>3
  <2>2. GrantOf(u)' = [cell |-> c, prbs |-> prbs'[c][u]]
    <3>1. \A d \in Cells : prbs'[d][u] > 0 => d = c
      BY <2>1 DEF PoolInv, OneCell, HasSession
    <3>2. {d \in Cells : prbs'[d][u] > 0} = {c}
      BY <2>1, <3>1
    <3>3. (CHOOSE d \in {c} : TRUE) = c
      OBVIOUS
    <3>. QED  BY <3>2, <3>3 DEF GrantOf, HasSession
  <2>3. prbs'[c][u] \in 1..TotalPrbs
    BY <2>1, TotalAssumption DEF PoolInv
  <2>4. used[c] - prbs[c][u] + prbs'[c][u] <= TotalPrbs
    BY DEF ShareStep, PoolInv
  <2>5. Cardinality(Promise!Held(UEs \ {u}, c)) + prbs'[c][u] <= TotalPrbs
    BY <2>4, HeldByOthers
  <2>6. grants' = [grants EXCEPT ![u] = [cell |-> c, prbs |-> prbs'[c][u]]]
    BY <1>1, <2>2 DEF grants
  <2>7. PICK n \in 1..TotalPrbs : n = prbs'[c][u]
    BY <2>3
  <2>8. grants' = [grants EXCEPT ![u] = [cell |-> c, prbs |-> n]]
    BY <2>6, <2>7
  <2>9. Promise!Grant(u, c, n)
    <3>1. Cardinality(Promise!Held(UEs \ {u}, c)) + n <= TotalPrbs
      BY <2>5, <2>7
    <3>2. Promise!Cardinality(Promise!Held(UEs \ {u}, c))
            = Cardinality(Promise!Held(UEs \ {u}, c))
      BY DEF Promise!Cardinality, Cardinality
    <3>. QED  BY <2>8, <3>1, <3>2 DEF Promise!Grant
  <2>. QED  BY <2>9 DEF Promise!Next
<1>. QED  BY <1>2, <1>3

\* The cleanup of a link is the loss of its cells.
LEMMA ReclaimIsPromised ==
  ASSUME PoolInv, NEW cs \in SUBSET Cells, ReclaimCells(cs)
  PROVE  Promise!Next
<1>1. ASSUME NEW w \in UEs
      PROVE  GrantOf(w)' = IF GrantOf(w) # NoCoverage /\ GrantOf(w).cell \in cs
                           THEN NoCoverage ELSE GrantOf(w)
  <2>1. CASE \E c \in Cells : HasSession(w, c)
    <3>1. PICK c \in Cells : HasSession(w, c)
      BY <2>1
    <3>2. GrantOf(w) # NoCoverage /\ GrantOf(w).cell = c
      BY <3>1, GrantOfSession
    <3>3. \A d \in Cells : HasSession(w, d) => d = c
      BY <3>1 DEF PoolInv, OneCell
    <3>4. CASE c \in cs
      <4>1. \A d \in Cells : ~(prbs'[d][w] > 0)
        BY <3>3, <3>4 DEF ReclaimCells, HasSession
      <4>2. GrantOf(w)' = NoCoverage
        BY <4>1 DEF GrantOf, HasSession
      <4>. QED  BY <3>2, <3>4, <4>2
    <3>5. CASE c \notin cs
      <4>1. \A d \in Cells : (prbs'[d][w] > 0 <=> d = c) /\ prbs'[c][w] = prbs[c][w]
        BY <3>1, <3>3, <3>5 DEF ReclaimCells, HasSession
      <4>2. {d \in Cells : prbs'[d][w] > 0} = {c}
        BY <4>1
      <4>3. GrantOf(w)' = [cell |-> c, prbs |-> prbs[c][w]]
        BY <4>1, <4>2 DEF GrantOf, HasSession
      <4>. QED  BY <3>1, <3>2, <3>5, <4>3, GrantOfSession
    <3>. QED  BY <3>4, <3>5
  <2>2. CASE \A c \in Cells : ~HasSession(w, c)
    <3>1. \A c \in Cells : ~(prbs'[c][w] > 0)
      BY <2>2 DEF ReclaimCells, HasSession
    <3>2. GrantOf(w)' = NoCoverage
      BY <3>1 DEF GrantOf, HasSession
    <3>3. GrantOf(w) = NoCoverage
      BY <2>2, GrantOfNobody
    <3>. QED  BY <3>2, <3>3
  <2>. QED  BY <2>1, <2>2
<1>2. grants' = [w \in UEs |-> IF grants[w] # NoCoverage /\ grants[w].cell \in cs
                              THEN NoCoverage ELSE grants[w]]
  BY <1>1 DEF grants
<1>3. Promise!LoseCells(cs)
  BY <1>2 DEF Promise!LoseCells
<1>. QED  BY <1>3 DEF Promise!Next

\* Every behaviour of the DU, seen as who holds what, is one the promise of
\* module Admission allows.
THEOREM DUImplementsAdmission == Spec => ImplementsAdmission
<1>1. Init => Promise!Init
  <2> SUFFICES ASSUME Init PROVE Promise!Init
    OBVIOUS
  <2>1. \A u \in UEs, c \in Cells : ~HasSession(u, c)
    BY DEF Init, HasSession
  <2>. QED  BY <2>1, GrantOfNobody DEF Promise!Init, grants
<1>2. UNCHANGED pool => UNCHANGED grants
  BY DEF pool, GrantOf, HasSession, grants
<1>3. IInv /\ IInv' /\ [Next]_vars => [Promise!Next]_grants
  <2> SUFFICES ASSUME IInv, IInv', [Next]_vars PROVE Promise!Next \/ UNCHANGED grants
    OBVIOUS
  <2>0. PoolInv /\ PoolInv'
    BY DEF IInv
  <2>1. CASE UNCHANGED pool
    BY <1>2, <2>1
  <2>2. CASE \E u \in UEs : ShareStep(u)
    BY <2>0, <2>2, ShareStepIsPromised
  <2>3. ASSUME NEW k \in Links, LinkEnd(k) PROVE Promise!Next
    <3>1. connCells[k] \in SUBSET Cells /\ ReclaimCells(connCells[k])
      BY <2>3 DEF LinkEnd, IInv
    <3>. QED  BY <2>0, <3>1, ReclaimIsPromised
  <2>4. ASSUME Restart PROVE Promise!Next
    <3>1. \A u \in UEs : GrantOf(u)' = NoCoverage
      BY <2>4 DEF Restart, GrantOf, HasSession
    <3>2. \A u \in UEs : GrantOf(u) = NoCoverage \/ GrantOf(u).cell \in Cells
      BY <2>0, GrantOfSession, GrantOfNobody
    <3>3. grants' = [w \in UEs |-> IF grants[w] # NoCoverage /\ grants[w].cell \in Cells
                                  THEN NoCoverage ELSE grants[w]]
      BY <3>1, <3>2 DEF grants
    <3>4. Promise!LoseCells(Cells)
      BY <3>3 DEF Promise!LoseCells
    <3>. QED  BY <3>4 DEF Promise!Next
  <2>. QED
    BY <2>0, <2>1, <2>2, <2>3, <2>4, HandlerStep
       DEF Next, Accept, Other, HandleOther, vars, pool
<1>. QED
  BY <1>1, <1>3, Invariance, PTL DEF Spec, ImplementsAdmission, Promise!Spec

-----------------------------------------------------------------------------
(* Module DUCounters: the statistics describe the sessions. *)

\* Giving UE u a share of n changes the number of holders accordingly.
LEMMA HoldersUpdate ==
  ASSUME NEW f \in [UEs -> 0..TotalPrbs], NEW u \in UEs, NEW n \in 0..TotalPrbs
  PROVE  /\ Cardinality(Holders(f)) \in Nat
         /\ Cardinality(Holders([f EXCEPT ![u] = n]))
              = Cardinality(Holders(f)) - (IF f[u] > 0 THEN 1 ELSE 0) + (IF n > 0 THEN 1 ELSE 0)
<1> DEFINE h == [f EXCEPT ![u] = n]
           Rest == Holders(f) \ {u}
<1>1. IsFiniteSet(Holders(f)) /\ Cardinality(Holders(f)) \in Nat
  <2>1. Holders(f) \in SUBSET UEs
    BY DEF Holders
  <2>. QED  BY <2>1, UEsAssumption, FS_Subset, FS_CardinalityType
<1>2. /\ IsFiniteSet(Rest)
      /\ Cardinality(Rest) \in Int
      /\ Cardinality(Rest) = Cardinality(Holders(f)) - (IF f[u] > 0 THEN 1 ELSE 0)
  <2>1. u \in Holders(f) <=> f[u] > 0
    BY DEF Holders
  <2>2. /\ IsFiniteSet(Rest)
        /\ Cardinality(Rest) = IF u \in Holders(f) THEN Cardinality(Holders(f)) - 1
                               ELSE Cardinality(Holders(f))
    BY <1>1, FS_RemoveElement
  <2>. QED  BY <1>1, <2>1, <2>2
<1>3. ASSUME n > 0
      PROVE  Cardinality(Holders(h)) = Cardinality(Rest) + (IF n > 0 THEN 1 ELSE 0)
  <2>1. Holders(h) = Rest \cup {u}
    BY <1>3, TotalAssumption DEF Holders
  <2>2. Cardinality(Rest \cup {u}) = Cardinality(Rest) + 1
    BY <1>2, FS_AddElement
  <2>. QED  BY <1>1, <1>2, <1>3, <2>1, <2>2
<1>4. ASSUME ~(n > 0)
      PROVE  Cardinality(Holders(h)) = Cardinality(Rest) + (IF n > 0 THEN 1 ELSE 0)
  <2>1. Holders(h) = Rest
    BY <1>4, TotalAssumption DEF Holders
  <2>2. Cardinality(Rest) + 0 = Cardinality(Rest)
    BY <1>2
  <2> HIDE DEF h, Rest
  <2>. QED  BY <1>4, <2>1, <2>2
<1>5. Cardinality(Holders(h)) = Cardinality(Rest) + (IF n > 0 THEN 1 ELSE 0)
  BY <1>3, <1>4
<1>. QED  BY <1>1, <1>2, <1>5

LEMMA HoldersNone == Cardinality(Holders([u \in UEs |-> 0])) = 0
<1>1. Holders([u \in UEs |-> 0]) = {}
  BY DEF Holders
<1>. QED  BY <1>1, FS_EmptySet

-----------------------------------------------------------------------------
(* Counting follows the sessions, one way in and four ways out. *)

CountersInv == CountersTypeOK /\ CountersBalance

\* What one action does to the number of sessions of a cell.
LEMMA SessionsAfterShare ==
  ASSUME PoolInv, PoolInv', NEW u \in UEs, NEW c \in Cells,
         \A w \in UEs : w # u => prbs'[c][w] = prbs[c][w]
  PROVE  /\ Cardinality(Sessions(c)) \in Nat
         /\ Cardinality(Sessions(c)')
              = Cardinality(Sessions(c)) - One(HasSession(u, c)) + One(prbs'[c][u] > 0)
<1>1. prbs[c] \in [UEs -> 0..TotalPrbs] /\ prbs'[c] \in [UEs -> 0..TotalPrbs]
  BY DEF PoolInv
<1>2. prbs'[c] = [prbs[c] EXCEPT ![u] = prbs'[c][u]]
  BY <1>1
<1>3. prbs'[c][u] \in 0..TotalPrbs
  BY <1>1
<1>4. /\ Cardinality(Holders(prbs[c])) \in Nat
      /\ Cardinality(Holders([prbs[c] EXCEPT ![u] = prbs'[c][u]]))
           = Cardinality(Holders(prbs[c])) - (IF prbs[c][u] > 0 THEN 1 ELSE 0)
             + (IF prbs'[c][u] > 0 THEN 1 ELSE 0)
  BY <1>1, <1>3, HoldersUpdate
<1>5. Sessions(c) = Holders(prbs[c]) /\ Sessions(c)' = Holders(prbs'[c])
  BY DEF Sessions, Holders
<1>. QED  BY <1>2, <1>4, <1>5 DEF One, HasSession

\* A counted step leaves a counted state, if the counters move by what the
\* sessions of each cell gained and lost.
LEMMA CountedStep ==
  ASSUME PoolInv, PoolInv', CountersInv, NEW u \in UEs, ShareStep(u),
         admitted' \in [Cells -> Nat], released' \in [Cells -> Nat],
         \A c \in Cells :
           admitted'[c] - released'[c]
             = admitted[c] - released[c] - One(HasSession(u, c)) + One(prbs'[c][u] > 0)
  PROVE  CountersInv'
<1>1. ASSUME NEW c \in Cells
      PROVE  admitted'[c] - released'[c] = Cardinality(Sessions(c)')
  <2>1. \A w \in UEs : w # u => prbs'[c][w] = prbs[c][w]
    BY ShareStepLeavesOthers
  <2>2. /\ Cardinality(Sessions(c)) \in Nat
        /\ Cardinality(Sessions(c)')
             = Cardinality(Sessions(c)) - One(HasSession(u, c)) + One(prbs'[c][u] > 0)
    BY <2>1, SessionsAfterShare
  <2>3. admitted[c] - released[c] = Cardinality(Sessions(c))
    BY DEF CountersInv, CountersBalance
  <2>. QED  BY <2>2, <2>3
<1>. QED  BY <1>1 DEF CountersInv, CountersTypeOK, CountersBalance

LEMMA SetupCounted ==
  ASSUME PoolInv, PoolInv', CountersInv, NEW k \in Links, NEW u \in UEs, NEW c \in Cells,
         CSetup(k, u, c)
  PROVE  CountersInv'
<1>1. PICK need \in Required \cup {NoCoverage} : HandleSetup(u, c, need)
  BY DEF CSetup, Setup
<1>2. ShareStep(u)
  BY <1>1, SetupIsShareStep
<1>3. admitted \in [Cells -> Nat] /\ released \in [Cells -> Nat]
  BY DEF CountersInv, CountersTypeOK
<1>4. admitted' \in [Cells -> Nat] /\ released' \in [Cells -> Nat]
  BY <1>3 DEF CSetup, CountSetup, One
<1>5. \A d \in Cells :
        admitted'[d] - released'[d]
          = admitted[d] - released[d] - One(HasSession(u, d)) + One(prbs'[d][u] > 0)
  <2> SUFFICES ASSUME NEW d \in Cells
               PROVE  admitted'[d] - released'[d]
                        = admitted[d] - released[d] - One(HasSession(u, d))
                          + One(prbs'[d][u] > 0)
    OBVIOUS
  <2>1. released'[d] = released[d] + One(HasSession(u, d))
    BY DEF CSetup, CountSetup
  <2>2. admitted'[d] = admitted[d] + One(prbs'[d][u] > 0)
    <3>1. CASE d = c
      BY <1>3, <3>1 DEF CSetup, CountSetup
    <3>2. CASE d # c
      <4>1. admitted'[d] = admitted[d]
        BY <1>3, <3>2 DEF CSetup, CountSetup
      <4>2. prbs'[d][u] = 0
        BY <1>1, <3>2 DEF HandleSetup, PoolInv
      <4>. QED  BY <1>3, <4>1, <4>2 DEF One
    <3>. QED  BY <3>1, <3>2
  <2>. QED  BY <1>3, <2>1, <2>2 DEF One
<1>. QED  BY <1>2, <1>4, <1>5, CountedStep

LEMMA LossCounted ==
  ASSUME PoolInv, PoolInv', CountersInv, NEW k \in Links, NEW u \in UEs, NEW c \in Cells,
         CLoss(k, u, c)
  PROVE  CountersInv'
<1>1. admitted \in [Cells -> Nat] /\ released \in [Cells -> Nat]
  BY DEF CountersInv, CountersTypeOK
<1>2. /\ released' = [released EXCEPT ![c] = @ + One(HasSession(u, c) /\ prbs'[c][u] = 0)]
      /\ admitted' = admitted
  BY DEF CLoss, CountLoss
<1>3. admitted' \in [Cells -> Nat] /\ released' \in [Cells -> Nat]
  BY <1>1, <1>2 DEF One
<1>4. \A d \in Cells : d # c => prbs'[d][u] = prbs[d][u]
  BY DEF CLoss, Measurement, Release, HandleRelease, HandleMeasurement, ReleaseUeOn,
         PoolInv, pool
<1>5. prbs'[c][u] \in Nat /\ prbs[c][u] \in Nat
  BY TotalAssumption DEF PoolInv
<1>6. ~HasSession(u, c) => prbs'[c][u] = 0
  BY <1>5 DEF CLoss, Measurement, Release, HandleRelease, HandleMeasurement, ReleaseUeOn,
              HasSession, PoolInv, pool
<1>7. \A d \in Cells :
        admitted'[d] - released'[d]
          = admitted[d] - released[d] - One(HasSession(u, d)) + One(prbs'[d][u] > 0)
  BY <1>1, <1>2, <1>4, <1>5, <1>6 DEF One, HasSession
<1>8. ShareStep(u) \/ UNCHANGED pool
  BY HandlerStep DEF CLoss
<1>9. CASE UNCHANGED pool
  <2>1. \A d \in Cells : admitted'[d] - released'[d] = admitted[d] - released[d]
    BY <1>1, <1>2, <1>5, <1>9 DEF One, HasSession, pool
  <2>2. \A d \in Cells : Sessions(d)' = Sessions(d)
    BY <1>9 DEF Sessions, Holders, pool
  <2>. QED
    BY <1>3, <2>1, <2>2 DEF CountersInv, CountersTypeOK, CountersBalance
<1>. QED  BY <1>3, <1>7, <1>8, <1>9, CountedStep

LEMMA CleanupCounted ==
  ASSUME PoolInv, CountersInv, NEW k \in Links, CLinkEnd(k)
  PROVE  CountersInv'
<1>1. admitted \in [Cells -> Nat] /\ released \in [Cells -> Nat]
  BY DEF CountersInv, CountersTypeOK
<1>2. \A c \in Cells : admitted[c] - released[c] = Cardinality(Sessions(c))
  BY DEF CountersInv, CountersBalance
<1>3. \A c \in Cells : Cardinality(Sessions(c)) \in Nat
  <2>1. \A c \in Cells : Sessions(c) \in SUBSET UEs
    BY DEF Sessions, Holders
  <2>. QED  BY <2>1, UEsAssumption, FS_Subset, FS_CardinalityType
<1>4. admitted' \in [Cells -> Nat] /\ released' \in [Cells -> Nat]
  BY <1>1, <1>3 DEF CLinkEnd, CountCleanup
<1>5. ASSUME NEW c \in Cells
      PROVE  admitted'[c] - released'[c] = Cardinality(Sessions(c)')
  <2>1. CASE c \in connCells[k]
    <3>1. Sessions(c)' = Holders([u \in UEs |-> 0])
      BY <2>1 DEF CLinkEnd, LinkEnd, ReclaimCells, Sessions, Holders
    <3>2. admitted'[c] = admitted[c] /\ released'[c] = released[c] + Cardinality(Sessions(c))
      BY <2>1 DEF CLinkEnd, CountCleanup
    <3>. QED  BY <1>1, <1>2, <1>3, <3>1, <3>2, HoldersNone
  <2>2. CASE c \notin connCells[k]
    <3>1. Sessions(c)' = Sessions(c)
      BY <2>2 DEF CLinkEnd, LinkEnd, ReclaimCells, Sessions, Holders
    <3>2. admitted'[c] = admitted[c] /\ released'[c] = released[c]
      BY <2>2 DEF CLinkEnd, CountCleanup
    <3>. QED  BY <1>2, <3>1, <3>2
  <2>. QED  BY <2>1, <2>2
<1>. QED  BY <1>4, <1>5 DEF CountersInv, CountersTypeOK, CountersBalance

\* The counting DU is the DU: it takes no step the DU does not.
THEOREM CountersOnlyObserve == CSpec => Spec
<1>1. CInit => Init
  BY DEF CInit
<1>2. [CNext]_countVars => [Next]_vars
  BY DEF CNext, Next, CSetup, CLoss, CLinkEnd, CRestart, countVars, vars
<1>. QED  BY <1>1, <1>2, PTL DEF CSpec, Spec

\* Admissions minus releases is the number of sessions of the cell, always.
THEOREM CountersAreSound == CSpec => [](CountersTypeOK /\ CountersBalance)
<1>1. CInit => CountersInv
  <2> SUFFICES ASSUME CInit PROVE CountersInv
    OBVIOUS
  <2>1. \A c \in Cells : Cardinality(Sessions(c)) = 0
    BY HoldersNone DEF CInit, Init, Sessions
  <2>. QED  BY <2>1 DEF CInit, CountersInv, CountersTypeOK, CountersBalance
<1>2. IInv /\ IInv' /\ CountersInv /\ [CNext]_countVars => CountersInv'
  <2> SUFFICES ASSUME IInv, IInv', CountersInv, [CNext]_countVars PROVE CountersInv'
    OBVIOUS
  <2>0. PoolInv /\ PoolInv'
    BY DEF IInv
  <2>1. CASE UNCHANGED <<prbs, admitted, released>>
    BY <2>1 DEF CountersInv, CountersTypeOK, CountersBalance, Sessions, Holders
  <2>2. ASSUME NEW k \in Links, NEW u \in UEs, NEW c \in Cells, CSetup(k, u, c)
        PROVE  CountersInv'
    BY <2>0, <2>2, SetupCounted
  <2>3. ASSUME NEW k \in Links, NEW u \in UEs, NEW c \in Cells, CLoss(k, u, c)
        PROVE  CountersInv'
    BY <2>0, <2>3, LossCounted
  <2>4. ASSUME NEW k \in Links, CLinkEnd(k) PROVE CountersInv'
    BY <2>0, <2>4, CleanupCounted
  <2>5. ASSUME CRestart PROVE CountersInv'
    <3>1. CInit'
      BY <2>5 DEF CRestart, Restart, CInit, Init
    <3>. QED  BY <3>1, <1>1, PTL
  <2>. QED
    BY <2>1, <2>2, <2>3, <2>4, <2>5
       DEF CNext, Accept, Other, HandleOther, pool, countVars
<1>3. CountersInv <=> CountersTypeOK /\ CountersBalance
  BY DEF CountersInv
<1>. QED  BY <1>1, <1>2, <1>3, CountersOnlyObserve, Invariance, PTL DEF CSpec

-----------------------------------------------------------------------------
(* Module CallFlow: the recorder.  What one message makes of it comes first, *)
(* then the legs of the UEs, which decide what messages there are.           *)

Rungs == [dir : {"up", "down"}, step : Steps, cell : Cells, reject : BOOLEAN]
Uplinks == [link : Links, ue : UEs, cell : Cells, step : Steps, own : BOOLEAN]
Ladders == [ue : UEs \cup {NoUe}, complete : BOOLEAN, events : Seq(Rungs)]
Recorders == [ue : UEs \cup {NoUe}, events : Seq(Rungs), complete : BOOLEAN,
              reset : BOOLEAN, json : Ladders]

\* CleanLadder, of any sequence of rungs.
Clean(es, complete) ==
  \A i \in 1..Len(es) :
    /\ i = 1 => es[i].step = "rrc_setup"
    /\ es[i].dir = (IF i % 2 = 1 THEN "up" ELSE "down")
    /\ i % 2 = 0 => es[i].step = es[i-1].step /\ es[i].cell = es[i-1].cell
    /\ ~es[i].reject
    /\ es[i].dir = "down" /\ es[i].step = "release_complete" <=> complete /\ i = Len(es)

RecorderOK(r) ==
  /\ r \in Recorders
  /\ r.json.events = r.events /\ r.json.complete = r.complete
  /\ r.ue = NoUe => r.events = <<>> /\ ~r.complete
  /\ r.ue # NoUe => r.events # <<>>
  /\ Clean(r.events, r.complete)

\* The recorder still takes rungs for the UE it is locked onto.
Following(r) == r.ue # NoUe /\ ~r.complete /\ Len(r.events) < TraceMax

\* While it does, its last rung is the uplink being handled, if that is the
\* UE's, and a reply otherwise.
Paired(r, m) ==
  Following(r) =>
    IF m.ue = r.ue
    THEN Len(r.events) % 2 = 1 /\ r.events[Len(r.events)] = Event(m, "up", FALSE)
    ELSE Len(r.events) % 2 = 0

\* Recorder r shows the rungs es of UE u.
Shows(r, u, es, complete) ==
  /\ r \in Recorders
  /\ r.ue = u /\ r.events = es /\ r.complete = complete
  /\ r.json.events = es /\ r.json.complete = complete

\* Rungs alternate: odd ones are uplinks, even ones replies.
LEMMA Parity ==
  ASSUME NEW n \in Nat
  PROVE  /\ n % 2 = 0 \/ n % 2 = 1
         /\ n % 2 = 0 => (n + 1) % 2 = 1
         /\ n % 2 = 1 => (n + 1) % 2 = 0
OBVIOUS

\* What a message makes of the recorder: it lets go of its UE, stays as it is,
\* starts a ladder, or adds a rung to the one it has.
LEMMA RecordOutcomes ==
  ASSUME NEW r, RecorderOK(r), NEW u \in UEs, NEW e \in Rungs
  PROVE  \/ Record(r, u, e) = Unlocked /\ (r.reset \/ (Follows(r, u) /\ Refused(e)))
         \/ Record(r, u, e) = r /\ ~r.reset /\ ~Follows(r, u)
         \/ /\ Shows(Record(r, u, e), u, <<e>>, FALSE)
            /\ e.dir = "up" /\ e.step = "rrc_setup"
            /\ r.reset \/ r.ue = NoUe
         \/ /\ Shows(Record(r, u, e), u, Append(r.events, e), Completes(e))
            /\ ~r.reset /\ Follows(r, u) /\ ~Refused(e)
<1> USE NoUeAssumption
<1> DEFINE start == [Unlocked EXCEPT !.ue = u]
           begun == Publish([start EXCEPT !.events = Append(@, e), !.complete = Completes(e)])
           grown == Publish([r EXCEPT !.events = Append(@, e), !.complete = Completes(e)])
<1>1. /\ Unlocked \in Recorders /\ start \in Recorders
      /\ Unlocked.ue = NoUe /\ ~Unlocked.complete /\ Unlocked.events = <<>> /\ ~Unlocked.reset
      /\ start.ue = u /\ start.events = <<>> /\ ~start.complete
  <2>1. <<>> \in Seq(Rungs)
    OBVIOUS
  <2>2. Unlocked \in Recorders
    BY <2>1 DEF Unlocked, EmptyLadder, Recorders, Ladders
  <2>3. start \in Recorders
    BY <2>2 DEF Recorders
  <2>4. /\ Unlocked.ue = NoUe /\ ~Unlocked.complete /\ Unlocked.events = <<>>
        /\ ~Unlocked.reset
    BY DEF Unlocked
  <2>5. start.ue = u /\ start.events = <<>> /\ ~start.complete
    BY <2>2, <2>4 DEF Recorders
  <2>. QED  BY <2>2, <2>3, <2>4, <2>5
<1>2. Completes(e) \in BOOLEAN /\ r \in Recorders /\ r.events \in Seq(Rungs)
  BY DEF Completes, RecorderOK, Recorders
<1>3. Shows(grown, r.ue, Append(r.events, e), Completes(e))
  <2>1. Append(r.events, e) \in Seq(Rungs)
    BY <1>2
  <2>. QED  BY <1>2, <2>1 DEF Shows, Publish, Recorders, Ladders
<1>4. e.dir = "up" => Shows(begun, u, <<e>>, FALSE)
  <2>1. Append(<<>>, e) = <<e>> /\ <<e>> \in Seq(Rungs)
    OBVIOUS
  <2>2. e.dir = "up" => Completes(e) = FALSE
    BY DEF Completes
  <2>. QED  BY <1>1, <1>2, <2>1, <2>2 DEF Shows, Publish, Unlocked, EmptyLadder, Recorders, Ladders
<1>5. Follows(start, u) /\ ~Follows(Unlocked, u)
  BY <1>1, TraceMaxAssumption DEF Follows
<1>6. CASE r.reset
  <2>1. ResetIfAsked(r) = Unlocked
    BY <1>6 DEF ResetIfAsked
  <2>2. CASE Starts(Unlocked, e)
    <3>1. ~Refused(e) /\ e.dir = "up" /\ e.step = "rrc_setup"
      BY <2>2 DEF Starts, Refused
    <3>2. Record(r, u, e) = begun
      BY <2>1, <2>2, <1>5, <3>1 DEF Record
    <3>. QED  BY <1>4, <1>6, <3>1, <3>2
  <2>3. CASE ~Starts(Unlocked, e)
    BY <2>1, <2>3, <1>5, <1>6 DEF Record
  <2>. QED  BY <2>2, <2>3
<1>7. CASE ~r.reset /\ r.ue = NoUe
  <2>1. ResetIfAsked(r) = r
    BY <1>7 DEF ResetIfAsked
  <2>2. ~Follows(r, u)
    BY <1>7 DEF Follows
  <2>3. CASE Starts(r, e)
    <3>1. ~Refused(e) /\ e.dir = "up" /\ e.step = "rrc_setup"
      BY <2>3 DEF Starts, Refused
    <3> DEFINE locked == [r EXCEPT !.ue = u]
               longer == [locked EXCEPT !.events = Append(@, e), !.complete = Completes(e)]
    <3>2. Follows(locked, u) /\ locked.events = <<>> /\ locked \in Recorders
      BY <1>2, <1>7, TraceMaxAssumption DEF Follows, RecorderOK, Recorders
    <3>3. Record(r, u, e) = Publish(longer)
      BY <2>1, <2>3, <3>1, <3>2 DEF Record
    <3>4. Append(<<>>, e) = <<e>> /\ <<e>> \in Seq(Rungs) /\ Completes(e) = FALSE
      BY <3>1 DEF Completes
    <3>5. Shows(Publish(longer), u, <<e>>, FALSE)
      BY <1>2, <3>2, <3>4 DEF Shows, Publish, Recorders, Ladders
    <3>. QED  BY <1>7, <3>1, <3>3, <3>5
  <2>4. CASE ~Starts(r, e)
    BY <1>7, <2>1, <2>2, <2>4 DEF Record
  <2>. QED  BY <2>3, <2>4
<1>8. CASE ~r.reset /\ r.ue # NoUe
  <2>1. ResetIfAsked(r) = r /\ ~Starts(r, e)
    BY <1>8 DEF ResetIfAsked, Starts
  <2>2. CASE ~Follows(r, u)
    BY <1>8, <2>1, <2>2 DEF Record
  <2>3. CASE Follows(r, u) /\ Refused(e)
    BY <1>8, <2>1, <2>3 DEF Record
  <2>4. CASE Follows(r, u) /\ ~Refused(e)
    <3>1. Record(r, u, e) = grown
      BY <2>1, <2>4 DEF Record
    <3>2. r.ue = u
      BY <2>4 DEF Follows
    <3>. QED  BY <1>3, <1>8, <2>4, <3>1, <3>2
  <2>. QED  BY <2>2, <2>3, <2>4
<1>. QED  BY <1>6, <1>7, <1>8

\* A clean ladder stays clean with the rung its length asks for.
LEMMA CleanGrows ==
  ASSUME NEW es \in Seq(Rungs), es # <<>>, Clean(es, FALSE), NEW e \in Rungs, ~e.reject,
         e.dir = (IF Len(es) % 2 = 0 THEN "up" ELSE "down"),
         Len(es) % 2 = 1 => e.step = es[Len(es)].step /\ e.cell = es[Len(es)].cell
  PROVE  Clean(Append(es, e), Completes(e))
<1> DEFINE n == Len(es)
           fs == Append(es, e)
<1>1. n \in Nat /\ n > 0 /\ Len(fs) = n + 1 /\ fs[n + 1] = e
  OBVIOUS
<1>2. \A i \in 1..n : fs[i] = es[i]
  OBVIOUS
<1> HIDE DEF fs
<1> SUFFICES ASSUME NEW i \in 1..(n + 1)
             PROVE  /\ i = 1 => fs[i].step = "rrc_setup"
                    /\ fs[i].dir = (IF i % 2 = 1 THEN "up" ELSE "down")
                    /\ i % 2 = 0 => fs[i].step = fs[i-1].step /\ fs[i].cell = fs[i-1].cell
                    /\ ~fs[i].reject
                    /\ fs[i].dir = "down" /\ fs[i].step = "release_complete"
                         <=> Completes(e) /\ i = n + 1
  BY <1>1 DEF Clean, fs
<1>3. CASE i \in 1..n
  <2>1. i # n + 1 /\ fs[i] = es[i] /\ (i # 1 => fs[i-1] = es[i-1]) /\ 1 % 2 = 1
    BY <1>1, <1>2, <1>3
  <2>2. /\ i = 1 => es[i].step = "rrc_setup"
        /\ es[i].dir = (IF i % 2 = 1 THEN "up" ELSE "down")
        /\ i % 2 = 0 => es[i].step = es[i-1].step /\ es[i].cell = es[i-1].cell
        /\ ~es[i].reject
        /\ ~(es[i].dir = "down" /\ es[i].step = "release_complete")
    BY <1>3 DEF Clean
  <2>. QED  BY <2>1, <2>2
<1>4. CASE i = n + 1
  <2>1. fs[i] = e /\ fs[i - 1] = es[n] /\ i # 1
    BY <1>1, <1>2, <1>4
  <2>2. (n % 2 = 0 /\ i % 2 = 1) \/ (n % 2 = 1 /\ i % 2 = 0)
    BY <1>1, <1>4
  <2>. QED  BY <2>1, <2>2, <1>4 DEF Completes
<1>. QED  BY <1>1, <1>3, <1>4

\* An RRC connection request alone is a clean ladder.
LEMMA CleanStart ==
  ASSUME NEW e \in Rungs, ~e.reject, e.dir = "up", e.step = "rrc_setup"
  PROVE  Clean(<<e>>, FALSE)
<1>1. Len(<<e>>) = 1 /\ <<e>>[1] = e /\ 1 % 2 = 1
  OBVIOUS
<1>. QED  BY <1>1 DEF Clean

\* A free recorder shows nothing.
LEMMA UnlockedOK ==
  RecorderOK(Unlocked) /\ \A m : Paired(Unlocked, m)
<1>1. Unlocked \in Recorders
  BY NoUeAssumption DEF Unlocked, EmptyLadder, Recorders, Ladders
<1>2. Clean(<<>>, FALSE)
  BY DEF Clean
<1>. QED  BY <1>1, <1>2 DEF RecorderOK, Unlocked, EmptyLadder, Paired, Following

\* Recording an uplink after a reply, and a reply after its uplink, keeps the
\* ladder clean.
LEMMA UplinkRecorded ==
  ASSUME NEW r, RecorderOK(r), Paired(r, Idle), NEW m \in Uplinks
  PROVE  /\ RecorderOK(Record(r, m.ue, Event(m, "up", FALSE)))
         /\ Paired(Record(r, m.ue, Event(m, "up", FALSE)), m)
<1> USE NoUeAssumption
<1> DEFINE u == m.ue
           e == Event(m, "up", FALSE)
           r2 == Record(r, u, e)
<1>1. u \in UEs /\ e \in Rungs /\ u # NoUe
  BY DEF Uplinks, Event, Rungs
<1>2. e.dir = "up" /\ ~e.reject
  BY DEF Event
<1> HIDE DEF e, u
<1>3. CASE r2 = Unlocked
  BY <1>3, UnlockedOK DEF u, e
<1>4. CASE r2 = r /\ ~Follows(r, u)
  <2>1. Following(r) => r.ue # u /\ Idle.ue # r.ue
    BY <1>1, <1>4 DEF Following, Follows, Idle
  <2>. QED  BY <1>4, <2>1 DEF Paired, u, e
<1>5. CASE Shows(r2, u, <<e>>, FALSE) /\ e.step = "rrc_setup"
  <2>1. Clean(<<e>>, FALSE)
    BY <1>1, <1>2, <1>5, CleanStart
  <2>2. <<e>> # <<>> /\ Len(<<e>>) = 1 /\ <<e>>[1] = e /\ 1 % 2 = 1
    OBVIOUS
  <2>3. RecorderOK(r2)
    BY <1>1, <1>5, <2>1, <2>2 DEF Shows, RecorderOK
  <2>4. Paired(r2, m)
    BY <1>5, <2>2 DEF Shows, Paired, u, e
  <2>. QED  BY <2>3, <2>4 DEF u, e
<1>6. CASE /\ Shows(r2, u, Append(r.events, e), Completes(e))
           /\ Follows(r, u) /\ ~Refused(e)
  <2> DEFINE n == Len(r.events)
  <2>1. r.events \in Seq(Rungs) /\ r.events # <<>> /\ Clean(r.events, FALSE) /\ r.ue = u
    BY <1>1, <1>6 DEF RecorderOK, Recorders, Follows
  <2>2. n \in Nat /\ n % 2 = 0
    <3>1. Following(r) /\ Idle.ue # r.ue /\ n \in Nat
      BY <1>1, <1>6, <2>1 DEF Following, Follows, Idle
    <3>. QED  BY <3>1 DEF Paired
  <2>3. Clean(Append(r.events, e), Completes(e))
    <3>1. Len(r.events) % 2 = 0 /\ Len(r.events) % 2 # 1
      BY <2>2, 0 # 1
    <3> HIDE DEF n
    <3>. QED  BY <1>1, <1>2, <2>1, <3>1, CleanGrows
  <2>4. /\ Append(r.events, e) # <<>> /\ Len(Append(r.events, e)) = n + 1
        /\ Append(r.events, e)[n + 1] = e
    BY <2>1
  <2>5. (n + 1) % 2 = 1
    BY <2>2, Parity
  <2>6. RecorderOK(r2)
    BY <1>1, <1>6, <2>3, <2>4 DEF Shows, RecorderOK
  <2>7. Paired(r2, m)
    BY <1>6, <2>4, <2>5 DEF Shows, Paired, u, e
  <2>. QED  BY <2>6, <2>7 DEF u, e
<1>. QED  BY <1>1, <1>3, <1>4, <1>5, <1>6, RecordOutcomes

LEMMA ReplyRecorded ==
  ASSUME NEW r, NEW m \in Uplinks, RecorderOK(r), Paired(r, m), NEW reject \in BOOLEAN
  PROVE  /\ RecorderOK(Record(r, m.ue, Event(m, "down", reject)))
         /\ Paired(Record(r, m.ue, Event(m, "down", reject)), Idle)
<1> USE NoUeAssumption
<1> DEFINE u == m.ue
           e == Event(m, "down", reject)
           r2 == Record(r, u, e)
<1>1. u \in UEs /\ e \in Rungs /\ u # NoUe
  BY DEF Uplinks, Event, Rungs
<1>2. e.dir = "down" /\ (~Refused(e) => ~e.reject)
      /\ e.step = Event(m, "up", FALSE).step /\ e.cell = Event(m, "up", FALSE).cell
  BY DEF Event, Refused
<1> HIDE DEF e, u
<1>3. CASE r2 = Unlocked
  BY <1>3, UnlockedOK DEF u, e
<1>4. CASE r2 = r /\ ~Follows(r, u)
  <2>1. Following(r) => r.ue # u /\ Idle.ue # r.ue
    BY <1>1, <1>4 DEF Following, Follows, Idle
  <2>. QED  BY <1>4, <2>1 DEF Paired, u, e
<1>6. CASE /\ Shows(r2, u, Append(r.events, e), Completes(e))
           /\ Follows(r, u) /\ ~Refused(e)
  <2> DEFINE n == Len(r.events)
  <2>1. r.events \in Seq(Rungs) /\ r.events # <<>> /\ Clean(r.events, FALSE) /\ r.ue = u
    BY <1>1, <1>6 DEF RecorderOK, Recorders, Follows
  <2>2. n \in Nat /\ n % 2 = 1 /\ r.events[n] = Event(m, "up", FALSE)
    <3>1. Following(r) /\ m.ue = r.ue /\ n \in Nat
      BY <1>1, <1>6, <2>1 DEF Following, Follows, u
    <3>. QED  BY <3>1 DEF Paired
  <2>3. Clean(Append(r.events, e), Completes(e))
    <3>1. Len(r.events) % 2 = 1 /\ Len(r.events) % 2 # 0
      BY <2>2, 0 # 1
    <3>2. e.step = r.events[Len(r.events)].step /\ e.cell = r.events[Len(r.events)].cell
      BY <1>2, <2>2
    <3>3. e.dir = (IF Len(r.events) % 2 = 0 THEN "up" ELSE "down") /\ ~e.reject
      BY <1>2, <1>6, <3>1
    <3> HIDE DEF n
    <3>. QED  BY <1>1, <2>1, <3>2, <3>3, CleanGrows
  <2>4. /\ Append(r.events, e) # <<>> /\ Len(Append(r.events, e)) = n + 1
    BY <2>1
  <2>5. (n + 1) % 2 = 0
    BY <2>2, Parity
  <2>6. RecorderOK(r2)
    BY <1>1, <1>6, <2>3, <2>4 DEF Shows, RecorderOK
  <2>7. Paired(r2, Idle)
    BY <1>1, <1>6, <2>4, <2>5 DEF Shows, Paired, Idle
  <2>. QED  BY <2>6, <2>7 DEF u, e
<1>. QED  BY <1>1, <1>2, <1>3, <1>4, <1>6, RecordOutcomes

-----------------------------------------------------------------------------
(* The call flow of one leg *)

LegSteps == (ToSet(AttachFlow) \ {AttachFlow[1]}) \cup {"none", "steady", "release_complete"}

\* The attach flow starts with an RRC connection request, and each step is there once.
LEMMA FlowShape ==
  /\ Len(AttachFlow) \in Nat /\ 1 \in 1..Len(AttachFlow)
  /\ ToSet(AttachFlow) = {AttachFlow[i] : i \in 1..Len(AttachFlow)}
  /\ \A i, j \in 1..Len(AttachFlow) : AttachFlow[i] = AttachFlow[j] => i = j
  /\ AttachFlow[1] = "rrc_setup" /\ AttachFlow[1] \in ToSet(AttachFlow)
<1>1. /\ Len(AttachFlow) \in Nat /\ DOMAIN AttachFlow = 1..Len(AttachFlow)
      /\ AttachFlow[1] = "rrc_setup"
      /\ "context_setup" \in ToSet(AttachFlow)
  BY FlowAssumption
<1>2. ToSet(AttachFlow) = {AttachFlow[i] : i \in 1..Len(AttachFlow)}
  BY <1>1 DEF ToSet
<1>3. \A i, j \in 1..Len(AttachFlow) : AttachFlow[i] = AttachFlow[j] => i = j
  BY <1>1, FlowAssumption DEF IsInjective
<1>4. 1 \in 1..Len(AttachFlow)
  BY <1>1, <1>2
<1>. QED  BY <1>1, <1>2, <1>3, <1>4

\* An attach never goes back to its first step.
LEMMA NextAttachAdvances ==
  ASSUME NEW s \in ToSet(AttachFlow)
  PROVE  NextAttach(s) \in (ToSet(AttachFlow) \ {AttachFlow[1]}) \cup {"steady"}
<1>1. PICK i \in 1..Len(AttachFlow) : AttachFlow[i] = s
  BY FlowShape
<1>2. i = CHOOSE j \in 1..Len(AttachFlow) : AttachFlow[j] = s
  BY <1>1, FlowShape
<1>3. NextAttach(s) = IF i = Len(AttachFlow) THEN "steady" ELSE AttachFlow[i + 1]
  BY <1>2 DEF NextAttach
<1>4. i # Len(AttachFlow) => i + 1 \in 1..Len(AttachFlow) /\ i + 1 # 1
  BY <1>1, FlowShape
<1>. QED  BY <1>3, <1>4, FlowShape

\* The steps have names of their own.
LEMMA StepNames ==
  ToSet(AttachFlow) \cap {"none", "steady", "measurement", "data", "release_request",
                          "release_complete", "abandoned"} = {}
BY FlowAssumption

\* A leg ends by a refusal or its release.
LEMMA NextLegType ==
  ASSUME NEW s \in Steps, NEW reject \in BOOLEAN
  PROVE  /\ NextLeg(s, reject) \in LegSteps
         /\ NextLeg(s, reject) = "none" /\ ~reject => s = "release_complete"
<1>1. CASE s \in ToSet(AttachFlow) /\ ~reject
  <2>1. NextLeg(s, reject) = NextAttach(s)
    BY <1>1, StepNames DEF NextLeg
  <2>. QED  BY <1>1, <2>1, NextAttachAdvances, StepNames DEF LegSteps
<1>2. CASE s \in ToSet(AttachFlow) /\ reject
  <2>1. NextLeg(s, reject) \in {"none", "steady"}
    BY <1>2, StepNames DEF NextLeg
  <2>. QED  BY <1>2, <2>1 DEF LegSteps
<1>3. CASE s \notin ToSet(AttachFlow)
  <2>1. s \in {"measurement", "data", "release_request", "release_complete"}
    BY <1>3 DEF Steps
  <2>2. /\ s = "release_request" => NextLeg(s, reject) = "release_complete"
        /\ s = "release_complete" => NextLeg(s, reject) = "none"
        /\ s = "data" => NextLeg(s, reject) = "steady"
        /\ s = "measurement" => NextLeg(s, reject) = IF reject THEN "none" ELSE "steady"
    BY <1>3 DEF NextLeg
  <2>. QED  BY <2>1, <2>2 DEF LegSteps
<1>. QED  BY <1>1, <1>2, <1>3

-----------------------------------------------------------------------------
(* The UEs' legs, and the sockets they have let go of *)

\* A record of a socket that is owed.
OwedSocket(o) ==
  /\ o = [id |-> o.id, ue |-> o.ue, cell |-> o.cell, next |-> o.next]
  /\ o.ue \in UEs /\ o.cell \in Cells /\ o.next \in Steps \cup {"abandoned"}

FlowTypes ==
  /\ msg \in Uplinks \cup {Idle}
  /\ leg \in [UEs -> [Cells -> LegSteps]]
  /\ \A o \in owed : OwedSocket(o)

\* The leg of an uplink in flight is where it was when the uplink was sent.
LegAwaits ==
  msg # Idle /\ msg.own =>
    /\ msg.step = AttachFlow[1] => leg[msg.ue][msg.cell] = "none"
    /\ msg.step \in (ToSet(AttachFlow) \ {AttachFlow[1]}) \cup {"release_complete"}
         => leg[msg.ue][msg.cell] = msg.step
    /\ msg.step \in {"measurement", "data", "release_request"}
         => leg[msg.ue][msg.cell] = "steady"

FlowInv == FlowTypes /\ LegAwaits

LEMMA UplinkIsNotIdle ==
  ASSUME NEW m \in Uplinks
  PROVE  m # Idle /\ m.ue \in UEs /\ m.cell \in Cells /\ m.link \in Links /\ m.step \in Steps
         /\ m.own \in BOOLEAN
BY NoUeAssumption DEF Uplinks, Idle

\* What is received is recorded and handled next; it leaves the legs alone.
LEMMA ReceivedUplink ==
  ASSUME NEW k \in Links, NEW u \in UEs, NEW c \in Cells, NEW s \in Steps, NEW own \in BOOLEAN,
         Receive([link |-> k, ue |-> u, cell |-> c, step |-> s, own |-> own])
  PROVE  /\ msg = Idle /\ msg' \in Uplinks /\ msg'.own = own
         /\ msg'.ue = u /\ msg'.cell = c /\ msg'.step = s
         /\ rec' = Record(rec, u, Event(msg', "up", FALSE))
<1> DEFINE m == [link |-> k, ue |-> u, cell |-> c, step |-> s, own |-> own]
<1>1. m \in Uplinks /\ m.own = own /\ m.ue = u /\ m.cell = c /\ m.step = s
  BY DEF Uplinks
<1>2. msg = Idle /\ msg' = m /\ rec' = Record(rec, m.ue, Event(m, "up", FALSE))
  BY DEF Receive
<1> HIDE DEF m
<1>. QED  BY <1>1, <1>2

LEMMA Received ==
  ASSUME NEW k \in Links, NEW u \in UEs, NEW c \in Cells, NEW s \in Steps, Uplink(k, u, c, s)
  PROVE  /\ msg = Idle /\ msg' \in Uplinks /\ msg'.own
         /\ msg'.ue = u /\ msg'.cell = c /\ msg'.step = s
         /\ rec' = Record(rec, u, Event(msg', "up", FALSE))
<1>1. Receive([link |-> k, ue |-> u, cell |-> c, step |-> s, own |-> TRUE])
  BY DEF Uplink
<1>. QED  BY <1>1, ReceivedUplink

\* What serve_ue sends for a socket it has to end by itself.
Late(k, o) == LateUplink(k, o) \/ AbandonedRelease(k, o)

LEMMA ReceivedLate ==
  ASSUME FlowTypes, NEW k \in Links, NEW o \in owed, Late(k, o)
  PROVE  /\ msg = Idle /\ msg' \in Uplinks /\ ~msg'.own
         /\ msg'.ue = o.ue /\ o.ue \in UEs /\ leg' = leg
         /\ rec' = Record(rec, o.ue, Event(msg', "up", FALSE))
         /\ \A p \in owed' : OwedSocket(p)
<1>1. o.ue \in UEs /\ o.cell \in Cells /\ o.next \in Steps \cup {"abandoned"}
      /\ o = [id |-> o.id, ue |-> o.ue, cell |-> o.cell, next |-> o.next]
  BY DEF FlowTypes, OwedSocket
<1>2. CASE LateUplink(k, o)
  <2>1. /\ Receive([link |-> k, ue |-> o.ue, cell |-> o.cell, step |-> o.next, own |-> FALSE])
        /\ o.next \in Steps /\ leg' = leg
    BY <1>1, <1>2 DEF LateUplink
  <2>2. \A p \in owed' : OwedSocket(p)
    <3>1. CASE o.next = "release_complete"
      BY <1>2, <3>1 DEF LateUplink, FlowTypes
    <3>2. CASE o.next # "release_complete"
      <4>1. PICK s \in SentAfter(o.next) : owed' = (owed \ {o}) \cup {[o EXCEPT !.next = s]}
        BY <1>2, <3>2 DEF LateUplink
      <4>2. s \in Steps \cup {"abandoned"}
        BY <2>1, <3>2, <4>1, StepNames DEF SentAfter, Steps
      <4>3. OwedSocket([o EXCEPT !.next = s])
        BY <1>1, <4>2 DEF OwedSocket
      <4>. QED  BY <4>1, <4>3 DEF FlowTypes
    <3>. QED  BY <3>1, <3>2
  <2>. QED  BY <1>1, <2>1, <2>2, ReceivedUplink
<1>3. CASE AbandonedRelease(k, o)
  <2>1. /\ Receive([link |-> k, ue |-> o.ue, cell |-> o.cell, step |-> "release_request",
                    own |-> FALSE])
        /\ "release_request" \in Steps /\ leg' = leg /\ owed' = owed \ {o}
    BY <1>3 DEF AbandonedRelease, Steps
  <2>. QED  BY <1>1, <2>1, ReceivedUplink DEF FlowTypes
<1>. QED  BY <1>2, <1>3 DEF Late

\* One more socket is owed.
LEMMA OwingIsTyped ==
  ASSUME FlowTypes, NEW u \in UEs, NEW c \in Cells, NEW s \in Steps \cup {"abandoned"}
  PROVE  \A o \in Owing(u, c, s) : OwedSocket(o)
<1> DEFINE fresh == CHOOSE i \in 1..Cardinality(owed)+1 : \A o \in owed : o.id # i
<1>1. Owing(u, c, s) = owed \cup {[id |-> fresh, ue |-> u, cell |-> c, next |-> s]}
  BY DEF Owing
<1> HIDE DEF fresh
<1>2. OwedSocket([id |-> fresh, ue |-> u, cell |-> c, next |-> s])
  BY DEF OwedSocket
<1>. QED  BY <1>1, <1>2 DEF FlowTypes

\* What an answer makes of the legs.
LEMMA Answered ==
  ASSUME FlowInv, NEW reject \in BOOLEAN, Answer(reject)
  PROVE  /\ msg \in Uplinks /\ msg' = Idle
         /\ Dispatch(msg, reject)
         /\ rec' = Record(rec, msg.ue, Event(msg, "down", reject))
         /\ leg' \in [UEs -> [Cells -> LegSteps]]
         /\ \A u \in UEs, c \in Cells :
              leg'[u][c] = IF msg.own /\ u = msg.ue /\ c = msg.cell
                           THEN NextLeg(msg.step, reject) ELSE leg[u][c]
         /\ \A o \in owed' : OwedSocket(o)
<1> DEFINE next == NextLeg(msg.step, reject)
           there == msg.own /\ (leg[msg.ue][msg.cell] # "none" \/ msg.step = AttachFlow[1])
<1>1. msg \in Uplinks /\ msg # Idle
  BY DEF Answer, FlowInv, FlowTypes
<1>2. /\ msg.ue \in UEs /\ msg.cell \in Cells /\ msg.step \in Steps /\ msg.own \in BOOLEAN
  BY <1>1, UplinkIsNotIdle
<1>3. there <=> msg.own
  <2>1. msg.own => leg[msg.ue][msg.cell] # "none" \/ msg.step = AttachFlow[1]
    <3>1. msg.step # "none"
      BY <1>2, StepNames DEF Steps
    <3>. QED  BY <1>1, <1>2, <3>1 DEF FlowInv, LegAwaits, Steps
  <2>. QED  BY <2>1
<1>4. next \in LegSteps
  BY <1>2, NextLegType
<1>5. /\ leg' = IF there THEN [leg EXCEPT ![msg.ue][msg.cell] = next] ELSE leg
      /\ owed' = IF there /\ next = "none" /\ msg.step # "release_complete"
                 THEN Owing(msg.ue, msg.cell, "abandoned") ELSE owed
  BY DEF Answer
<1>6. leg \in [UEs -> [Cells -> LegSteps]]
  BY DEF FlowInv, FlowTypes
<1> HIDE DEF next, there
<1>7. /\ leg' \in [UEs -> [Cells -> LegSteps]]
      /\ \A u \in UEs, c \in Cells :
           leg'[u][c] = IF msg.own /\ u = msg.ue /\ c = msg.cell THEN next ELSE leg[u][c]
  <2>1. CASE msg.own
    <3>1. leg' = [leg EXCEPT ![msg.ue][msg.cell] = next]
      BY <1>3, <1>5, <2>1
    <3>. QED  BY <1>2, <1>4, <1>6, <2>1, <3>1
  <2>2. CASE ~msg.own
    BY <1>3, <1>5, <1>6, <2>2
  <2>. QED  BY <2>1, <2>2
<1>8. \A o \in owed' : OwedSocket(o)
  BY <1>2, <1>5, OwingIsTyped DEF FlowInv, FlowTypes
<1>9. /\ msg' = Idle /\ Dispatch(msg, reject)
      /\ rec' = Record(rec, msg.ue, Event(msg, "down", reject))
  BY DEF Answer
<1>. QED  BY <1>1, <1>7, <1>8, <1>9 DEF next

LEMMA FlowInvStep ==
  ASSUME FlowInv, FNext
  PROVE  FlowInv'
<1>0. FlowTypes /\ LegAwaits
  BY DEF FlowInv
<1>1. ASSUME msg' = Idle, leg' \in [UEs -> [Cells -> LegSteps]], \A o \in owed' : OwedSocket(o)
      PROVE  FlowInv'
  BY <1>1 DEF FlowInv, FlowTypes, LegAwaits, OwedSocket
<1>2. ASSUME NEW k \in Links, NEW o \in owed, Late(k, o)
      PROVE  FlowInv'
  <2>1. msg' \in Uplinks /\ ~msg'.own /\ leg' = leg /\ \A p \in owed' : OwedSocket(p)
    BY <1>0, <1>2, ReceivedLate
  <2>. QED  BY <1>0, <2>1 DEF FlowInv, FlowTypes, LegAwaits, OwedSocket
<1>3. ASSUME NEW k \in Links, NEW u \in UEs, NEW c \in Cells, NEW s \in Steps,
             Uplink(k, u, c, s)
      PROVE  FlowInv'
  <2>1. msg' \in Uplinks /\ msg'.own /\ msg'.step = s /\ msg'.ue = u /\ msg'.cell = c
    BY <1>3, Received
  <2>2. leg' = leg /\ owed' = owed /\ MaySend(u, c, s)
    BY <1>3 DEF Uplink
  <2>3. /\ s = AttachFlow[1] => leg[u][c] = "none"
        /\ s \in (ToSet(AttachFlow) \ {AttachFlow[1]}) \cup {"release_complete"} => leg[u][c] = s
        /\ s \in {"measurement", "data", "release_request"} => leg[u][c] = "steady"
    BY <2>2, StepNames, FlowShape DEF MaySend
  <2>4. LegAwaits'
    BY <2>1, <2>2, <2>3 DEF LegAwaits
  <2>. QED  BY <1>0, <2>1, <2>2, <2>4 DEF FlowInv, FlowTypes, OwedSocket
<1>4. ASSUME NEW reject \in BOOLEAN, Answer(reject)
      PROVE  FlowInv'
  BY <1>1, <1>4, Answered
<1>5. ASSUME NEW u \in UEs, NEW c \in Cells, Vanish(u, c)
      PROVE  FlowInv'
  <2>1. msg' = Idle /\ leg' = [leg EXCEPT ![u][c] = "none"] /\ leg[u][c] # "none"
    BY <1>5 DEF Vanish
  <2>2. PICK s \in LastSent(leg[u][c]) : owed' = Owing(u, c, s)
    BY <1>5 DEF Vanish
  <2>3. leg[u][c] \in LegSteps \ {"none"} /\ leg' \in [UEs -> [Cells -> LegSteps]]
    BY <1>0, <2>1 DEF FlowTypes, LegSteps
  <2>4. s \in Steps \cup {"abandoned"}
    BY <2>2, <2>3, StepNames DEF LastSent, LegSteps, Steps
  <2>. QED  BY <1>0, <1>1, <2>1, <2>2, <2>3, <2>4, OwingIsTyped
<1>6. ASSUME NEW u \in UEs, NEW c \in Cells, VanishAtOnce(u, c)
      PROVE  FlowInv'
  <2>1. msg' = Idle /\ leg' = leg /\ owed' = Owing(u, c, AttachFlow[1])
        /\ AttachFlow[1] \in Steps
    BY <1>6, FlowShape DEF VanishAtOnce, Steps
  <2>. QED  BY <1>0, <1>1, <2>1, OwingIsTyped DEF FlowTypes
<1>7. ASSUME \/ RequestTraceReset
             \/ \E k \in Links : FAccept(k)
      PROVE  FlowInv'
  BY <1>0, <1>7 DEF RequestTraceReset, FAccept, FlowInv, FlowTypes, LegAwaits, OwedSocket
<1>8. ASSUME FRestart
      PROVE  FlowInv'
  <2>1. msg' = Idle /\ leg' = leg
    BY <1>8 DEF FRestart
  <2>2. \A p \in owed' : \E o \in owed : p = o \/ p = [o EXCEPT !.next = "abandoned"]
    BY <1>8 DEF FRestart
  <2>3. \A o \in owed : OwedSocket(o) /\ OwedSocket([o EXCEPT !.next = "abandoned"])
    BY <1>0 DEF FlowTypes, OwedSocket
  <2>. QED  BY <1>0, <1>1, <2>1, <2>2, <2>3 DEF FlowTypes
<1>. QED  BY <1>2, <1>3, <1>4, <1>5, <1>6, <1>7, <1>8 DEF FNext, Late

-----------------------------------------------------------------------------
(* The recorder over a run *)

LadderInv == RecorderOK(rec) /\ Paired(rec, msg)

\* What keeps the recorder on a UE: LockHeldForReason, where an uplink in
\* flight counts only if a socket of the UE waits for its answer.
Held ==
  rec.ue # NoUe /\ ~rec.complete =>
    \/ \E c \in Cells : leg[rec.ue][c] # "none"
    \/ msg # Idle /\ msg.ue = rec.ue /\ msg.own
    \/ Len(rec.events) >= TraceMax
    \/ rec.ue \in vanished

LEMMA LadderStep ==
  ASSUME FlowInv, LadderInv, FNext
  PROVE  LadderInv'
<1>1. ASSUME NEW k \in Links,
             \/ \E o \in owed : Late(k, o)
             \/ \E u \in UEs, c \in Cells, s \in Steps : Uplink(k, u, c, s)
      PROVE  LadderInv'
  <2>1. /\ msg = Idle /\ msg' \in Uplinks
        /\ rec' = Record(rec, msg'.ue, Event(msg', "up", FALSE))
    BY <1>1, Received, ReceivedLate DEF FlowInv
  <2>. QED  BY <2>1, UplinkRecorded DEF LadderInv
<1>2. ASSUME NEW reject \in BOOLEAN, Answer(reject)
      PROVE  LadderInv'
  BY <1>2, Answered, ReplyRecorded DEF LadderInv
<1>3. ASSUME \/ \E u \in UEs, c \in Cells : Vanish(u, c) \/ VanishAtOnce(u, c)
             \/ \E k \in Links : FAccept(k)
      PROVE  LadderInv'
  BY <1>3 DEF Vanish, VanishAtOnce, FAccept, LadderInv
<1>4. ASSUME RequestTraceReset
      PROVE  LadderInv'
  <2>1. rec' = [rec EXCEPT !.reset = TRUE] /\ msg' = msg
    BY <1>4 DEF RequestTraceReset
  <2>. QED  BY <2>1 DEF LadderInv, RecorderOK, Recorders, Paired, Following
<1>5. ASSUME FRestart
      PROVE  LadderInv'
  BY <1>5, UnlockedOK DEF FRestart, LadderInv
<1>. QED  BY <1>1, <1>2, <1>3, <1>4, <1>5 DEF FNext, Late

LEMMA HeldStep ==
  ASSUME FlowInv, LadderInv, Held, FNext
  PROVE  Held'
<1> USE NoUeAssumption, TraceMaxAssumption
<1>0. rec.events \in Seq(Rungs) /\ Len(rec.events) \in Nat /\ rec.ue \in UEs \cup {NoUe}
      /\ RecorderOK(rec)
  BY DEF LadderInv, RecorderOK, Recorders
<1>1. ASSUME NEW k \in Links, NEW u \in UEs, NEW c \in Cells, NEW s \in Steps,
             Uplink(k, u, c, s)
      PROVE  Held'
  <2>1. /\ msg = Idle /\ msg' \in Uplinks /\ msg'.ue = u /\ msg'.own
        /\ rec' = Record(rec, u, Event(msg', "up", FALSE))
    BY <1>1, Received
  <2>2. leg' = leg /\ vanished' = vanished \ {u} /\ msg' # Idle
    BY <1>1, <2>1, UplinkIsNotIdle DEF Uplink
  <2>3. CASE rec'.ue = u
    BY <2>1, <2>2, <2>3 DEF Held
  <2>4. CASE rec' = rec /\ rec.ue # u
    BY <2>1, <2>2, <2>4 DEF Held
  <2>5. CASE rec' = Unlocked
    BY <2>5 DEF Held, Unlocked
  <2> DEFINE e == Event(msg', "up", FALSE)
  <2>6. e \in Rungs
    BY <2>1, UplinkIsNotIdle DEF Event, Rungs
  <2>7. rec' = Record(rec, u, e)
    BY <2>1
  <2>8. ASSUME \/ Shows(rec', u, <<e>>, FALSE)
               \/ Shows(rec', u, Append(rec.events, e), Completes(e))
        PROVE  rec'.ue = u
    <3> HIDE DEF e
    <3>. QED  BY <2>8 DEF Shows
  <2>9. rec' = rec \/ rec'.ue = u \/ rec' = Unlocked
    <3> HIDE DEF e
    <3>. QED  BY <1>0, <2>6, <2>7, <2>8, RecordOutcomes
  <2>. QED  BY <2>3, <2>4, <2>5, <2>9
<1>2. ASSUME NEW k \in Links, NEW o \in owed, Late(k, o)
      PROVE  Held'
  <2> DEFINE e == Event(msg', "up", FALSE)
             u == o.ue
  <2>1. /\ msg = Idle /\ msg' \in Uplinks /\ msg'.ue = u /\ u \in UEs /\ leg' = leg
        /\ rec' = Record(rec, u, e) /\ e.step = msg'.step
    BY <1>2, ReceivedLate DEF Event, FlowInv
  <2>2. vanished \subseteq vanished'
    BY <1>2 DEF Late, AbandonedRelease, LateUplink
  <2>3. e \in Rungs
    BY <2>1, UplinkIsNotIdle DEF Event, Rungs
  <2>3a. ASSUME e.step = "rrc_setup"
         PROVE  u \in vanished' \/ \E c \in Cells : leg'[u][c] # "none"
    <3>1. CASE LateUplink(k, o)
      <4>1. msg'.step = o.next
        BY <3>1 DEF LateUplink, Receive
      <4>2. o.next = AttachFlow[1]
        BY <2>1, <2>3a, <4>1, FlowShape
      <4>3. CASE Legs(u) = {}
        BY <3>1, <4>2, <4>3 DEF LateUplink
      <4>4. CASE Legs(u) # {}
        BY <2>1, <4>4 DEF Legs
      <4>. QED  BY <4>3, <4>4
    <3>2. CASE AbandonedRelease(k, o)
      <4>1. msg'.step = "release_request"
        BY <3>2 DEF AbandonedRelease, Receive
      <4>. QED  BY <2>1, <2>3a, <4>1
    <3>. QED  BY <1>2, <3>1, <3>2 DEF Late
  <2> HIDE DEF e, u
  <2>4. CASE rec' = Unlocked
    BY <2>4 DEF Held, Unlocked
  <2>5. CASE rec' = rec
    BY <2>1, <2>2, <2>5 DEF Held
  <2>6. CASE Shows(rec', u, Append(rec.events, e), Completes(e)) /\ Follows(rec, u)
    <3>1. Len(rec'.events) = Len(rec.events) + 1 /\ rec'.ue = rec.ue /\ ~rec.complete
      BY <1>0, <2>3, <2>6 DEF Shows, Follows
    <3>. QED  BY <1>0, <2>1, <2>2, <3>1 DEF Held
  <2>7. CASE Shows(rec', u, <<e>>, FALSE) /\ e.step = "rrc_setup"
    BY <2>3a, <2>7 DEF Held, Shows
  <2>. QED  BY <1>0, <2>1, <2>3, <2>4, <2>5, <2>6, <2>7, RecordOutcomes
<1>3. ASSUME NEW reject \in BOOLEAN, Answer(reject)
      PROVE  Held'
  <2> DEFINE e == Event(msg, "down", reject)
             next == NextLeg(msg.step, reject)
  <2>1. /\ msg \in Uplinks /\ rec' = Record(rec, msg.ue, e)
        /\ e.dir = "down" /\ e.step = msg.step /\ e.reject = reject
        /\ \A u \in UEs, c \in Cells :
              leg'[u][c] = IF msg.own /\ u = msg.ue /\ c = msg.cell THEN next ELSE leg[u][c]
    BY <1>3, Answered DEF Event
  <2>2. vanished' = vanished
    BY <1>3 DEF Answer
  <2>3. e \in Rungs /\ msg.ue \in UEs /\ msg.cell \in Cells /\ msg.step \in Steps
    BY <2>1, UplinkIsNotIdle DEF Event, Rungs
  <2>4. next = "none" /\ ~reject => msg.step = "release_complete"
    BY <2>3, NextLegType
  <2> HIDE DEF e, next
  <2>5. CASE rec' = Unlocked
    BY <2>5 DEF Held, Unlocked
  <2>6. CASE rec' = rec /\ ~Follows(rec, msg.ue)
    <3>1. CASE rec.ue = msg.ue
      BY <1>0, <2>6, <3>1 DEF Held, Follows
    <3>2. CASE rec.ue # msg.ue
      BY <1>0, <2>1, <2>2, <2>6, <3>2 DEF Held
    <3>. QED  BY <3>1, <3>2
  <2>7. CASE /\ Shows(rec', msg.ue, Append(rec.events, e), Completes(e))
             /\ Follows(rec, msg.ue) /\ ~Refused(e)
    <3>1. /\ Len(rec'.events) = Len(rec.events) + 1 /\ rec'.ue = msg.ue
          /\ rec.ue = msg.ue /\ ~rec.complete /\ ~reject
          /\ ~rec'.complete => msg.step # "release_complete"
      <4>1. /\ rec'.events = Append(rec.events, e) /\ rec'.ue = msg.ue
            /\ rec'.complete = Completes(e) /\ rec.ue = msg.ue /\ ~rec.complete
        BY <2>7 DEF Shows, Follows
      <4>2. ~reject /\ (Completes(e) <=> msg.step = "release_complete")
        BY <2>1, <2>7 DEF Refused, Completes
      <4>3. Len(Append(rec.events, e)) = Len(rec.events) + 1
        BY <1>0, <2>3
      <4>. QED  BY <4>1, <4>2, <4>3
    <3>2. CASE msg.own
      BY <2>1, <2>3, <2>4, <3>1, <3>2 DEF Held
    <3>3. CASE ~msg.own
      BY <1>0, <2>1, <2>2, <2>3, <3>1, <3>3 DEF Held
    <3>. QED  BY <3>2, <3>3
  <2>. QED  BY <1>0, <2>1, <2>3, <2>5, <2>6, <2>7, RecordOutcomes
<1>4. ASSUME NEW u \in UEs, NEW c \in Cells, Vanish(u, c)
      PROVE  Held'
  <2>1. /\ rec' = rec /\ msg' = msg
        /\ leg' = [leg EXCEPT ![u][c] = "none"]
        /\ vanished' = IF Legs(u) = {c} THEN vanished \cup {u} ELSE vanished
        /\ leg[u][c] # "none"
    BY <1>4 DEF Vanish
  <2>2. \A w \in UEs, d \in Cells :
          leg'[w][d] = IF w = u /\ d = c THEN "none" ELSE leg[w][d]
    BY <2>1 DEF FlowInv, FlowTypes
  <2>3. c \in Legs(u)
    BY <2>1 DEF Legs
  <2>4. CASE Legs(u) = {c}
    BY <1>0, <2>1, <2>2, <2>4 DEF Held
  <2>5. CASE Legs(u) # {c}
    <3>1. PICK d \in Cells \ {c} : leg[u][d] # "none"
      BY <2>3, <2>5 DEF Legs
    <3>. QED  BY <1>0, <2>1, <2>2, <2>5, <3>1 DEF Held
  <2>. QED  BY <2>4, <2>5
<1>5. ASSUME RequestTraceReset
      PROVE  Held'
  <2>1. rec'.ue = rec.ue /\ rec'.complete = rec.complete /\ rec'.events = rec.events
    BY <1>5, <1>0 DEF RequestTraceReset, RecorderOK, Recorders
  <2>. QED  BY <1>5, <2>1 DEF RequestTraceReset, Held
<1>6. ASSUME \/ \E k \in Links : FAccept(k)
             \/ \E u \in UEs, c \in Cells : VanishAtOnce(u, c)
      PROVE  Held'
  BY <1>6 DEF FAccept, VanishAtOnce, Held
<1>7. ASSUME FRestart
      PROVE  Held'
  BY <1>7 DEF FRestart, Held, Unlocked
<1>. QED  BY <1>1, <1>2, <1>3, <1>4, <1>5, <1>6, <1>7 DEF FNext, Late

-----------------------------------------------------------------------------
(* Theorems about the recorder *)

\* Without its recorder and its UEs, an action of the call flows is one of the DU.
LEMMA FlowStepIsDUStep ==
  ASSUME FlowTypes, FNext
  PROVE  [Next]_vars
<1>1. ASSUME NEW k \in Links,
             \/ \E o \in owed : Late(k, o)
             \/ \E u \in UEs, c \in Cells, s \in Steps : Uplink(k, u, c, s)
      PROVE  UNCHANGED vars
  BY <1>1 DEF Late, AbandonedRelease, LateUplink, Uplink, Receive
<1>2. ASSUME NEW reject \in BOOLEAN, Answer(reject)
      PROVE  Next
  <2>1. /\ msg.link \in Links /\ msg.ue \in UEs /\ msg.cell \in Cells /\ Dispatch(msg, reject)
    BY <1>2, UplinkIsNotIdle DEF Answer, FlowTypes
  <2>2. \/ Setup(msg.link, msg.ue, msg.cell) \/ Measurement(msg.link, msg.ue, msg.cell)
        \/ Release(msg.link, msg.ue, msg.cell) \/ Other(msg.link, msg.cell)
    BY <2>1 DEF Dispatch
  <2>. QED  BY <2>1, <2>2 DEF Next
<1>3. ASSUME \/ \E u \in UEs, c \in Cells : Vanish(u, c) \/ VanishAtOnce(u, c)
             \/ RequestTraceReset
      PROVE  UNCHANGED vars
  BY <1>3 DEF Vanish, VanishAtOnce, RequestTraceReset, vars
<1>4. ASSUME (\E k \in Links : FAccept(k)) \/ FRestart
      PROVE  Next
  BY <1>4 DEF FAccept, FRestart, Next
<1>. QED  BY <1>1, <1>2, <1>3, <1>4 DEF FNext, Late

RecorderInv == IInv /\ FlowInv /\ LadderInv /\ Held

LEMMA RecorderInvInit == FInit => RecorderInv
<1> SUFFICES ASSUME FInit
             PROVE  RecorderInv
  OBVIOUS
<1>1. IInv
  BY InitIInv DEF FInit
<1>2. FlowInv
  BY DEF FInit, FlowInv, FlowTypes, LegAwaits, LegSteps
<1>3. rec = Unlocked
  BY DEF FInit
<1>4. LadderInv /\ Held
  BY <1>3, UnlockedOK DEF LadderInv, Held, Unlocked
<1>. QED  BY <1>1, <1>2, <1>4 DEF RecorderInv

LEMMA RecorderInvStep == RecorderInv /\ [FNext]_flowVars => RecorderInv'
<1> SUFFICES ASSUME RecorderInv, [FNext]_flowVars
             PROVE  RecorderInv'
  OBVIOUS
<1>1. CASE FNext
  <2>1. IInv /\ FlowInv /\ LadderInv /\ Held /\ FlowTypes
    BY DEF RecorderInv, FlowInv
  <2>2. IInv'
    BY <1>1, <2>1, FlowStepIsDUStep, NextIInv
  <2>. QED  BY <1>1, <2>1, <2>2, FlowInvStep, LadderStep, HeldStep DEF RecorderInv
<1>2. CASE UNCHANGED flowVars
  <2>1. UNCHANGED vars /\ UNCHANGED <<rec, msg, leg, owed, vanished>>
    BY <1>2 DEF flowVars, vars
  <2>2. IInv'
    BY <2>1, NextIInv DEF RecorderInv
  <2>. QED  BY <2>1, <2>2 DEF RecorderInv, FlowInv, FlowTypes, OwedSocket, LegAwaits,
         LadderInv, Held
<1>. QED  BY <1>1, <1>2

LEMMA RecorderInvariance == FSpec => []RecorderInv
BY RecorderInvInit, RecorderInvStep, PTL DEF FSpec

\* The recorder and the UEs' call flows only drive the DU of module DU: what
\* is proved of it holds of their runs (du_server.py:223-277 changes no cell).
THEOREM RecorderOnlyObserves == FSpec => Spec
<1>1. FInit => Init
  BY DEF FInit
<1>2. RecorderInv /\ [FNext]_flowVars => [Next]_vars
  <2>1. UNCHANGED flowVars => UNCHANGED vars
    BY DEF flowVars, vars
  <2>. QED  BY <2>1, FlowStepIsDUStep DEF RecorderInv, FlowInv
<1>. QED  BY <1>1, <1>2, RecorderInvariance, PTL DEF FSpec, Spec

\* What the dashboard reads is always one clean call flow (du_server.py:223-277).
THEOREM LadderIsClean == FSpec => []CleanLadder
<1>1. RecorderInv => CleanLadder
  BY DEF RecorderInv, LadderInv, RecorderOK, Clean, CleanLadder
<1>. QED  BY <1>1, RecorderInvariance, PTL

\* The recorder never holds on to a UE whose call flow is over
\* (du_server.py:223-277).
THEOREM LockIsFreed == FSpec => []LockHeldForReason
<1>1. RecorderInv => LockHeldForReason
  BY DEF RecorderInv, Held, LockHeldForReason, Legs
<1>. QED  BY <1>1, RecorderInvariance, PTL

\* A complete ladder is frozen until a reset, and the message after a reset
\* takes it away (du_server.py:230).
THEOREM LadderIsFrozen == FSpec => FrozenUntilReset
<1> DEFINE A == rec.json.complete =>
                  /\ rec'.json # rec.json => rec.reset \/ FRestart
                  /\ rec.reset /\ msg' # msg => ~rec'.json.complete
<1>1. RecorderInv /\ [FNext]_flowVars => [A]_flowVars
  <2> SUFFICES ASSUME RecorderInv, FNext, rec.json.complete
               PROVE  /\ rec'.json # rec.json => rec.reset \/ FRestart
                      /\ rec.reset /\ msg' # msg => ~rec'.json.complete
    OBVIOUS
  <2>0. FlowInv /\ RecorderOK(rec) /\ rec.complete /\ rec.ue # NoUe
    BY DEF RecorderInv, LadderInv, RecorderOK
  <2>1. ~Unlocked.json.complete
    BY DEF Unlocked, EmptyLadder
  <2>2. ASSUME NEW u \in UEs, NEW e \in Rungs, rec' = Record(rec, u, e)
        PROVE  /\ rec'.json # rec.json => rec.reset
               /\ rec.reset => ~rec'.json.complete
    <3>1. ~Follows(rec, u)
      BY <2>0 DEF Follows
    <3>2. Shows(rec', u, <<e>>, FALSE) => ~rec'.json.complete
      BY DEF Shows
    <3>. QED  BY <2>0, <2>1, <2>2, <3>1, <3>2, RecordOutcomes
  <2>3. ASSUME NEW k \in Links,
               \/ \E o \in owed : Late(k, o)
               \/ \E u \in UEs, c \in Cells, s \in Steps : Uplink(k, u, c, s)
        PROVE  \E u \in UEs, e \in Rungs : rec' = Record(rec, u, e)
    <3>1. /\ rec' = Record(rec, msg'.ue, Event(msg', "up", FALSE))
          /\ Event(msg', "up", FALSE) \in Rungs /\ msg'.ue \in UEs
      BY <2>0, <2>3, Received, ReceivedLate, UplinkIsNotIdle DEF Event, Rungs, FlowInv
    <3>. QED  BY <3>1
  <2>4. ASSUME NEW reject \in BOOLEAN, Answer(reject)
        PROVE  \E u \in UEs, e \in Rungs : rec' = Record(rec, u, e)
    <3>1. /\ rec' = Record(rec, msg.ue, Event(msg, "down", reject))
          /\ Event(msg, "down", reject) \in Rungs /\ msg.ue \in UEs
      BY <2>0, <2>4, Answered, UplinkIsNotIdle DEF Event, Rungs
    <3>. QED  BY <3>1
  <2>5. ASSUME \/ \E u \in UEs, c \in Cells : Vanish(u, c) \/ VanishAtOnce(u, c)
               \/ RequestTraceReset
               \/ \E k \in Links : FAccept(k)
        PROVE  rec'.json = rec.json /\ msg' = msg
    <3>1. CASE RequestTraceReset
      BY <2>0, <3>1 DEF RequestTraceReset, RecorderOK, Recorders
    <3>2. CASE ~RequestTraceReset
      BY <2>5, <3>2 DEF Vanish, VanishAtOnce, FAccept
    <3>. QED  BY <3>1, <3>2
  <2>6. ASSUME FRestart
        PROVE  ~rec'.json.complete
    BY <2>1, <2>6 DEF FRestart
  <2>. QED  BY <2>2, <2>3, <2>4, <2>5, <2>6 DEF FNext, Late
<1>. QED  BY <1>1, RecorderInvariance, PTL DEF FSpec, FrozenUntilReset
=============================================================================
