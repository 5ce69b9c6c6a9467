---------------------------------- MODULE DU ----------------------------------
(***************************************************************************)
(* The Distributed Unit (poc_StressTest/du/du_server.py): admission        *)
(* control and the pool of physical resource blocks (PRBs) of every cell,  *)
(* driven by the F1 connections of the radio units.                        *)
(*                                                                         *)
(* The DU is a single-threaded asyncio process and no handler awaits, so a *)
(* handler is one step.  The serve_f1 coroutines interleave between        *)
(* messages: each has its own set conn_cells of the cells it has carried,  *)
(* and its cleanup runs whenever its connection is seen to end, possibly   *)
(* after the same radio unit has connected again.                          *)
(*                                                                         *)
(* This is the open system: any message a radio unit can relay may arrive  *)
(* on any open connection.  Who sends what, and in which order, is the     *)
(* business of module Stack.                                               *)
(***************************************************************************)
EXTENDS Integers, FiniteSets

CONSTANTS
  UEs,          \* ue_id's
  Cells,        \* cell ids; a cell never heard of is one with nothing in use
  Links,        \* serve_f1 coroutines, one per F1 connection
  Carried,      \* Carried[k]: the sectors of the radio unit behind link k
  TotalPrbs,    \* TOTAL_PRBS, the pool of one cell
  Required,     \* the PRB demands prbs_for_traffic can return
  NoCoverage    \* ... or None, when the spectral efficiency is zero

ASSUME UEsAssumption == IsFiniteSet(UEs)
ASSUME CarriedAssumption == Carried \in [Links -> SUBSET Cells]
ASSUME TotalAssumption == TotalPrbs \in Nat
\* rf_model: required = max(min_prbs, ceil(..)) with min_prbs = 1, or 1..2
ASSUME RequiredAssumption == Required \subseteq Nat \ {0}
ASSUME NoCoverageAssumption ==
  NoCoverage \notin Nat /\ NoCoverage \notin [cell : Cells, prbs : Nat]

VARIABLES
  used,         \* Cell.used_prbs
  prbs,         \* Cell.sessions[ue]["prbs"], 0 when the UE has no session
  open,         \* links whose serve_f1 is in its receive loop
  connCells     \* conn_cells of each link

pool == <<used, prbs>>
vars == <<used, prbs, open, connCells>>

-----------------------------------------------------------------------------
(* State functions of the source *)

FreePrbs(c) == TotalPrbs - used[c]

HasSession(u, c) == prbs[c][u] > 0

\* The UEs that hold something, and the PRBs they hold numbered within each
\* UE's share, for an assignment f of PRBs to UEs.  Counting a set of PRBs
\* needs no recursive sum.
Holders(f) == {u \in UEs : f[u] > 0}
Units(f) == {g \in UEs \X (1..TotalPrbs) : g[2] <= f[g[1]]}

Sessions(c) == Holders(prbs[c])     \* the keys of Cell.sessions
Granted(c) == Units(prbs[c])        \* what used_prbs is meant to count

\* Mutant: the new demand is checked against an off-by-one pool.
AdmissibleOffByOne(u, c, need) ==
  need # NoCoverage /\ need <= FreePrbs(c) + prbs[c][u] + 1

\* handle_setup's verdict: the reply is a Context Setup or a Reject.  The old
\* session of the UE on this cell is released before the pool is asked.
Admissible(u, c, need) ==
  need # NoCoverage /\ need <= FreePrbs(c) + prbs[c][u]

\* Mutant: a congested re-grant is not capped by the free PRBs.
RegrantUncapped(u, c, need) == need

\* The grant handle_measurement settles on: a larger one as far as the pool
\* allows, a smaller one always.
Regrant(u, c, need) ==
  IF need > prbs[c][u]
  THEN prbs[c][u] + (IF need - prbs[c][u] <= FreePrbs(c)
                     THEN need - prbs[c][u] ELSE FreePrbs(c))
  ELSE need

-----------------------------------------------------------------------------
(* Changes of the pool *)

\* Mutant: the session is popped, its PRBs are not given back.
ReleaseUeOnLeaking(u, cs) ==
  /\ prbs' = [c \in Cells |->
                IF c \in cs THEN [prbs[c] EXCEPT ![u] = 0] ELSE prbs[c]]
  /\ UNCHANGED used

\* _release_ue for one UE on each cell of cs: pop the session if there is
\* one and give its PRBs back.
ReleaseUeOn(u, cs) ==
  /\ prbs' = [c \in Cells |->
                IF c \in cs THEN [prbs[c] EXCEPT ![u] = 0] ELSE prbs[c]]
  /\ used' = [c \in Cells |->
                IF c \in cs THEN used[c] - prbs[c][u] ELSE used[c]]

\* handle_setup: release the UE everywhere, then grant or refuse.
HandleSetup(u, c, need) ==
  LET grant == IF Admissible(u, c, need) THEN need ELSE 0
  IN /\ prbs' = [d \in Cells |-> [prbs[d] EXCEPT ![u] = IF d = c THEN grant ELSE 0]]
     /\ used' = [d \in Cells |->
                   (used[d] - prbs[d][u]) + (IF d = c THEN grant ELSE 0)]

\* handle_measurement: no session, nothing changes (the reply is a Reject);
\* no coverage any more, the session goes; else its grant is re-evaluated.
HandleMeasurement(u, c, need) ==
  \/ /\ ~HasSession(u, c)
     /\ UNCHANGED pool
  \/ /\ HasSession(u, c)
     /\ need = NoCoverage
     /\ ReleaseUeOn(u, {c})
  \/ /\ HasSession(u, c)
     /\ need # NoCoverage
     /\ LET new == Regrant(u, c, need)
        IN /\ prbs' = [prbs EXCEPT ![c][u] = new]
           /\ used' = [used EXCEPT ![c] = @ + (new - prbs[c][u])]

\* The cleanup of serve_f1: every session of every cell the link has carried.
ReclaimCells(cs) ==
  /\ prbs' = [c \in Cells |-> IF c \in cs THEN [u \in UEs |-> 0] ELSE prbs[c]]
  /\ used' = [c \in Cells |->
                IF c \in cs THEN used[c] - Cardinality(Granted(c)) ELSE used[c]]

\* handle_release
HandleRelease(u, c) == ReleaseUeOn(u, {c})

\* handle_data and handle_passthrough answer without touching the pool.
HandleOther == UNCHANGED pool

-----------------------------------------------------------------------------
Init ==
  /\ used = [c \in Cells |-> 0]
  /\ prbs = [c \in Cells |-> [u \in UEs |-> 0]]
  /\ open = {}
  /\ connCells = [k \in Links |-> {}]

\* A radio unit connects; its serve_f1 starts with an empty conn_cells.
Accept(k) ==
  /\ k \notin open
  /\ open' = open \cup {k}
  /\ connCells' = [connCells EXCEPT ![k] = {}]
  /\ UNCHANGED pool

\* Mutant: conn_cells only remembers the last serving cell of the link.
OnLinkLastCell(k, c) ==
  /\ k \in open
  /\ c \in Carried[k]
  /\ connCells' = [connCells EXCEPT ![k] = {c}]
  /\ UNCHANGED open

\* What every turn of serve_f1's loop does around dispatch.
OnLink(k, c) ==
  /\ k \in open
  /\ c \in Carried[k]
  /\ connCells' = [connCells EXCEPT ![k] = @ \cup {c}]
  /\ UNCHANGED open

Setup(k, u, c) ==
  /\ OnLink(k, c)
  /\ \E need \in Required \cup {NoCoverage} : HandleSetup(u, c, need)

Measurement(k, u, c) ==
  /\ OnLink(k, c)
  /\ \E need \in Required \cup {NoCoverage} : HandleMeasurement(u, c, need)

Release(k, u, c) == OnLink(k, c) /\ HandleRelease(u, c)

Other(k, c) == OnLink(k, c) /\ HandleOther

\* The connection ends (EOF, reset, or a reply that cannot be sent).
LinkEnd(k) ==
  /\ k \in open
  /\ ReclaimCells(connCells[k])
  /\ open' = open \ {k}
  /\ connCells' = [connCells EXCEPT ![k] = {}]

\* The container restarts (restart: unless-stopped): all of it is memory.
Restart ==
  /\ open # {}
  /\ used' = [c \in Cells |-> 0]
  /\ prbs' = [c \in Cells |-> [u \in UEs |-> 0]]
  /\ open' = {}
  /\ connCells' = [k \in Links |-> {}]

Next ==
  \/ \E k \in Links : Accept(k) \/ LinkEnd(k)
  \/ \E k \in Links, c \in Cells : Other(k, c)
  \/ \E k \in Links, u \in UEs, c \in Cells :
       Setup(k, u, c) \/ Measurement(k, u, c) \/ Release(k, u, c)
  \/ Restart

Spec == Init /\ [][Next]_vars

-----------------------------------------------------------------------------
(* Properties *)

\* Types of the DU's state: PRB counts are natural numbers.
TypeOK ==
  /\ used \in [Cells -> Nat]
  /\ prbs \in [Cells -> [UEs -> 0..TotalPrbs]]
  /\ open \subseteq Links
  /\ connCells \in [Links -> SUBSET Cells]

\* used_prbs, which every handler adjusts incrementally, is always exactly
\* the PRBs the sessions hold: no path loses or double-counts a grant.
PoolExact == \A c \in Cells : used[c] = Cardinality(Granted(c))

\* The sessions of a cell never hold more PRBs than the cell has, whatever
\* order admissions, mobility re-grants and releases come in.
PoolBounded == \A c \in Cells : Cardinality(Granted(c)) <= TotalPrbs

\* "A UE may only be admitted on one cell" (du_server.py:103), also in the
\* middle of a make-before-break handover and after a lost link.
OneCell ==
  \A u \in UEs, c, d \in Cells : HasSession(u, c) /\ HasSession(u, d) => c = d

\* The pool is sound: exact, bounded, and no UE has a part of two cells'.
PoolSound == PoolExact /\ PoolBounded /\ OneCell

\* No session outlives the F1 links that carried its cell: when the last of
\* them ends the cleanup has reclaimed the cell ("every UE it served is gone,
\* reclaim their PRBs", du_server.py:299).
SessionsHaveLink ==
  \A c \in Cells : Sessions(c) # {} => \E k \in open : c \in connCells[k]

\* A step without the end of a link changes the grants of at most one UE.
OneUeAtMost ==
  open \subseteq open' =>
    \A u, w \in UEs :
      (\E c, d \in Cells : prbs'[c][u] # prbs[c][u] /\ prbs'[d][w] # prbs[d][w])
      => u = w

\* One UE's signalling never changes another UE's grant: each handler works on
\* the ue_id of its message only, and only a link's cleanup touches many.
NoCrossTalk == [][OneUeAtMost]_vars

-----------------------------------------------------------------------------
(* The DU implements module Admission *)

\* What a UE holds, as the promise sees it: the cell it has a session on and
\* the PRBs of that session.
GrantOf(u) ==
  LET at == {c \in Cells : HasSession(u, c)}
  IN IF at = {} THEN NoCoverage
     ELSE LET c == CHOOSE d \in at : TRUE IN [cell |-> c, prbs |-> prbs[c][u]]

grants == [u \in UEs |-> GrantOf(u)]

Promise == INSTANCE Admission WITH grant <- grants, Nothing <- NoCoverage

\* Every handler, seen from outside, is one atomic grant, loss or move that
\* respects the capacity, although the DU only keeps counters.
ImplementsAdmission == Promise!Spec
=============================================================================
