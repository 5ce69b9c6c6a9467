------------------------------ MODULE DUCounters ------------------------------
(***************************************************************************)
(* The statistics the DU publishes in its snapshot (du_server.py:314-332): *)
(* admitted_total and released_total of every cell.  They are updated in   *)
(* the handlers of module DU, an admission in one place and a release in   *)
(* four, so each action here is the DU's together with its counting.       *)
(***************************************************************************)
EXTENDS DU

CONSTANT MaxCount     \* bound of the model on admissions per cell; no bound
                      \* in the code

VARIABLES
  admitted,     \* Cell.admitted_total
  released      \* Cell.released_total

countVars == <<used, prbs, open, connCells, admitted, released>>

One(b) == IF b THEN 1 ELSE 0

\* Mutant: a session handed over or replaced at setup is not counted released.
CountSetupNewOnly(u, c) ==
  /\ admitted' = [admitted EXCEPT ![c] = @ + One(prbs'[c][u] > 0)]
  /\ UNCHANGED released

\* handle_setup: every session of the UE goes through _release_ue, then the
\* new one is counted if it was granted.
CountSetup(u, c) ==
  /\ admitted' = [admitted EXCEPT ![c] = @ + One(prbs'[c][u] > 0)]
  /\ released' = [d \in Cells |-> released[d] + One(HasSession(u, d))]

\* A handler that takes one UE's session away, or leaves it: handle_release,
\* and handle_measurement, which counts a lost coverage.
CountLoss(u, c) ==
  /\ released' = [released EXCEPT ![c] = @ + One(HasSession(u, c) /\ prbs'[c][u] = 0)]
  /\ UNCHANGED admitted

\* serve_f1's cleanup releases, and so counts, session by session.
CountCleanup(k) ==
  /\ released' = [c \in Cells |->
       IF c \in connCells[k] THEN released[c] + Cardinality(Sessions(c))
       ELSE released[c]]
  /\ UNCHANGED admitted

CInit ==
  /\ Init
  /\ admitted = [c \in Cells |-> 0]
  /\ released = [c \in Cells |-> 0]

CSetup(k, u, c) ==
  /\ admitted[c] < MaxCount
  /\ Setup(k, u, c)
  /\ CountSetup(u, c)

CLoss(k, u, c) == (Measurement(k, u, c) \/ Release(k, u, c)) /\ CountLoss(u, c)

CLinkEnd(k) == LinkEnd(k) /\ CountCleanup(k)

CRestart ==
  /\ Restart
  /\ admitted' = [c \in Cells |-> 0]
  /\ released' = [c \in Cells |-> 0]

CNext ==
  \/ \E k \in Links, u \in UEs, c \in Cells : CSetup(k, u, c) \/ CLoss(k, u, c)
  \/ \E k \in Links : CLinkEnd(k)
  \/ (\E k \in Links : Accept(k)) /\ UNCHANGED <<admitted, released>>
  \/ (\E k \in Links, c \in Cells : Other(k, c)) /\ UNCHANGED <<admitted, released>>
  \/ CRestart

CSpec == CInit /\ [][CNext]_countVars

-----------------------------------------------------------------------------
\* Types: the counters are natural numbers.
CountersTypeOK ==
  admitted \in [Cells -> Nat] /\ released \in [Cells -> Nat]

\* What was admitted and not released is connected: the three numbers the
\* snapshot publishes for a cell always agree, whichever of the ways out
\* (release, re-attach, handover, lost coverage, lost link) a session takes.
CountersBalance ==
  \A c \in Cells : admitted[c] - released[c] = Cardinality(Sessions(c))
=============================================================================
