------------------------------ MODULE MCCallFlow ------------------------------
(***************************************************************************)
(* A small instance of module CallFlow: two UEs, two sectors of a site,    *)
(* its one F1 link; one PRB per cell, so that the UEs refuse each other; a *)
(* shortened attach.                                                       *)
(***************************************************************************)
EXTENDS CallFlow

MCCarried == [k \in Links |-> Cells]
ShortFlow == <<"rrc_setup", "context_setup">>
Symmetry == Permutations(UEs) \cup Permutations(Cells)

\* A state is about a UE on a cell if a socket, a session or the ladder is.
About(u, c) ==
  \/ leg[u][c] # "none" \/ prbs[c][u] > 0
  \/ \E o \in owed : o.ue = u /\ o.cell = c
  \/ \E r \in {rec, rec.json} : r.ue = u /\ \E i \in 1..Len(r.events) : r.events[i].cell = c

\* Two UEs contend for one cell, or one UE goes back and forth between two.
OneUeOrCell ==
  \/ \E u \in UEs : \A o \in UEs \ {u}, c \in Cells : ~About(o, c)
  \/ \E c \in Cells : \A u \in UEs, d \in Cells \ {c} : ~About(u, d)

\* Two sockets at a time, those a UE has let go of included.
TwoSockets ==
  Cardinality(owed)
    + Cardinality({p \in UEs \X Cells : leg[p[1]][p[2]] # "none"}) <= 2

Bounds == TwoSockets /\ OneUeOrCell
=============================================================================
