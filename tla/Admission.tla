------------------------------- MODULE Admission -------------------------------
(***************************************************************************)
(* What the DU promises the network (du_server.py:1-16, :103): a UE holds  *)
(* PRBs of at most one cell, a cell never hands out more than it has, a UE *)
(* moves between cells in one step, and only the loss of a connection      *)
(* takes PRBs from several UEs at once.  There are no counters and no      *)
(* messages here; module DU is shown to implement this.                    *)
(***************************************************************************)
EXTENDS Integers, FiniteSets

CONSTANTS UEs, Cells, TotalPrbs, Nothing

VARIABLE grant      \* UE -> Nothing, or the cell and the number of PRBs

\* The PRBs that the UEs of S hold on cell c.
Held(S, c) ==
  {g \in S \X (1..TotalPrbs) :
     /\ grant[g[1]] # Nothing
     /\ grant[g[1]].cell = c
     /\ g[2] <= grant[g[1]].prbs}

Init == grant = [u \in UEs |-> Nothing]

\* A UE gets n PRBs of a cell, in place of what it held there or elsewhere.
Grant(u, c, n) ==
  /\ Cardinality(Held(UEs \ {u}, c)) + n <= TotalPrbs
  /\ grant' = [grant EXCEPT ![u] = [cell |-> c, prbs |-> n]]

\* One UE is released, refused or out of coverage.
Lose(u) == grant' = [grant EXCEPT ![u] = Nothing]

\* The backhaul of some cells is lost, and with it everyone on them.
LoseCells(cs) ==
  grant' = [u \in UEs |-> IF grant[u] # Nothing /\ grant[u].cell \in cs
                          THEN Nothing ELSE grant[u]]

Next ==
  \/ \E u \in UEs, c \in Cells, n \in 1..TotalPrbs : Grant(u, c, n)
  \/ \E u \in UEs : Lose(u)
  \/ \E cs \in SUBSET Cells : LoseCells(cs)

Spec == Init /\ [][Next]_grant
=============================================================================
