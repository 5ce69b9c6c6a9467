-------------------------------- MODULE MCStack --------------------------------
(***************************************************************************)
(* Small instances of module Stack.  A radio unit has two link identities: *)
(* the one in use, and one the DU may not have seen the end of.            *)
(***************************************************************************)
EXTENDS Stack, TLC

\* One step before the admission, as three steps that do nothing at the DU are
\* like one, and one after it.
ShortFlow == <<"other", "setup", "other">>

\* With no step after the admission, for liveness: a report repeats its await.
ShortestFlow == <<"other", "setup">>

LinksOfSites == Sites \X {1, 2}
OwnSite == [k \in Links |-> k[1]]
First == [s \in Sites |-> <<s, 1>>]

\* All cells are sectors of one radio unit, or each is a radio unit.
OneSite == [c \in Cells |-> CHOOSE s \in Sites : TRUE]
SitePerCell == Cells
ItsOwnSite == [c \in Cells |-> c]

\* The tasks run one uid (a task spawned again), or each its own.
OneUe == [t \in Tasks |-> CHOOSE u \in UEs : TRUE]
UePerTask == Tasks
OwnUe == [t \in Tasks |-> t]

Symmetry == Permutations(Cells) \cup Permutations(Tasks)
=============================================================================
