------------------------------- MODULE Dictionary -------------------------------
(***************************************************************************)
(* The dictionary each radio unit keeps of its UEs                         *)
(* (poc_StressTest/common/ru_dictionary.py): a row per ue_id, which        *)
(* serve_ue writes before and after every request to the DU and removes    *)
(* when it ends (poc_StressTest/ru/ru_server.py).  A UE that hands over    *)
(* between two sectors of one radio unit has two serve_ue's at work on its *)
(* one row.  Each action here is one of module Stack with what it does to  *)
(* the rows; only grants are told from no grants.                          *)
(***************************************************************************)
EXTENDS Stack

VARIABLE rows       \* rows[s][u]: the row of u at radio unit s, NoRow if none

dictVars == <<vars, rows>>

NoRow == [cell |-> None, grant |-> "none"]

\* note_uplink: a row for the cell, which keeps the grant of the one before.
NoteUplink(row, c) == [cell |-> c, grant |-> row.grant]

\* What note_downlink reads in a reply: a grant, a cause without one, neither.
GrantOf(r) ==
  CASE r.kind \in {"setup", "measure"} -> IF r.ok THEN "granted" ELSE "zero"
    [] r.kind = "data" /\ ~r.ok        -> "zero"
    [] r.kind = "release"              -> "zero"
    [] OTHER                           -> "keep"

\* Mutant: a reply that says nothing of PRBs overwrites the grant.
NoteDownlinkVerbatim(row, c, r) == [cell |-> c, grant |-> GrantOf(r)]

\* note_downlink: makes the row if there is none.
NoteDownlink(row, c, r) ==
  [cell |-> c, grant |-> IF GrantOf(r) = "keep" THEN row.grant ELSE GrantOf(r)]

Row(a) == rows[SiteOf[uu[a].cell]][uu[a].ue]

\* Writing, or removing, the row of the UE behind socket a.
SetRow(a, row) == rows' = [rows EXCEPT ![SiteOf[uu[a].cell]][uu[a].ue] = row]

-----------------------------------------------------------------------------
DInit == Init /\ rows = [s \in Sites |-> [u \in UEs |-> NoRow]]

DUplink(a) == Uplink(a) /\ SetRow(a, NoteUplink(Row(a), uu[a].cell))

\* Mutant: the row of a UE that vanished stays.
DHangupKeepingRow(a) == (Hangup(a) \/ RequestFailed(a)) /\ UNCHANGED rows

\* serve_ue's finally clause, if it has ever heard a ue_id.
DHangup(a) ==
  /\ Hangup(a) \/ RequestFailed(a)
  /\ IF uu[a].ru = "new" THEN UNCHANGED rows ELSE SetRow(a, NoRow)

\* A reply is noted; then serve_ue ends if it was the last one or cannot be
\* sent.  The reply to its own release request it does not look at.
DReply(s) ==
  /\ Reply(s)
  /\ LET r == Head(back[f1[s]])
         a == r.uu
     IN IF uu[a].ru # "f1" THEN UNCHANGED rows
        ELSE SetRow(a, IF uu'[a].ru = "recv" THEN NoteDownlink(Row(a), uu[a].cell, r)
                       ELSE NoRow)

\* The rest of Stack's steps are not the radio unit's, or do not touch a row.
Unnoted ==
  \/ \E t \in Tasks : TaskStep(t) \/ End(t) \/ Cancel(t)
  \/ \E t \in Tasks, kind \in {"measure", "data"} : Report(t, kind)
  \/ \E t \in Tasks, a \in Uus, c \in Cells : Start(t, a, c) \/ Handover(t, a, c)
  \/ \E s \in Sites : Resume(s) \/ LinkLost(s) \/ \E k \in Links : Connect(s, k)
  \/ \E k \in Links : Handle(k) \/ LinkEnd(k)
  \/ Restart
  \/ Spent

DNext ==
  \/ \E a \in Uus : DUplink(a) \/ DHangup(a)
  \/ \E s \in Sites : DReply(s)
  \/ Unnoted /\ UNCHANGED rows

DSpec == DInit /\ [][DNext]_dictVars

DFairSpec == DSpec /\ Fairness

-----------------------------------------------------------------------------
\* Types: those of Stack, and a row is about a cell of its radio unit.
DTypeOK ==
  /\ TypeOK
  /\ \A s \in Sites, u \in UEs :
       \/ rows[s][u] = NoRow
       \/ /\ rows[s][u].cell \in {c \in Cells : SiteOf[c] = s}
          /\ rows[s][u].grant \in {"none", "zero", "granted"}

\* No row outlives its UE's stay at the radio unit: a serve_ue is left that
\* will remove it, whichever of the sockets, link or DU have failed.
NoGhostRow ==
  \A s \in Sites, u \in UEs : rows[s][u] # NoRow =>
    \E a \in Uus : /\ uu[a].ue = u /\ uu[a].ru \in {"recv", "f1", "failed"}
                   /\ SiteOf[uu[a].cell] = s

\* A UE in session, and known to the DU, that its radio unit does not list.
InSession(t) == proc[t] \in {"connected", "measure", "data"}
Unlisted(t) ==
  /\ InSession(t)
  /\ LET c == uu[src[t]].cell
     IN DU!HasSession(Uid[t], c) /\ rows[SiteOf[c]][Uid[t]] # [cell |-> c, grant |-> "granted"]

\* A UE in session catches up with the network: if the DU has lost its session
\* behind its back, or its radio unit lists it wrongly or not at all, its next
\* measurement report at the latest ends the session or has it listed with its
\* cell and grant and known to the DU, both at once.
InStepInTheEnd ==
  \A t \in Tasks : Unserved(t) \/ Unlisted(t) ~> ~Unserved(t) /\ ~Unlisted(t)
=============================================================================
