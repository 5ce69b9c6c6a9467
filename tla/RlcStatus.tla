------------------------------- MODULE RlcStatus -------------------------------
(***************************************************************************)
(* The STATUS PDU of RLC AM (lib/rlc/rlc_am_pdu.cpp): the list of negative *)
(* acknowledgements the receiving side builds, how neighbouring ones are   *)
(* merged into ranges, how a report is cut to fit a small grant, and how   *)
(* the transmitting side takes the ranges apart again.                     *)
(*                                                                         *)
(* A nack is [sn, range, from, to]: the bytes from `from' of SDU sn to `to'*)
(* of SDU sn + range - 1, EndOfSdu standing for the last byte.  The flags  *)
(* has_so and has_nack_range follow from the values.  The size of a report *)
(* is its number of nacks: every number of nacks is what some grant fits.  *)
(***************************************************************************)
EXTENDS Integers, SequencesExt

CONSTANT Window    \* size of the AM window, half the SN space

ASSUME WindowAssumption == Window \in Nat \ {0, 1}

Mod == 2 * Window
EndOfSdu == 65535

Nack(sn, from, to) == [sn |-> sn, range |-> 1, from |-> from, to |-> to]
LastSn(nack) == (nack.sn + nack.range - 1) % Mod

CanBeMerged(left, right) ==
    /\ right.sn = (left.sn + left.range) % Mod
    /\ left.to = EndOfSdu
    /\ right.from = 0
    /\ left.range + right.range <= 255

PushNack(nacks, nack) ==
    IF nacks # <<>> /\ CanBeMerged(Last(nacks), nack)
    THEN Append(Front(nacks), [Last(nacks) EXCEPT !.range = @ + nack.range,
                                                  !.to = nack.to])
    ELSE Append(nacks, nack)

\* A report cut to its first k nacks.  Nacks go from the back, the ACK_SN
\* becomes that of the last one taken off, and one that starts at it goes too.
Trim(report, k) ==
    IF k >= Len(report.nacks) THEN report
    ELSE LET Cut(j) == report.nacks[j + 1].sn
             j == Max({ i \in 0 .. k : i = 0 \/ report.nacks[i].sn # Cut(i) })
         IN [report EXCEPT !.ack = Cut(j), !.nacks = SubSeq(@, 1, j)]

\* The nacks of single SDUs a range stands for, up to the ACK_SN.
Unranged(nack, ack) ==
    LET upto == Min({nack.range, (ack - nack.sn) % Mod})
    IN [i \in 1 .. upto |->
           Nack((nack.sn + i - 1) % Mod,
                IF i = 1 THEN nack.from ELSE 0,
                IF i = nack.range THEN nack.to ELSE EndOfSdu)]

Items(report) ==
    FlattenSeq([i \in DOMAIN report.nacks |->
                   Unranged(report.nacks[i], report.ack)])
=============================================================================
