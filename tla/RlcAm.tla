--------------------------------- MODULE RlcAm ---------------------------------
(***************************************************************************)
(* The acknowledged mode of RLC (lib/rlc/rlc_tx_am_entity.cpp,             *)
(* rlc_rx_am_entity.cpp): a transmitting entity, a receiving one, and the  *)
(* lower layer between them, which loses and reorders data PDUs and STATUS *)
(* PDUs.  Every handler is one step; module RlcThreads takes the ones that *)
(* run on different executors apart.                                       *)
(*                                                                         *)
(* An SDU is a number n with Length[n] bytes.  The k-th SDU to get a       *)
(* sequence number gets (start + k) % Mod; k is written on the PDUs and in *)
(* the windows for the properties only, and no step looks at it except     *)
(* Timely, the assumption on how late the lower layer may deliver.  A      *)
(* grant is the number of payload bytes, or of nacks, it fits.             *)
(***************************************************************************)
EXTENDS RlcStatus, FiniteSets, Bags

CONSTANTS
    Length,        \* the SDUs' lengths in bytes: a sequence
    Starts,        \* the sequence numbers the first of them may get
    MaxRetx,       \* max_retx_thresh
    PollPdu,       \* poll_pdu, 0 for off
    PollByte,      \* poll_byte, 0 for off
    MaxWindow,     \* max_window, the virtual window; 0 for none
    MaxSnPerStatus,\* max_sn_per_status
    MaxGrant,      \* bound: payload bytes of a grant
    MaxInFlight,   \* bound: PDUs in flight in either direction
    MaxLosses,     \* bound: PDUs lost
    MaxDiscards,   \* bound: SDUs discarded by PDCP
    MaxCount,      \* bound: the highest retx_count, past max_retx_thresh
    None

ASSUME RlcAssumption ==
    /\ Length \in Seq(1 .. EndOfSdu)
    /\ Starts \subseteq 0 .. Mod - 1
    /\ MaxSnPerStatus \in 1 .. Window
    /\ {MaxRetx, PollPdu, PollByte, MaxWindow, MaxLosses, MaxDiscards} \subseteq Nat
    /\ {MaxGrant, MaxInFlight} \subseteq Nat \ {0}
    /\ MaxCount >= MaxRetx
    /\ None \notin 0 .. Mod - 1

Sdus == DOMAIN Length
Sn == 0 .. Mod - 1
NotStarted == -1   \* RETX_COUNT_NOT_STARTED

VARIABLES
    start,      \* the sequence number of the first SDU
    submitted,  \* SDUs taken from PDCP so far
    tx,         \* the transmitting entity
    rx,         \* the receiving entity
    data,       \* bag of data PDUs in flight
    reports,    \* bag of STATUS PDUs in flight
    sent,       \* the SDUs that have a sequence number, in its order
    received,   \* times each k was delivered to the upper layer
    confirmed,  \* the k the transmitter has dropped as acknowledged
    lost,       \* PDUs lost so far
    discards,   \* SDUs discarded so far
    alarms,     \* what the upper layer was told: "max_retx", "protocol_failure"
    forgot      \* a retransmission t-PollRetransmit asked for was cleared unsent

env == <<data, reports, lost>>
vars == <<start, submitted, tx, rx, env, sent, received, confirmed, discards,
          alarms, forgot>>

--------------------------------------------------------------------------------
(* Sequence numbers and windows.                                            *)

\* tx_mod_base and rx_mod_base: the distance from the edge of the window.
Above(edge, sn) == (sn - edge) % Mod

HasSn(window, sn) == sn \in DOMAIN window
WithSn(window, sn, info) == [s \in DOMAIN window \cup {sn} |->
                                IF s = sn THEN info ELSE window[s]]
WithoutSns(window, sns) == [s \in DOMAIN window \ sns |-> window[s]]
EmptyWindow == [s \in {} |-> 0]

\* The SNs from one up to but not including another.
Between(from, to) == { sn \in Sn : Above(from, sn) < Above(from, to) }

WindowFull(t) ==
    \/ Cardinality(DOMAIN t.window) = Window
    \/ MaxWindow # 0 /\ Above(t.nextAck, t.next) > MaxWindow

LengthOf(t, sn) == Length[sent[t.window[sn].k]]

--------------------------------------------------------------------------------
(* The transmitting entity.                                                 *)

Live(entry) == ~entry.discarded

\* The queue with the discarded SDUs at its front popped.
LiveFront(queue) ==
    LET i == SelectInSeq(queue, Live)
    IN IF i = 0 THEN <<>> ELSE SubSeq(queue, i, Len(queue))

\* The retransmissions with those at the front popped whose SN has left.
PresentFront(t) ==
    LET Present(r) == HasSn(t.window, r.sn)
        i == SelectInSeq(t.retx, Present)
    IN IF i = 0 THEN <<>> ELSE SubSeq(t.retx, i, Len(t.retx))

\* What computing the buffer state changes: the pops at the two fronts.
BufferStateRead(t) ==
    [t EXCEPT !.queue = IF t.sus = None THEN LiveFront(@) ELSE @,
              !.retx = PresentFront(t)]

HandleSdu ==
    /\ submitted < Len(Length)
    /\ submitted' = submitted + 1
    /\ tx' = BufferStateRead([tx EXCEPT !.queue =
                 Append(@, [n |-> submitted + 1, discarded |-> FALSE])])
    /\ UNCHANGED <<start, rx, env, sent, received, confirmed, discards, alarms,
                   forgot>>

DiscardSdu ==
    /\ discards < MaxDiscards
    /\ discards' = discards + 1
    /\ \E i \in DOMAIN tx.queue :
          /\ Live(tx.queue[i])
          /\ tx' = BufferStateRead([tx EXCEPT !.queue[i].discarded = TRUE])
    /\ UNCHANGED <<start, submitted, rx, env, sent, received, confirmed, alarms,
                   forgot>>

\* As if the stalled window were forgotten.
ExhaustedIfEmpty(t) == t.queue = <<>> /\ t.retx = <<>> /\ t.sus = None

\* Nothing more can go out now: the buffers are empty or the window is full.
Exhausted(t) ==
    \/ t.queue = <<>> /\ t.retx = <<>> /\ t.sus = None
    \/ WindowFull(t)

\* get_polling_bit for new data, counting the PDU and its bytes.
NewPoll(t, sn, payload) ==
    LET pdus == t.pdus + 1
        bytes == t.bytes + payload
        poll == \/ PollPdu > 0 /\ pdus >= PollPdu
                \/ PollByte > 0 /\ bytes >= PollByte
                \/ Exhausted(t)
    IN [poll |-> poll,
        tx |-> IF poll
               THEN [t EXCEPT !.pdus = 0, !.bytes = 0, !.pollSn = sn,
                              !.pollTimer = TRUE]
               ELSE [t EXCEPT !.pdus = pdus, !.bytes = bytes]]

\* get_polling_bit for a retransmission, which leaves POLL_SN alone.
RetxPoll(t) ==
    [poll |-> Exhausted(t),
     tx |-> IF Exhausted(t)
            THEN [t EXCEPT !.pdus = 0, !.bytes = 0, !.pollTimer = TRUE]
            ELSE t]

DataPdu(sn, k, so, len, poll) ==
    [sn |-> sn, k |-> k, so |-> so, len |-> len, poll |-> poll]

\* si = full_sdu, and the segment that holds the last byte.
IsLast(pdu) == pdu.so + pdu.len = Length[sent[pdu.k]]
IsFull(pdu) == pdu.so = 0 /\ IsLast(pdu)

Transmit(pdu) ==
    /\ BagCardinality(data) < MaxInFlight
    /\ data' = data (+) SetToBag({pdu})
    /\ UNCHANGED <<reports, lost>>

\* build_new_pdu and build_first_sdu_segment.  The length of a whole SDU is
\* read after its buffer was moved into the window, so it counts no bytes.
PullNew(grant) ==
    /\ ~tx.halted /\ tx.retx = <<>> /\ tx.sus = None
    /\ tx.queue # <<>> /\ ~WindowFull(tx)
    /\ LET queue == LiveFront(tx.queue) IN
       IF queue = <<>>
       THEN tx' = [tx EXCEPT !.queue = <<>>] /\ UNCHANGED <<sent, env>>
       ELSE LET n == Head(queue).n
                k == Len(sent) + 1
                sn == tx.next
                whole == Length[n] <= grant
                t == [tx EXCEPT
                         !.queue = Tail(queue),
                         !.window = WithSn(@, sn, [k |-> k, nextSo |-> 0,
                                                   retx |-> NotStarted]),
                         !.sus = IF whole THEN None ELSE sn]
                polled == NewPoll(t, sn, IF whole THEN 0 ELSE grant)
                len == IF whole THEN Length[n] ELSE grant
            IN /\ sent' = Append(sent, n)
               /\ Transmit(DataPdu(sn, k, 0, len, polled.poll))
               /\ tx' = IF whole
                        THEN [polled.tx EXCEPT !.next = (@ + 1) % Mod]
                        ELSE [polled.tx EXCEPT !.window[sn].nextSo = grant]
    /\ UNCHANGED <<start, submitted, rx, received, confirmed, discards, alarms,
                   forgot>>

\* build_continued_sdu_segment.
PullContinued(grant) ==
    /\ ~tx.halted /\ tx.retx = <<>> /\ tx.sus # None
    /\ LET sn == tx.sus
           info == tx.window[sn]
           rest == LengthOf(tx, sn) - info.nextSo
           last == rest <= grant
           len == Min({rest, grant})
           polled == NewPoll([tx EXCEPT !.sus = IF last THEN None ELSE @],
                             tx.next, len)
       IN /\ Transmit(DataPdu(tx.next, info.k, info.nextSo, len, polled.poll))
          /\ tx' = [polled.tx EXCEPT
                       !.window[sn].nextSo = @ + len,
                       !.next = IF last THEN (@ + 1) % Mod ELSE @]
    /\ UNCHANGED <<start, submitted, rx, sent, received, confirmed, discards,
                   alarms, forgot>>

\* build_retx_pdu.
PullRetx(grant) ==
    /\ ~tx.halted /\ tx.retx # <<>>
    /\ LET queue == PresentFront(tx) IN
       IF queue = <<>>
       THEN tx' = [tx EXCEPT !.retx = <<>>] /\ UNCHANGED env
       ELSE LET r == Head(queue)
                len == Min({r.len, grant})
                complete == len = r.len
                info == tx.window[r.sn]
                t == [tx EXCEPT
                         !.retxSn = r.sn,
                         !.halted = complete /\ info.retx = MaxRetx,
                         !.retx = IF complete THEN Tail(queue)
                                  ELSE <<[r EXCEPT !.so = @ + len,
                                                   !.len = @ - len]>> \o Tail(queue)]
                polled == RetxPoll(t)
            IN /\ Transmit(DataPdu(r.sn, info.k, r.so, len, polled.poll))
               /\ tx' = polled.tx
    /\ UNCHANGED <<start, submitted, rx, sent, received, confirmed, discards,
                   alarms, forgot>>

--------------------------------------------------------------------------------
(* The transmitting entity: STATUS PDUs and t-PollRetransmit.               *)

Incremented(t, sn) ==
    [t EXCEPT !.window[sn].retx = IF @ = NotStarted THEN 0 ELSE @ + 1]
Decremented(t, sn) ==
    [t EXCEPT !.window[sn].retx = IF @ = NotStarted THEN @ ELSE @ - 1]

\* As if the nacks did not end the acknowledgements.
AckedUpToAckSn(t, report) ==
    { sn \in Between(t.nextAck, report.ack) : HasSn(t.window, sn) }

\* The SNs a report acknowledges: those below its first nack, or its ACK_SN,
\* up to the first that is not in the window.
Acked(t, report) ==
    LET stop == IF report.nacks = <<>> THEN report.ack ELSE report.nacks[1].sn
    IN { sn \in Between(t.nextAck, stop) :
            \A s \in Between(t.nextAck, sn) \cup {sn} : HasSn(t.window, s) }

WithAcked(t, sns) ==
    [t EXCEPT !.window = WithoutSns(@, sns),
              !.nextAck = (@ + Cardinality(sns)) % Mod]

\* The retransmission queue cleared, the counts of SNs not begun wound back.
Cleared(t) ==
    LET Rewind(u, r) ==
            IF u.retxSn = r.sn THEN u
            ELSE [IF HasSn(u.window, r.sn) THEN Decremented(u, r.sn) ELSE u
                  EXCEPT !.retxSn = r.sn]
    IN [FoldLeft(Rewind, t, t.retx) EXCEPT !.retx = <<>>, !.retxSn = None]

\* The last byte a nack asks for.
LastByte(t, item) ==
    CASE item.from = 0 /\ item.to = EndOfSdu -> LengthOf(t, item.sn) - 1
      [] item.from # 0 /\ item.to = EndOfSdu /\ item.sn = t.sus ->
             t.window[item.sn].nextSo - 1
      [] item.from # 0 /\ item.to = EndOfSdu /\ item.sn # t.sus ->
             LengthOf(t, item.sn) - 1
      [] OTHER -> item.to

\* A nack of bytes that were not yet sent is passed over.
Unsent(t, item) ==
    /\ item.sn = t.sus /\ item.from # 0 /\ item.to = EndOfSdu
    /\ item.from >= t.window[item.sn].nextSo

Malformed(t, item) ==
    LET length == LengthOf(t, item.sn) IN
    \/ item.from > LastByte(t, item)
    \/ item.from >= length
    \/ LastByte(t, item) >= length

InWindow(t, sn) == Above(t.nextAck, sn) <= Above(t.nextAck, t.next)

\* handle_nack: the retransmission a nack asks for is queued, unless the SN is
\* not in the window, nothing of it was sent, or the queue is full.
Taken(t, item) ==
    InWindow(t, item.sn) /\ ~Unsent(t, item) /\ Len(t.retx) < Window

Requested(t, item) ==
    LET length == LengthOf(t, item.sn)
        from == IF item.from > LastByte(t, item) \/ item.from >= length
                THEN 0 ELSE item.from
        to == Min({LastByte(t, item), length - 1})
    IN [sn |-> item.sn, so |-> from, len |-> to - from + 1]

\* The queue rebuilt from the nacks, each SN counted once.
Rebuilt(t, items) ==
    LET Take(acc, item) ==
            IF ~Taken(acc.tx, item) THEN acc
            ELSE LET u == [acc.tx EXCEPT !.retx = Append(@, Requested(acc.tx, item))]
                 IN [tx |-> IF acc.counted = item.sn THEN u
                            ELSE Incremented(u, item.sn),
                     counted |-> item.sn]
    IN FoldLeft(Take, [tx |-> t, counted |-> None], items).tx

ValidAck(t, ack) == Above(t.nextAck, ack) \in 1 .. Window
NotBeyond(t, ack) == Above(t.nextAck, ack) <= Above(t.nextAck, t.next + 1)

\* As if only the ACK_SN told an out-of-order report.
ValidNackUnchecked(t, ack, nack) == TRUE

ValidNack(t, ack, nack) ==
    \A sn \in {nack.sn, LastSn(nack)} :
       /\ Above(t.nextAck, sn) < Above(t.nextAck, ack)
       /\ Above(t.nextAck, sn) < Window
       /\ Above(t.nextAck, sn) <= Above(t.nextAck, t.next)

Accepted(t, report) ==
    /\ ValidAck(t, report.ack) /\ NotBeyond(t, report.ack)
    /\ \A i \in DOMAIN report.nacks : ValidNack(t, report.ack, report.nacks[i])

\* The timer of a poll the report answers is stopped.
PollAnswered(t, report) ==
    Above(t.nextAck, t.pollSn) < Above(t.nextAck, report.ack)

Handled(t, report) ==
    LET answered == IF PollAnswered(t, report)
                    THEN [t EXCEPT !.pollTimer = FALSE] ELSE t
        acked == WithAcked(answered, Acked(answered, report))
    IN BufferStateRead(Rebuilt(Cleared(acked), Items(report)))

\* Bound: a count can pass the threshold without the entity halting, and then
\* nothing stops it.
CountsBounded(t) == \A sn \in DOMAIN t.window : t.window[sn].retx <= MaxCount

\* As if the count were compared before it is counted up.
ReachedMaxLate(before, after) ==
    \E sn \in DOMAIN after.window :
       before.window[sn].retx = MaxRetx /\ after.window[sn].retx > MaxRetx

ReachedMax(before, after) ==
    \E sn \in DOMAIN after.window :
       after.window[sn].retx = MaxRetx /\ before.window[sn].retx < MaxRetx

HandleStatusPdu(report) ==
    /\ confirmed' = confirmed \cup
           (IF Accepted(tx, report)
            THEN { tx.window[sn].k : sn \in Acked(tx, report) } ELSE {})
    /\ tx' = IF Accepted(tx, report) THEN Handled(tx, report) ELSE tx
    /\ alarms' = alarms \cup
           (IF \/ ValidAck(tx, report.ack) /\ ~NotBeyond(tx, report.ack)
               \/ /\ Accepted(tx, report)
                  /\ LET t == WithAcked(tx, Acked(tx, report)) IN
                     \E i \in DOMAIN Items(report) :
                        LET item == Items(report)[i] IN
                        InWindow(t, item.sn) /\ ~Unsent(t, item)
                           /\ Malformed(t, item)
            THEN {"protocol_failure"} ELSE {}) \cup
           (IF ReachedMax(tx, tx') THEN {"max_retx"} ELSE {})
    /\ forgot' = (forgot \/ (tx.retx # <<>> /\ tx'.retx = <<>> /\ ~tx'.pollTimer))

\* on_expired_poll_retransmit_timer.
ExpirePoll ==
    /\ tx.pollTimer
    /\ LET t == [tx EXCEPT !.pollTimer = FALSE] IN
       IF ~Exhausted(t) \/ ~HasSn(t.window, t.nextAck)
       THEN tx' = t /\ UNCHANGED alarms
       ELSE LET r == [sn |-> t.nextAck, so |-> 0, len |-> LengthOf(t, t.nextAck)]
            IN /\ tx' = BufferStateRead(
                            IF Len(t.retx) >= Window THEN t
                            ELSE Incremented([t EXCEPT !.retx = Append(@, r)], r.sn))
               /\ CountsBounded(tx')
               /\ alarms' = alarms \cup
                      (IF ReachedMax(tx, tx') THEN {"max_retx"} ELSE {})
    /\ UNCHANGED <<start, submitted, rx, env, sent, received, confirmed, discards,
                   forgot>>

--------------------------------------------------------------------------------
(* The receiving entity.                                                    *)

\* A receive buffer: the bytes held, whether the last of the SDU is among them,
\* and the SDUs they are from.
NoBytes == [bytes |-> {}, last |-> FALSE, from |-> {}]

\* Every byte up to the highest one held is there.
Gapless(info) == info.bytes = 0 .. Cardinality(info.bytes) - 1
HasGap(info) == ~Gapless(info)
FullyReceived(info) == info.last /\ Gapless(info)

Complete(window, sn) == HasSn(window, sn) /\ FullyReceived(window[sn])

\* A full SDU replaces what was held; of a segment, the bytes not yet held stay.
Stored(window, pdu) ==
    LET held == IF HasSn(window, pdu.sn) /\ ~IsFull(pdu)
                THEN window[pdu.sn] ELSE NoBytes
    IN WithSn(window, pdu.sn,
              [bytes |-> held.bytes \cup (pdu.so .. pdu.so + pdu.len - 1),
               last |-> held.last \/ IsLast(pdu),
               from |-> held.from \cup {pdu.k}])

InsideRx(r, sn) == Above(r.next, sn) < Window

\* The first SN from one on, below RX_Next_Highest, with bytes missing.
FirstMissing(r, from) ==
    LET span == Above(r.next, r.nextHighest) - Above(r.next, from)
        Missing(i) == ~Complete(r.window, (from + i) % Mod)
    IN IF span <= 0 THEN from
       ELSE (from + Min({ i \in 0 .. span : i = span \/ Missing(i) })) % Mod

\* RX_Highest_Status and RX_Next after an SDU is complete.
Advanced(r, sn) ==
    LET a == IF sn = r.highestStatus
             THEN [r EXCEPT !.highestStatus = FirstMissing(r, (@ + 1) % Mod)] ELSE r
        next == FirstMissing(a, a.next)
    IN IF sn # a.next THEN a
       ELSE [a EXCEPT !.window = WithoutSns(@, Between(a.next, next)),
                      !.next = next]

\* Whether something below an SN, or in it, is known to be missing.
Waiting(r, edge) ==
    \/ Above(r.next, r.nextHighest) > Above(r.next, edge + 1)
    \/ /\ Above(r.next, r.nextHighest) = Above(r.next, edge + 1)
       /\ HasSn(r.window, edge) /\ HasGap(r.window[edge])

StopReassembly(r) ==
    \/ r.trigger = r.next
    \/ Above(r.next, r.trigger) = 1 /\ ~HasGap(r.window[r.next])
    \/ ~InsideRx(r, r.trigger)

Reassembling(r) ==
    LET a == IF r.reassembly /\ StopReassembly(r)
             THEN [r EXCEPT !.reassembly = FALSE] ELSE r
    IN IF ~a.reassembly /\ Waiting(a, a.next)
       THEN [a EXCEPT !.reassembly = TRUE, !.trigger = a.nextHighest] ELSE a

HandleDataPdu(pdu) ==
    LET new == InsideRx(rx, pdu.sn) /\ ~Complete(rx.window, pdu.sn)
        held == [rx EXCEPT !.window = Stored(@, pdu)]
        placed == IF Above(rx.next, pdu.sn) >= Above(rx.next, rx.nextHighest)
                  THEN [held EXCEPT !.nextHighest = (pdu.sn + 1) % Mod] ELSE held
        done == Complete(placed.window, pdu.sn)
        after == IF ~new THEN rx
                 ELSE Reassembling(IF done THEN Advanced(placed, pdu.sn) ELSE placed)
    IN /\ rx' = [after EXCEPT !.doStatus = @ \/ pdu.poll]
       /\ received' = IF new /\ done
                      THEN [k \in Sdus |-> received[k] +
                              IF k \in placed.window[pdu.sn].from THEN 1 ELSE 0]
                      ELSE received

\* The bytes missing between those held, and after them if the end is.
Missing(sn, info) ==
    LET runs == { b \in info.bytes : b # 0 /\ b - 1 \notin info.bytes }
        Below(b) == { a \in info.bytes : a < b }
        Gap(b) == Nack(sn, IF Below(b) = {} THEN 0 ELSE Max(Below(b)) + 1, b - 1)
        gaps == [i \in 1 .. Cardinality(runs) |->
                    Gap(CHOOSE b \in runs :
                           Cardinality({ a \in runs : a < b }) = i - 1)]
    IN IF info.last THEN gaps
       ELSE Append(gaps, Nack(sn, Max(info.bytes) + 1, EndOfSdu))

\* refresh_status_report: what is missing below RX_Highest_Status.  A report is
\* built again whenever it changes, so the one sent is the one of the moment.
StatusReport(r) ==
    LET most == (r.next + MaxSnPerStatus) % Mod
        stop == IF Above(r.next, r.highestStatus) > Above(r.next, most)
                THEN most ELSE r.highestStatus
        SnAt(i) == (r.next + i - 1) % Mod
        NacksOf(sn) ==
            CASE ~HasSn(r.window, sn) -> <<Nack(sn, 0, EndOfSdu)>>
              [] Complete(r.window, sn) -> <<>>
              [] OTHER -> Missing(sn, r.window[sn])
        pushes == FlattenSeq([i \in 1 .. Above(r.next, stop) |-> NacksOf(SnAt(i))])
    IN [ack |-> stop, nacks |-> FoldLeft(PushNack, <<>>, pushes)]

\* SDUs received in full without a gap before them.
Settled == { k \in Sdus : \A j \in 1 .. k : received[j] > 0 }

\* The receiving side has its STATUS PDU sent, cut to k nacks.
PullStatus(k) ==
    /\ rx.doStatus /\ ~rx.prohibit
    /\ BagCardinality(reports) < MaxInFlight
    /\ rx' = [rx EXCEPT !.doStatus = FALSE, !.prohibit = TRUE]
    /\ LET report == Trim(StatusReport(rx), k)
           upto == Cardinality(Settled) + Above(rx.next, report.ack)
       IN reports' = reports (+) SetToBag({[report |-> report, upto |-> upto]})
    /\ UNCHANGED <<start, submitted, tx, data, lost, sent, received, confirmed,
                   discards, alarms, forgot>>

ExpireProhibit ==
    /\ rx.prohibit
    /\ rx' = [rx EXCEPT !.prohibit = FALSE]
    /\ UNCHANGED <<start, submitted, tx, env, sent, received, confirmed, discards,
                   alarms, forgot>>

ExpireReassembly ==
    /\ rx.reassembly
    /\ LET stopped == [rx EXCEPT !.reassembly = FALSE]
           above == [stopped EXCEPT !.highestStatus = FirstMissing(rx, rx.trigger)]
           again == IF Waiting(above, above.highestStatus)
                    THEN [above EXCEPT !.reassembly = TRUE,
                                       !.trigger = above.nextHighest]
                    ELSE above
       IN rx' = IF Above(rx.next, rx.trigger) \in 1 .. Window
                THEN [again EXCEPT !.doStatus = TRUE] ELSE stopped
    /\ UNCHANGED <<start, submitted, tx, env, sent, received, confirmed, discards,
                   alarms, forgot>>

--------------------------------------------------------------------------------
(* The lower layer.  It may deliver late, but not so late that half the     *)
(* sequence numbers have gone by, which is what RLC relies on.              *)

TimelyData(pdu) == pdu.k + Window > Cardinality(Settled)
TimelyReport(r) == r.upto + Window > Cardinality(confirmed)

DeliverData ==
    \E pdu \in BagToSet(data) :
       /\ TimelyData(pdu)
       /\ data' = data (-) SetToBag({pdu})
       /\ HandleDataPdu(pdu)
       /\ UNCHANGED <<start, submitted, tx, reports, lost, sent, confirmed,
                      discards, alarms, forgot>>

DeliverReport ==
    \E r \in BagToSet(reports) :
       /\ TimelyReport(r)
       /\ reports' = reports (-) SetToBag({r})
       /\ HandleStatusPdu(r.report)
       /\ CountsBounded(tx')
       /\ UNCHANGED <<start, submitted, rx, data, lost, sent, received, discards>>

LoseData ==
    /\ lost < MaxLosses
    /\ lost' = lost + 1
    /\ \E pdu \in BagToSet(data) : data' = data (-) SetToBag({pdu})
    /\ UNCHANGED <<start, submitted, tx, rx, reports, sent, received, confirmed,
                   discards, alarms, forgot>>

LoseReport ==
    /\ lost < MaxLosses
    /\ lost' = lost + 1
    /\ \E r \in BagToSet(reports) : reports' = reports (-) SetToBag({r})
    /\ UNCHANGED <<start, submitted, tx, rx, data, sent, received, confirmed,
                   discards, alarms, forgot>>

\* What would arrive too late does not arrive.
DropLate ==
    /\ \/ \E pdu \in BagToSet(data) :
             /\ ~TimelyData(pdu)
             /\ data' = data (-) SetToBag({pdu}) /\ UNCHANGED reports
       \/ \E r \in BagToSet(reports) :
             /\ ~TimelyReport(r)
             /\ reports' = reports (-) SetToBag({r}) /\ UNCHANGED data
    /\ UNCHANGED <<start, submitted, tx, rx, lost, sent, received, confirmed,
                   discards, alarms, forgot>>

--------------------------------------------------------------------------------

TxAt(sn) ==
    [queue |-> <<>>, next |-> sn, nextAck |-> sn, pollSn |-> (sn - 1) % Mod,
     pdus |-> 0, bytes |-> 0, window |-> EmptyWindow, sus |-> None,
     retx |-> <<>>, retxSn |-> None, pollTimer |-> FALSE, halted |-> FALSE]
RxAt(sn) ==
    [next |-> sn, nextHighest |-> sn, highestStatus |-> sn, trigger |-> 0,
     window |-> EmptyWindow, reassembly |-> FALSE, doStatus |-> FALSE,
     prohibit |-> FALSE]

\* Both entities after all the SDUs before `start' were delivered and confirmed.
Init ==
    /\ start \in Starts
    /\ submitted = 0
    /\ tx = TxAt(start) /\ rx = RxAt(start)
    /\ data = EmptyBag /\ reports = EmptyBag /\ lost = 0
    /\ sent = <<>>
    /\ received = [k \in Sdus |-> 0]
    /\ confirmed = {} /\ discards = 0 /\ alarms = {} /\ forgot = FALSE

Pull(grant) == PullNew(grant) \/ PullContinued(grant) \/ PullRetx(grant)

Next ==
    \/ HandleSdu \/ DiscardSdu
    \/ \E grant \in 1 .. MaxGrant : Pull(grant)
    \/ \E k \in 0 .. Window : PullStatus(k)
    \/ DeliverData \/ DeliverReport \/ LoseData \/ LoseReport \/ DropLate
    \/ ExpirePoll \/ ExpireReassembly \/ ExpireProhibit

Spec == Init /\ [][Next]_vars

\* What the lower layer and the timers owe the bearer: grants that fit all there
\* is, the delivery of what is not lost, the end of every timer.
Progress ==
    \/ Pull(MaxGrant) \/ PullStatus(Window)
    \/ DeliverData \/ DeliverReport \/ DropLate
    \/ ExpirePoll \/ ExpireReassembly \/ ExpireProhibit

\* One of these is due.  (It implies ENABLED Progress and is what TLC can afford
\* to evaluate in every state.)
Due ==
    /\ "max_retx" \notin alarms
    /\ \/ data # EmptyBag \/ reports # EmptyBag
       \/ tx.pollTimer \/ rx.reassembly \/ rx.prohibit \/ rx.doStatus
       \/ tx.retx # <<>> \/ tx.sus # None
       \/ tx.queue # <<>> /\ ~WindowFull(tx)

\* Weak fairness of some such step, with no assumption on which comes first.
FairSpec == Spec /\ ([]<>~Due \/ []<><<Progress>>_vars)

--------------------------------------------------------------------------------
(* Properties.                                                              *)

\* A queued retransmission is of an SDU in the window, of bytes it has, and of
\* the SDU under segmentation only what was sent: the comment in handle_nack,
\* "avoid RETX overtaking the original".
RetxOfSentBytes ==
    \A i \in DOMAIN tx.retx :
       LET r == tx.retx[i] IN
       /\ HasSn(tx.window, r.sn)
       /\ r.so + r.len <= IF r.sn = tx.sus THEN tx.window[r.sn].nextSo
                          ELSE LengthOf(tx, r.sn)

\* The SNs the receiving side looks up or asserts on are in its window: the one
\* at RX_Next when t-Reassembly waits for the SN after it, which is read without
\* a check, and RX_Highest_Status and RX_Next_Highest.
EdgesInWindow ==
    /\ rx.reassembly /\ Above(rx.next, rx.trigger) = 1 => HasSn(rx.window, rx.next)
    /\ Above(rx.next, rx.highestStatus) <= Above(rx.next, rx.nextHighest)
    /\ Above(rx.next, rx.nextHighest) <= Window

\* Whatever STATUS PDU arrives next, early or late, the SNs it nacks are in the
\* transmission window once its acknowledgements are taken: handle_nack reads
\* the window without a check.
NacksFindTheirSdu ==
    \A r \in BagToSet(reports) :
       TimelyReport(r) /\ Accepted(tx, r.report) =>
          LET t == WithAcked(tx, Acked(tx, r.report)) IN
          \A i \in DOMAIN Items(r.report) :
             HasSn(t.window, Items(r.report)[i].sn)

\* Two conforming entities never make one of them report a protocol failure.
NoProtocolFailure == "protocol_failure" \notin alarms

\* So, whatever arrives late, the two entities agree about their windows.
WindowsAgree ==
    RetxOfSentBytes /\ EdgesInWindow /\ NacksFindTheirSdu /\ NoProtocolFailure

\* The count of an SDU cannot pass max_retx_thresh without the upper layer being told, in
\* whatever order nacks and expiries of t-PollRetransmit count it up and the
\* clearing of the queue winds it back (check_sn_reached_max_retx tests for ==).
MaxRetxTold ==
    (\E sn \in DOMAIN tx.window : tx.window[sn].retx >= MaxRetx)
        => "max_retx" \in alarms

\* The two entities and the lower layer implement the acknowledged bearer: an SDU
\* goes to the upper layer once, whatever was retransmitted, and in no other's
\* place (rlc_rx_am_entity.cpp, handle_data_pdu), and the transmitter never drops
\* one as acknowledged before it has (handle_status_pdu, refresh_status_report).
B == INSTANCE Bearer WITH
        sending <- { k \in Sdus : k <= Len(sent) },
        delivered <- received,
        confirmed <- confirmed

ImplementsBearer == B!Spec

\* Every SDU is acknowledged in the end, or the upper layer is told that retransmitting did
\* not help, as long as PDCP discards nothing (a PDU sent without a poll because
\* an SDU was queued behind it, now discarded, may be lost for good) and no
\* report clears the retransmission an expiry queued (NoSilentStall).  No other
\* loss, late answer or cut report leaves an SDU behind without a poll or timer
\* (get_polling_bit, on_expired_poll_retransmit_timer, the receiver's timers).
AllConfirmed ==
    [](discards = 0 /\ ~forgot) =>
        \A k \in Sdus : (submitted >= k) ~>
            (k \in confirmed \/ "max_retx" \in alarms)

\* While an SDU waits for its acknowledgement, something is on its way that will
\* bring it: the comment in on_expired_poll_retransmit_timer, "include a poll in
\* an AMD PDU".
NoSilentStall == discards = 0 /\ DOMAIN tx.window # {} /\ alarms = {} => Due
=============================================================================
