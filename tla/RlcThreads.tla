------------------------------- MODULE RlcThreads -------------------------------
(***************************************************************************)
(* One RLC AM entity between its two executors.  The UE executor writes    *)
(* and discards SDUs, handles received PDUs and runs t-StatusProhibit; the *)
(* cell executor pulls PDUs and computes the buffer state.  They share,    *)
(* without a lock, the SDU queue (lib/rlc/rlc_sdu_queue_lockfree.h) with   *)
(* its slots and packed totals, the flag of a pending buffer state update  *)
(* (rlc_tx_am_entity.cpp), and the three status reports with the flags of  *)
(* a report due and prohibited (rlc_rx_am_entity.cpp).                     *)
(*                                                                         *)
(* A step is an access to what they share, with the local work around it.  *)
(* An SDU is its PDCP SN, each written once and pulled whole; windows and  *)
(* retransmissions are RlcAm's.                                            *)
(***************************************************************************)
EXTENDS Integers, SequencesExt

CONSTANTS
    Size,         \* lengths of the SDUs: a sequence
    Capacity,     \* queue_size: slots, and places in the queue
    ByteLimit,    \* queue_size_bytes
    HeadSize,     \* head_min_size
    Width,        \* 2^32: the packed totals are n_sdus * Width + n_bytes
    MaxDlPdu,     \* MAX_DL_PDU_LENGTH
    MaxInputs,    \* bound: SDUs, PDUs and forced updates together
    Refusals      \* the tasks an executor may refuse: of {"update", "timer"}

Sdus == DOMAIN Size
None == 0         \* of SDUs
FREE == 0         \* STATE_FREE
DISCARDED == -1   \* STATE_DISCARDED
Slots == 0..Capacity-1

ASSUME ThreadsAssumption ==
    /\ Size \in Seq(Nat \ {0})
    /\ {Capacity, ByteLimit, Width} \subseteq Nat \ {0}
    /\ Capacity < Width /\ ByteLimit < Width    \* both are uint32_t
    /\ {HeadSize, MaxDlPdu, MaxInputs} \subseteq Nat
    /\ Refusals \subseteq {"update", "timer"}

VARIABLES
    upper,    \* the UE executor: step, SDU, whether the PDU asked for a report
    lower,    \* the cell executor: step, SDU, size, totals read, and for whom
              \* the buffer state is computed
    q,        \* rlc_sdu_queue_lockfree: queue, sdu_states, sdu_sizes, state
    bs,       \* pending_buffer_state, update tasks queued, the pending bytes the
              \* MAC was told, prev_buffer_state, suspend_bs_notif_barring
    rx,       \* the versions of the reports in status_for_exchange and
              \* status_owned_by_reader (the writer's is built anew each time),
              \* do_status, status_prohibit_timer_is_running, and the timer itself
    past      \* history and bounds: SDU to write, what became of each, last
              \* version built, whether the request in do_status came late and
              \* whether the one being served did, tasks refused and forced
              \* updates so far

vars == <<upper, lower, q, bs, rx, past>>

Idle == [at |-> "idle"]

Init ==
    /\ upper = Idle /\ lower = Idle
    /\ q = [queue |-> <<>>, slot |-> [i \in Slots |-> FREE],
            size |-> [i \in Slots |-> 0], total |-> 0]
    /\ bs = [pending |-> FALSE, updates |-> 0, mac |-> 0, prev |-> 0,
             prevHol |-> None, unbarred |-> TRUE]
    /\ rx = [exchange |-> 0, reader |-> 0, doStatus |-> FALSE, prohibited |-> FALSE, timer |-> "off"]
    /\ past = [next |-> 1, outcome |-> [n \in Sdus |-> "none"], version |-> 0,
               late |-> FALSE, serving |-> FALSE, refused |-> {}, forced |-> 0]

MoreInputs == (past.next - 1) + past.version + past.forced < MaxInputs

SlotOf(n) == n % Capacity
Packed(bytes) == Width + bytes
Add(bytes) == (q.total + Packed(bytes)) % (Width * Width)
Sub(bytes) == (q.total - Packed(bytes)) % (Width * Width)
Bytes(packed) == packed % Width
NumSdus(packed) == packed \div Width

Upper(at) == upper' = [upper EXCEPT !.at = at]
Lower(at) == lower' = [lower EXCEPT !.at = at]
Outcome(n, what) == past' = [past EXCEPT !.outcome[n] = what]

\* An executor takes the task, or may refuse it: an error is logged, and that is all.
Refused(task) ==
    /\ task \in Refusals
    /\ past' = [past EXCEPT !.refused = @ \cup {task}]

--------------------------------------------------------------------------------
(* UE executor: SDUs from PDCP.                                             *)

\* handle_sdu, and the check of the byte limit in write.
WriteSdu ==
    /\ upper.at = "idle" /\ MoreInputs /\ past.next <= Len(Size)
    /\ LET n == past.next
           full == Size[n] + Bytes(q.total) >= ByteLimit
       IN /\ past' = [past EXCEPT !.next = n + 1,
                                  !.outcome[n] = IF full THEN "dropped" ELSE "none"]
          /\ upper' = IF full THEN Idle ELSE [at |-> "push", sdu |-> n]
    /\ UNCHANGED <<lower, q, bs, rx>>

\* A free slot, which nobody else touches, is taken and the SDU pushed.  (A full
\* queue has no free slot, as every SDU has a PDCP SN: QueueSound.)
PushSdu ==
    /\ upper.at = "push"
    /\ LET n == upper.sdu IN
       IF q.slot[SlotOf(n)] # FREE \/ Len(q.queue) >= Capacity
       THEN upper' = Idle /\ Outcome(n, "dropped") /\ UNCHANGED q
       ELSE /\ q' = [q EXCEPT !.size[SlotOf(n)] = Size[n], !.slot[SlotOf(n)] = n,
                              !.queue = Append(@, n)]
            /\ Outcome(n, "queued") /\ Upper("add")
    /\ UNCHANGED <<lower, bs, rx>>

AddSdu ==
    /\ upper.at = "add"
    /\ q' = [q EXCEPT !.total = Add(Size[upper.sdu])]
    /\ upper' = [at |-> "notify"]
    /\ UNCHANGED <<lower, bs, rx, past>>

\* discard_sdu: the slot's SDU is marked, if it is still there.
DiscardSdu(n) ==
    /\ upper.at = "idle" /\ q.slot[SlotOf(n)] = n
    /\ q' = [q EXCEPT !.slot[SlotOf(n)] = DISCARDED]
    /\ upper' = [at |-> "subtract", sdu |-> n]
    /\ Outcome(n, "discarded")
    /\ UNCHANGED <<lower, bs, rx>>

SubtractDiscarded ==
    /\ upper.at = "subtract"
    /\ q' = [q EXCEPT !.total = Sub(q.size[SlotOf(upper.sdu)])]
    /\ upper' = [at |-> "notify"]
    /\ UNCHANGED <<lower, bs, rx, past>>

\* handle_changed_buffer_state: an update is queued unless one is pending.
Notify ==
    /\ upper.at = "notify"
    /\ \/ bs' = [bs EXCEPT !.pending = TRUE, !.updates = @ + (IF bs.pending THEN 0 ELSE 1)]
          /\ UNCHANGED past
       \/ ~bs.pending /\ Refused("update") /\ bs' = [bs EXCEPT !.pending = TRUE]
    /\ upper' = Idle
    /\ UNCHANGED <<lower, q, rx>>

--------------------------------------------------------------------------------
(* UE executor: received data PDUs and t-StatusProhibit.                    *)

StatusRequired == rx.doStatus /\ ~rx.prohibited

\* handle_data_pdu changes the window or asks for a report, or both; the report
\* is built anew in the writer's buffer, and stored.
ReceivePdu(poll) ==
    /\ upper.at = "idle" /\ MoreInputs
    /\ past' = [past EXCEPT !.version = @ + 1]
    /\ rx' = [rx EXCEPT !.exchange = past.version + 1]
    /\ upper' = [at |-> IF poll THEN "request" ELSE "announce"]
    /\ UNCHANGED <<lower, q, bs>>

\* get_status_pdu has reset the request it serves, and has yet to take the report.
Taking == lower.at \in {"start_timer", "prohibit", "take"}

\* The report may be gone by now, or going, for an earlier request: then this
\* request is late.
RequestStatus ==
    /\ upper.at = "request"
    /\ rx' = [rx EXCEPT !.doStatus = TRUE]
    /\ past' = [past EXCEPT !.late = rx.exchange # past.version \/ Taking]
    /\ upper' = [at |-> "announce"]
    /\ UNCHANGED <<lower, q, bs>>

\* notify_status_report_changed.
Announce ==
    /\ upper.at = "announce"
    /\ upper' = IF StatusRequired THEN [at |-> "notify"] ELSE Idle
    /\ UNCHANGED <<lower, q, bs, rx, past>>

RunTimer ==
    /\ upper.at = "idle" /\ rx.timer = "queued"
    /\ rx' = [rx EXCEPT !.timer = "running"]
    /\ UNCHANGED <<upper, lower, q, bs, past>>

\* An assumption on timing: the timer runs for milliseconds, so it does not expire
\* in the UE executor before the cell executor, which has deferred its start, has
\* set the flag in the next line.
ExpireTimer ==
    /\ upper.at = "idle" /\ rx.timer = "running" /\ lower.at # "prohibit"
    /\ rx' = [rx EXCEPT !.timer = "off", !.prohibited = FALSE]
    /\ upper' = [at |-> "announce"]
    /\ UNCHANGED <<lower, q, bs, past>>

UpperGoesOn ==
    \/ PushSdu \/ AddSdu \/ SubtractDiscarded \/ Notify
    \/ RequestStatus \/ Announce \/ RunTimer \/ ExpireTimer

--------------------------------------------------------------------------------
(* Cell executor: pull_pdu.                                                 *)

\* History: the request served is the one pending.
Serve ==
    past' = IF StatusRequired
            THEN [past EXCEPT !.serving = past.late, !.late = FALSE] ELSE past

\* Mutant: the request is not reset.
StartPullUnreset ==
    /\ lower.at = "idle" /\ bs.mac > 0
    /\ lower' = [at |-> IF StatusRequired THEN "start_timer" ELSE "pop"]
    /\ Serve
    /\ UNCHANGED <<upper, q, bs, rx>>

\* The MAC grants while it knows of data.  A report due goes first: get_status_pdu
\* resets the request, has the timer started in the UE executor, sets the flag and
\* takes the report, a step each.
StartPull ==
    /\ lower.at = "idle" /\ bs.mac > 0
    /\ lower' = [at |-> IF StatusRequired THEN "start_timer" ELSE "pop"]
    /\ rx' = [rx EXCEPT !.doStatus = @ /\ ~StatusRequired]
    /\ Serve
    /\ UNCHANGED <<upper, q, bs>>

StartTimer ==
    /\ lower.at = "start_timer"
    /\ \/ rx' = [rx EXCEPT !.timer = "queued"] /\ UNCHANGED past
       \/ Refused("timer") /\ UNCHANGED rx
    /\ Lower("prohibit")
    /\ UNCHANGED <<upper, q, bs>>

ProhibitReports ==
    /\ lower.at = "prohibit"
    /\ rx' = [rx EXCEPT !.prohibited = TRUE]
    /\ Lower("take")
    /\ UNCHANGED <<upper, q, bs, past>>

TakeReport ==
    /\ lower.at = "take"
    /\ rx' = [rx EXCEPT !.reader = rx.exchange, !.exchange = rx.reader]
    /\ lower' = [at |-> "load", for |-> "mac"]
    /\ UNCHANGED <<upper, q, bs, past>>

\* read: pop the front.
PopSdu ==
    /\ lower.at = "pop"
    /\ IF q.queue = <<>>
       THEN lower' = [at |-> "load", for |-> "mac"] /\ UNCHANGED q
       ELSE /\ lower' = [at |-> "release", sdu |-> Head(q.queue)]
            /\ q' = [q EXCEPT !.queue = Tail(@)]
    /\ UNCHANGED <<upper, bs, rx, past>>

\* Mutant: read does not look at what became of the SDU.
ReleaseSlotUnchecked ==
    /\ lower.at = "release"
    /\ q' = [q EXCEPT !.slot[SlotOf(lower.sdu)] = FREE]
    /\ lower' = [at |-> "total", sdu |-> lower.sdu, size |-> q.size[SlotOf(lower.sdu)]]
    /\ Outcome(lower.sdu, IF past.outcome[lower.sdu] = "queued" THEN "pulled" ELSE "twice")
    /\ UNCHANGED <<upper, bs, rx>>

\* check_and_release: the size is read before the slot is let go, and nobody
\* writes it in between.  A discarded SDU is dropped, and the next one popped.
ReleaseSlot ==
    /\ lower.at = "release"
    /\ q' = [q EXCEPT !.slot[SlotOf(lower.sdu)] = FREE]
    /\ IF q.slot[SlotOf(lower.sdu)] = DISCARDED
       THEN lower' = [at |-> "pop"] /\ UNCHANGED past
       ELSE /\ lower' = [at |-> "total", sdu |-> lower.sdu,
                         size |-> q.size[SlotOf(lower.sdu)]]
            /\ Outcome(lower.sdu, IF past.outcome[lower.sdu] = "queued"
                                  THEN "pulled" ELSE "twice")
    /\ UNCHANGED <<upper, bs, rx>>

\* Mutant: the size is read after the slot was released.
SubtractPulledLate ==
    /\ lower.at = "total"
    /\ q' = [q EXCEPT !.total = Sub(q.size[SlotOf(lower.sdu)])]
    /\ lower' = [at |-> "load", for |-> "mac"]
    /\ UNCHANGED <<upper, bs, rx, past>>

SubtractPulled ==
    /\ lower.at = "total"
    /\ q' = [q EXCEPT !.total = Sub(lower.size)]
    /\ lower' = [at |-> "load", for |-> "mac"]
    /\ UNCHANGED <<upper, bs, rx, past>>

--------------------------------------------------------------------------------
(* Cell executor: the buffer state.                                         *)

\* Mutant: the flag is left set by the update that runs.
RunUpdateStillPending ==
    /\ lower.at = "idle" /\ bs.updates > 0
    /\ bs' = [bs EXCEPT !.updates = @ - 1]
    /\ lower' = [at |-> "load", for |-> "update"]
    /\ UNCHANGED <<upper, q, rx, past>>

\* update_mac_buffer_state as the task the UE executor queued, or forced by a
\* STATUS PDU or an expired t-PollRetransmit.
RunUpdate ==
    /\ lower.at = "idle" /\ bs.updates > 0
    /\ bs' = [bs EXCEPT !.updates = @ - 1, !.pending = FALSE]
    /\ lower' = [at |-> "load", for |-> "update"]
    /\ UNCHANGED <<upper, q, rx, past>>

ForceUpdate ==
    /\ lower.at = "idle" /\ MoreInputs
    /\ past' = [past EXCEPT !.forced = @ + 1]
    /\ bs' = [bs EXCEPT !.pending = FALSE]
    /\ lower' = [at |-> "load", for |-> "force"]
    /\ UNCHANGED <<upper, q, rx>>

\* get_buffer_state: the totals are read first.
LoadTotal ==
    /\ lower.at = "load"
    /\ lower' = [at |-> "front", for |-> lower.for, total |-> q.total]
    /\ UNCHANGED <<upper, q, bs, rx, past>>

\* front: discarded SDUs at the head of the queue are dropped.
Dropped == q.queue # <<>> /\ q.slot[SlotOf(Head(q.queue))] # Head(q.queue)

DropFront ==
    /\ lower.at = "front" /\ Dropped
    /\ q' = [q EXCEPT !.queue = Tail(@), !.slot[SlotOf(Head(q.queue))] = FREE]
    /\ UNCHANGED <<upper, lower, bs, rx, past>>

HeadOfLine == IF q.queue = <<>> THEN None ELSE Head(q.queue)

\* The bytes pending, in 32 bits, with a report due counting one.
PendingBytes(total) ==
    (Bytes(total) + NumSdus(total) * HeadSize + (IF StatusRequired THEN 1 ELSE 0)) % Width

\* Mutant: the barring is not suspended by a small state the MAC has seen.
BarredAlways(bytes) ==
    /\ lower.for = "update"
    /\ bytes > MaxDlPdu /\ bs.prev > MaxDlPdu
    /\ HeadOfLine >= bs.prevHol

\* A large state after a large one is not worth telling the MAC, unless it is
\* forced, the MAC has asked and seen a small one, or the head of line is older.
Barred(bytes) ==
    /\ lower.for = "update" /\ ~bs.unbarred
    /\ bytes > MaxDlPdu /\ bs.prev > MaxDlPdu
    /\ HeadOfLine >= bs.prevHol

\* The MAC asks for the state after a pull; an update tells it.
TellMac ==
    /\ lower.at = "front" /\ ~Dropped
    /\ LET bytes == PendingBytes(lower.total) IN
       bs' = IF lower.for = "mac"
             THEN [bs EXCEPT !.mac = bytes, !.unbarred = @ \/ bytes <= MaxDlPdu]
             ELSE [bs EXCEPT !.mac = IF Barred(bytes) THEN @ ELSE bytes,
                             !.prev = bytes, !.prevHol = HeadOfLine,
                             !.unbarred = FALSE]
    /\ lower' = Idle
    /\ UNCHANGED <<upper, q, rx, past>>

LowerGoesOn ==
    \/ StartPull \/ StartTimer \/ ProhibitReports \/ TakeReport
    \/ PopSdu \/ ReleaseSlot \/ SubtractPulled
    \/ RunUpdate \/ LoadTotal \/ DropFront \/ TellMac

Next ==
    \/ WriteSdu \/ UpperGoesOn \/ LowerGoesOn \/ ForceUpdate
    \/ \E n \in Sdus : DiscardSdu(n)
    \/ \E poll \in BOOLEAN : ReceivePdu(poll)

Spec == Init /\ [][Next]_vars

\* Each executor runs what is queued in it, timers expire, and the MAC grants.
FairSpec == Spec /\ WF_vars(UpperGoesOn) /\ WF_vars(LowerGoesOn)

--------------------------------------------------------------------------------
(* Properties.                                                              *)

\* The SDUs in the queue, and the one popped whose slot is not released yet.
Held ==
    Range(q.queue) \cup (IF lower.at = "release" THEN {lower.sdu} ELSE {})

\* The slots are those of the SDUs held, one each, valid or discarded: so
\* check_and_release never finds a slot "already free" or holding another SDU
\* (the errors of rlc_sdu_queue_lockfree.h), and no slot is lost.
SlotsMatchQueue ==
    /\ IsInjective(q.queue) /\ (lower.at = "release" => lower.sdu \notin Range(q.queue))
    /\ \A m, n \in Held : m # n => SlotOf(m) # SlotOf(n)
    /\ \A n \in Held : q.slot[SlotOf(n)] \in {n, DISCARDED}
    /\ \A i \in Slots : q.slot[i] # FREE => \E n \in Held : SlotOf(n) = i

\* An SDU that was discarded is never transmitted, nor one transmitted twice:
\* try_discard and check_and_release race for the slot, and one of them wins.
DecidedOnce == \A n \in Sdus : past.outcome[n] # "twice"

\* So the queue is sound.
QueueSound == SlotsMatchQueue /\ DecidedOnce

\* With no addition or subtraction under way the totals count the valid SDUs of
\* the queue, though both executors change them and they wrap around.
Waiting == {n \in Sdus : past.outcome[n] = "queued"}
TotalOf(S) == FoldSet(LAMBDA n, t : t + Packed(Size[n]), 0, S)
TotalsExact ==
    upper.at \notin {"add", "subtract"} /\ lower.at # "total" => q.total = TotalOf(Waiting)

\* Once both executors are idle and no update is queued, the MAC was told the
\* pending bytes, or a state as large (on_buffer_state_update): no wakeup is lost
\* between a change, the pending flag and the barring of large states.
MacKnows ==
    /\ upper = Idle /\ lower = Idle /\ bs.updates = 0 /\ "update" \notin past.refused
    => \/ bs.mac = PendingBytes(q.total)
       \/ bs.mac > MaxDlPdu /\ PendingBytes(q.total) > MaxDlPdu

\* A report sent is never older than one sent before, but for the report that
\* answers a late request, one set after its report was taken or while it was
\* being taken for an earlier request.  Every other report goes forward, those
\* after a late request too, though both executors swap the three buffers
\* without a lock (handle_data_pdu, get_status_pdu).
ReportsGoForward ==
    [][rx'.reader < rx.reader => past.serving]_vars

\* Every SDU accepted is transmitted or discarded, as long as the executors take
\* the tasks.
SdusLeave ==
    \A n \in Sdus : past.outcome[n] = "queued" ~>
        past.outcome[n] # "queued" \/ past.refused # {}

\* Every status report requested is sent, as long as the executors take the tasks.
RequestsAnswered == rx.doStatus ~> ~rx.doStatus \/ past.refused # {}

\* t-StatusProhibit ends, unless its start was refused: then no report is ever
\* sent again.
ProhibitEnds == rx.prohibited ~> ~rx.prohibited \/ "timer" \in past.refused

\* So neither executor ever waits for a task the other believes is queued.
NothingForgotten == SdusLeave /\ RequestsAnswered /\ ProhibitEnds
=============================================================================
