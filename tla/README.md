# srsTwin: a verification project in TLA+

srsTwin is a digital twin of a cellular network. Its code is in three places of the
repository:

- `src/poc_StressTest/`: a stress-test twin. Thousands of simulated UEs attach to
  radio units (RU), move, hand over and release; the radio units relay their
  signalling to one distributed unit (DU), which admits them against the physical
  resource blocks (PRB) of each cell. Every box is a Python asyncio program in a
  container of its own.
- `src/srsTwin/integration/` and `src/srsTwin/digital-twin/`: scripts and small
  services around a real gNB and real UE software (an IQ sample hub, a storm
  orchestrator, trace tools, dashboards).
- `src/srsTwin/ocudu/` and `src/srsTwin/srsRAN_4G/`: that gNB and that UE, vendored,
  in C++. They are 2.4 million lines, most of it generated ASN.1 and signal
  processing.

This directory models the first, the IQ hub of the second together with the ZeroMQ
radios at both its ends, and of the third the acknowledged mode of RLC, which every
byte of signalling between the gNB and a UE goes through: a protocol with
losses, windows and timers, implemented with lock-free queues between two threads.
Line numbers below are those of the files named; `du_server.py` is
`src/poc_StressTest/du/du_server.py`, `ru_server.py`, `ru_dictionary.py` and `ue_sim.py`
likewise under `ru/`, `common/` and `ue/`; `iqhub.py` is under
`src/srsTwin/integration/hub/`; the RLC sources are in `src/srsTwin/ocudu/lib/rlc/`.

## 1. Inventory

| Component | State | Operations | Modelled in |
|---|---|---|---|
| DU (`du_server.py`) | per cell `used_prbs`, `sessions`, three totals; per F1 connection `conn_cells` | `handle_setup`, `handle_measurement`, `handle_data`, `handle_release`, `handle_passthrough`; accept and cleanup in `serve_f1` | `DU`, `Admission`, `DUCounters` |
| RU: `serve_ue` and `F1Link` (`ru_server.py`) | a coroutine per Uu socket; `reader`/`writer`, `pending`, `wlock`, reader and reconnect tasks | relay of uplinks and replies, release of a vanished UE, reconnection | `Stack`, `F1Link` |
| RU dictionary (`ru_dictionary.py`) | a row per `ue_id` | `note_uplink`, `note_downlink`, `remove_ue` | `Dictionary` |
| UE simulator, sessions (`ue_sim.py:554-695`) | a task per UE with one or two sockets | attach, handover, report, data, release, cancellation | `Stack` |
| UE simulator, scaling (`ue_sim.py:275-439`) | `target_num_ues`, `ue_tasks`, target file | `set_target`, `reconcile`, restart | `Scaler` |
| UE simulator, replay (`ue_sim.py:698-807`) | a coroutine per replayed UE, the counters `S` | `run_replay`, `replay_trace_ue` | `Replay` |
| Call-flow recorder of the DU (`du_server.py:221-279`) | the one UE followed, its events, the ladder published | `_trace_record`, `request_trace_reset` | `CallFlow` |
| IQ hub (`iqhub.py`) | per slot connected and misses, the run loop's place | `run`: `_recv_ul`, `_gather_ul`, `_pull_dl`, `_serve_dl`, `_pickup_joins`, `_recycle`, `stop` | `IqHub` |
| ZeroMQ radios (OCUDU `lib/radio/zmq`, srsRAN 4G `rf_zmq_imp*.c`) | a request or reply outstanding, blocks buffered | ask, answer, transmit | `IqHub`, as the hub's environment |
| RLC AM entities (`rlc_tx_am_entity.cpp`, `rlc_rx_am_entity.cpp`, `rlc_am_pdu.cpp`, `rlc_retx_queue.h`) | windows, SDU and retransmission queues, SDU under segmentation, poll and reassembly state, three timers | SDUs in and discarded, PDUs pulled and handled, STATUS PDUs, timers | `RlcAm`, `RlcStatus`, `Bearer` |
| RLC AM between its two executors (`rlc_sdu_queue_lockfree.h` and the entities) | the lock-free queue's slots and packed totals, pending buffer state, exchanged status reports | write, discard, pop, count, notify, exchange | `RlcThreads` |
| Signalling catalog, RF model, wire protocol (`common/`) | none | message kinds, PRB demand, framing | constants of `DU` and `Stack` |
| Storm orchestrator, trace stitching, S1AP state machine | see section 7 | | planned |
| Dashboards, log parsers, model training, the rest of the vendored C++ | | | not modelled |

`PROJECT.json` lists all of them, with what is left out of each.

How they interact. A UE task opens a Uu socket to the radio unit of its cell. The
`serve_ue` coroutine at the other end takes one uplink at a time, stamps cell and
RF into it, notes it in the dictionary, awaits `F1.request` and relays the reply.
`F1.request` multiplexes all of a site's UEs onto one TCP connection; a `txn` number
pairs replies with requests. In the DU one `serve_f1` coroutine per connection
handles messages without awaiting, so a handler is atomic. A handover opens a
second socket, possibly to another radio unit, and releases the first only when
the target has admitted the UE.

The hub asks each UE for an uplink block and the gNB asks the hub; the gNB answers
each block with a downlink block, and the UEs ask the hub for those. All of it is
ZeroMQ request/reply, so a peer that goes away leaves a request behind. In the gNB,
PDCP hands SDUs to an RLC entity on the UE's executor, the MAC pulls PDUs on the
cell's executor, and the peer's STATUS PDUs come back on the UE's.

What is hard.

- **PRBs must not leak.** `used_prbs` is kept incrementally in five places, and a
  session is given back by its UE, or by `serve_ue` for a UE that vanished, or by
  the DU for a link that vanished. Each of those may itself be lost.
- **The two ends of an F1 link see its end at different times.** The DU's cleanup
  may run after the radio unit has connected again and admitted UEs over the new
  link. It reclaims whole cells, so it takes those sessions too.
- **Cancellation at every await.** Scaling down cancels tasks in the middle of a
  handover or with a reply still due. `reconcile` forgets a cancelled task at once,
  so the same `ue_id` may run again while the old task is still releasing.
- **`F1Link` is torn down by whoever notices first**: the reader task or any of the
  requests in flight, with a write lock, a reconnect task and requests that wait
  for it in between.
- **Two coroutines, one row**: a handover between two sectors of one radio unit has
  two `serve_ue`'s writing and removing the row of one `ue_id`.
- **The target moves while it is being reached**: `reconcile` sleeps between batches
  with a list it made earlier.

- **A recorder that follows one UE of many**: it sees each message twice, before
  and after the DU acts on it, a reset may come between the two, and a UE may have
  two legs, be refused on one or be cut off.
- **Five waits in one loop**: the hub waits for the gNB and for each UE in turn; one
  that is gone, paused or joining must neither stop the rest nor be served twice.
- **Late answers in a small window.** Data PDUs and STATUS PDUs are lost and
  overtake each other while the windows of sequence numbers move on; a report may be
  cut to fit, nack segments of an SDU still being sent, or arrive when what it nacks
  has been acknowledged.
- **Everything stops unless somebody polls**: an SDU whose last PDU was lost is only
  recovered by a poll, a timer or a report, each of which may be skipped in one
  state or another.
- **No lock between two executors**: writing, discarding and pulling race for a
  slot, counters wrap, a flag may be cleared just as a request is made, and an
  executor may refuse a task.

What makes each component correct: the DU's pool is exact, bounded and given back;
a session always has somebody who will release it; replies match requests; the F1
link is always up or being re-established and is one; a settled simulator matches
its target; counters and rows agree with what they count; a recorded ladder is one
call flow; the hub serves each block once and never misses a UE without reason; an
SDU is delivered once, is never confirmed before, and is confirmed in the end; the
MAC is told what is queued. Section 3 says which
property is which.

## 2. Modules and the code

**`Admission`** is the promise of the DU: a UE holds PRBs of at most one cell, a cell
never hands out more than it has, one step changes one UE's grant unless a
connection is lost. It has no counters and no messages.

**`DU`** is the DU as an open system: any message a radio unit can relay may arrive
on any open link. `prbs[c][u]` is `Cell.sessions[u]["prbs"]` (0 for no session),
`used[c]` is `Cell.used_prbs`, `open` and `connCells` are the `serve_f1` coroutines and
their `conn_cells`. `Setup`, `Measurement`, `Release` and `Other` are turns of `serve_f1`'s
loop, `LinkEnd` its `finally`, `Restart` the container. The RF model's answer (a PRB
demand, or none without coverage) is a free choice of each setup and measurement
from `Required \cup {NoCoverage}`: it depends on a position the DU does not know. The
VoIP cap in `handle_measurement` (line 172) changes nothing once `Required` is at
most `VOIP_MAX_PRBS`, which `rf_model.py` ensures for that profile; it has no
definition of its own. `ImplementsAdmission` is the refinement, with `grants` as the
mapping.

**`DUCounters`** extends `DU` by `admitted_total` and `released_total`, with each
action counting as its handler does. `rejected_total` has no counterpart to agree
with and is left out. `MaxCount` bounds the model, not the code.

**`Stack`** composes UE tasks, Uu sockets, `serve_ue`, the F1 links and the DU
(`INSTANCE DU`, whose actions `Handle`, `LinkEnd`, `Connect` and `Restart` call).

- `proc[t]` is where a task is in `one_session`: `attach`, `connected`, `handover`,
  `measure` or `data` (a report sent, its reply awaited), `leave` (`_release` of the old
  cell), `release`, `cancel` (`_release` from the `CancelledError` clause). `step[t]`
  is its position in the flow; `src` and `tgt` are its socket pairs.
- `uu[a]` is a socket: the UE's end (`client`), the await `serve_ue` is at (`ru`), and
  the messages under way (`up`, `down`).
- `f1[s]` is `F1.writer`; `queue[s]` the requests waiting in `_ensure_connected`;
  `wire[k]` and `back[k]` a link's two directions.
- Data is abstract: a message is its kind, socket, `ue_id` and cell. Movement is a free
  choice of a handover target; the choice of a sector from a position is left out.
- A connection loses what is in it when it ends, never reorders, never duplicates:
  it is TCP.
- A reset by the UE's end may overtake what the UE had sent (`Hangup`), or not.
- A request woken by a new connection that is lost before it is written (the write
  lock may be held up by another's drain) finds `self.writer` to be `None` and dies of
  an `AttributeError`; `serve_ue` goes on to its `finally` clause as after any failed
  request. `LinkLost` fails those requests with the ones that are pending.

**`Dictionary`** extends `Stack` with the rows each radio unit keeps. Each action is
one of `Stack`'s with what it does to the row.

**`F1Link`** takes the class of that name apart, await by await, with requests that
are concurrent coroutines; `Stack` treats a link as one thing. A step is what a task
does between two awaits. `Quiet` states the one fact about asyncio's scheduler that
is used: a task that has been woken runs before the loop looks at the sockets again,
so no new connection is established while one is woken. Waiters for the lock are
woken one per turn and are exempt. `None.write` raises an `AttributeError` that
`request` does not catch; the model has that outcome in `Write`. A reply may come in
after its request has failed (`late`): the reader task drops it and goes on with
`self.reader` as it is then, of a newer link or none (`ReaderDropsReply`).

**`Scaler`** is `set_target`, `reconcile` and the persisted target. Only the sleep
between batches is an await, so a pass up to it is one step (`Pass`). HTTP handlers
hand over to the event loop, so `set_target` is a step too. That the file write may
fail (line 300), before or after the file was truncated, is the choice in `SetTarget`; a
truncated file reads as no target (line 286).

**`Replay`** is `run_replay` with the replayed UEs. What the network answers is a
free choice here; the control of each coroutine and the counters are the subject.
`Plans` is the set of event lists: any kind may come at any point, because a trace
cut out of a live network need not hold whole sessions. Commands that change the
target during a replay are `Scaler`'s and independent of it.

**`CallFlow`** extends `DU` with the recorder and with UEs that walk their call flows
over up to two legs, the sockets of a handover, so that the DU's messages come in
the orders the recorder may see. `serve_f1` records an uplink (`Uplink`), dispatches it
and records the reply (`Answer`); a reset or a cut-off may come between. `owed` are the
sockets a UE has let go of, cancelled or broken off at any step, each with what
`serve_ue` still passes on: the last uplink, what a cancelled task sends of the release
flow, or the release the radio unit asks for itself. A UE spawned again attaches
beside them, on any cell. The end of an F1 link is left out here: it takes sessions
away as a refused handover does.

**`IqHub`** is the run loop of the hub, one action per wait or visit of a slot, with
`hub.at` the phase of the tick and `hub.todo` the slots it has yet to visit. The gNB's
two channels (`gnb`) and each UE's receive thread and transmission (`ue`, `dl`) are
external to the hub but modelled from their sources. A request whose asker is gone
stays in a socket's queue and its answer is dropped: it is counted as `old`. Samples
are left out, and what depends on durations (is a block there in time?) is a choice,
bounded by `MaxFaults` where it is a fault.

**`RlcAm`** is a transmitting entity, a receiving entity and the lower layer between
them: two bags of PDUs in flight. A handler is one step, with everything it calls
(`BufferStateRead` is what computing the buffer state pops). Fields of `tx` and `rx` are
the state variables of the code: `next` is `st.tx_next`, `nextAck` `st.tx_next_ack`,
`pdus` and `bytes` the counts without poll, `retx` the retransmission queue, `sus` the SN
under segmentation; `next`, `nextHighest`, `highestStatus` and `trigger` those of the
receiver; `window` the two windows. A data PDU is a byte range of an SDU; headers are
left out and a grant is the payload it fits. `Window` stands for half the SN space.
`TimelyReport` and `Timely` are the one assumption about the lower layer: nothing arrives
so late that its SN has come round again (HARQ gives up long before).
**`RlcStatus`** has the STATUS PDU: building, merging, cutting and taking apart the
lists of nacks. **`Bearer`** is what the pair promises: at most once, and confirmed only
after delivery.

**`RlcThreads`** is one entity between its two executors, each access to shared state
one step. `q` is `rlc_sdu_queue_lockfree`: the queue, `sdu_states` (`slot`), `sdu_sizes` and
the packed totals, `n_sdus * Width + n_bytes` in one atomic that wraps. `bs` is what has to
do with telling the MAC the buffer state, `rx` the three status reports, of which the
writer's is built anew each time, with the flags about them. SDUs are pulled whole
and nothing is retransmitted: that is `RlcAm`'s. The MAC pulls one PDU per grant, and
the head of line and the status flags are read in one step with the totals' last use.
`Refusals` are the tasks an executor may refuse. `get_status_pdu` is four steps: it
resets the request (`StartPull`), defers the timer's start (`StartTimer`), sets the flag
(`ProhibitReports`) and swaps the reports (`TakeReport`).

One assumption here is on timing: t-StatusProhibit, of milliseconds, does not expire
between the defer (`rlc_rx_am_entity.cpp:636`) and the store of the flag three lines on
(`ExpireTimer`). If it did, the flag would stay set and no report be sent again. Every SDU
has a PDCP SN. PDCP control PDUs, which have none and take no slot, and the rollback of a
slot when they have filled the queue while it was free
(`rlc_sdu_queue_lockfree.h:88-95`), are not modelled.

**MC modules** give the constants of the runs; **proof modules** are `DUProofs`
(with `DUCounters` and `CallFlow`), `StackProofs`, `F1LinkProofs`, `IqHubProofs`, `ReplayProofs`,
`RlcAmProofs`, `RlcThreadsProofs` and `ScalerProofs`.

A definition named as the mutant of another (`RegrantUncapped`, `FinallySilent`, ...)
is not part of any specification. It is the bug the definition after it could have
had, and shows that a property would catch it.

## 3. Runs

| Run | Instance | Shows |
|---|---|---|
| `du` | 3 UEs, 2 cells, 2 links with the same cells, 3 PRBs, counts to 4 | `PoolSound` (exact, bounded, one cell per UE), `SessionsHaveLink`, `CountersBalance`, `ImplementsAdmission` |
| `stack_respawn` | 2 tasks of one `ue_id`, the cells on two sites, 2 sockets, 1 loss, with the dictionary | `NoLeak`, `RepliesInStep`, `NoGhostRow` while a cancelled task still releases and two links overtake each other |
| `stack_live` | 1 task, 2 sectors of a site with one row, 1 loss, fairness, with the dictionary | the same three, and `NothingHangs`, `AbandonedIsReclaimed`, `InStepInTheEnd` |
| `f1_link` | 3 requests, 3 connections, 2 losses, fairness | `OneLink`, `ReplyIsRead`, `EveryRequestEnds` |
| `scaler` | 4 UEs, batches of 1, 3 changes or restarts, fairness | `SettledMatches`, `NoTaskLost`, `ScalingEnds` |
| `replay` | 2 UEs, any 3 events each, fairness | `Accounted`, `ReplayEnds` |
| `replay_gauge` | as `replay` | violates `GaugeIsConnected` (section 6) |
| `call_flow` | 2 UEs on one cell of 1 PRB or 1 UE on two, 2 sockets at a time, ladders of 8 | `CleanLadder`, `LockHeldForReason`, `FrozenUntilReset` |
| `iq_hub` | 2 slots, 2 misses to a recycling, 2 faults, fairness | `OncePerBlock`, `NoFalseMiss`, `Recycles`, `Served`, `Stops` |
| `rlc_am` | window 2, SDUs of 1, 1 and 2 bytes, 2 PDUs in flight each way, 1 loss, 1 discard, fairness | `WindowsAgree`, `MaxRetxTold`, `ImplementsBearer`, `AllConfirmed` |
| `rlc_threads` | 3 SDUs, 2 slots, 5 bytes, 3 inputs, any refusal, fairness | `QueueSound`, `TotalsExact`, `MacKnows`, `ReportsGoForward`, `NothingForgotten` |
| `rlc_stall` | window 2, two SDUs of a byte, 1 loss, no discard | violates `NoSilentStall` (section 6) |

`TypeOK` and `DTypeOK`, the type invariants of `DU` and of `Stack` with `Dictionary`, are
checked beside them and proved for `DU` and `Stack`; those of `F1Link`, `Scaler`, `IqHub`, `Replay` and `RlcThreads` are part of the proofs. The
longest run, `stack_live`, has 275,000 states and takes two and a half minutes on two
workers, as does `f1_link` with 470,000; `call_flow` has 1.8 million, `rlc_am` 685,000 and
`iq_hub` 327,000, and they take two; `stack_respawn` has 1.3 million and takes one and a half.

What some properties say beyond their name.

- `InStepInTheEnd`: the UE, its radio unit's dictionary and the DU agree again after a
  refused handover, a session reclaimed behind the UE's back or a removed row.
- `Accounted`: every attach of a replay ends in one of three ways and every UE admitted
  is connected, dropped or released; no UE is connected when the synthetic load
  begins. The gauge `active` is left to `GaugeIsConnected`, which is false (section 6).
- `ReportsGoForward`: whether a request came late, after its own report had been
  taken or while it was being taken, is kept per request (`past.late`, then `past.serving`
  once it is served). Only the report that answers such a request may be older than
  the one before; the next one is held to the rule again.
- `LockHeldForReason` exempts a UE that was cut off (`vanished`) until it sends anything
  of its own again.
- `NoFalseMiss`: two UEs, however they are scheduled, never make the hub's order of
  uplink and downlink time one of them out.
- `WindowsAgree`: four facts the RLC code relies on without checking them, also with
  reports late, reordered or cut: retransmissions are of bytes that were sent, the
  receiver's edges are in its window, a nack's SDU is in the transmitter's, and
  neither entity reports a protocol failure.
- `AllConfirmed` has the two exceptions the code has: an SDU discarded behind the last
  one, whose place in the queue suppressed its poll, and a retransmission forgotten
  when a report empties the queue (`forgot`). Everything else recovers.
- `MacKnows`: the MAC schedules an entity by the last buffer state it was told. A
  wakeup lost between two executors would leave data queued that nobody pulls.

Why the bounds are enough.

- *PRBs*: three, with demands 1, 2 and 4, so that two UEs fit or not, a re-grant is
  granted in full, in part or not at all, and a demand may exceed the whole cell.
  In `Stack` and `CallFlow` one PRB: a reject comes from the free choice `NoCoverage` or a
  second UE, and what a grant amounts to is the business of `du`.
- *Links*: two per radio unit, the one in use and one whose end the DU has not seen.
  A third would be another of the second kind.
- *Sockets*: two, as many as a task holds at once: in a handover, or one of a
  cancelled task and one of its successor. `Uus` is used up socket by socket; the
  action `Spent` is the end of the model, not a deadlock of the system.
- *Losses*: one, a bound on how often links break or the DU restarts. Two in the
  instance of `stack_live` without fairness found nothing more; the theorems on `Stack`
  and `Dictionary` hold for any number.
- *The attach flow*: the catalog's flow has one step that admits. `ShortFlow` keeps
  one step before it and one after it; steps that do nothing at the DU repeat the
  same awaits. The liveness run has none after it (a report repeats that await), and
  `call_flow` starts with the step the recorder starts at. `FlowAssumption` says what
  is used of the flow.
- *`F1Link`*: with three requests one can hold the lock, one wait for it and one
  wait for a reply. Three connections are the one the reader is still on, one being
  closed and a new one. A fourth has nobody to refer to it.
- *`Scaler`*: batches of one make every scaling a sequence of sleeps; four UEs give
  three of them, three changes interrupt those up and down and back.
- *`CallFlow`*: a ladder of eight has a whole call flow (two messages for each of
  two attach steps and two release steps) and overflows when a handover or report
  is added. The constraint `Bounds` keeps to what the recorder can confuse: two UEs that
  contend for one cell, or one UE between two cells, and two sockets at a time, of which
  one or both may be let go of. `DUProofs` proves the three properties without it.
- *`IqHub`*: with two slots a tick serves one while the other is gone, paused or
  joining; two misses make a first one that does not recycle; two faults let both UEs
  go, or one twice. A ring of one block makes a UE that does not read stop asking.
- *`RlcAm`*: a window of two makes the four sequence numbers wrap within a run that
  starts at the last of them, fills the window and lets a report speak of both its
  SDUs; the two-byte SDU is sent in segments, whole, or in both ways by turns.
  One loss suffices, since what reordering and early polls bring about is not
  counted as a loss. One retransmission is allowed and counts to two are followed.
  Polls come every two PDUs or bytes, and when the queues are empty or the window
  full.
- *`RlcThreads`*: two slots for three SDUs make a slot be used again and the queue
  full; one SDU of three bytes is large for a `MaxDlPdu` of two, and five bytes are less
  than all of them. The width of 16 has the byte counts wrap in the packed total.
- *Symmetry* is declared only in runs without liveness.

Deadlock is checked in the runs of `DU`, `Dictionary` (so `Stack`), `F1Link` and `CallFlow`. The
others may stop rightly: a simulator at its target with its changes used up, a replay
that is over, a hub that was told to stop, entities with all SDUs confirmed.

## 4. Fairness

- `Stack!Fairness`: sockets deliver and coroutines that can run do (weak fairness of
  each step of a task, a socket, a site and a link), the DU sees the end of a link
  that has ended, and a radio unit reconnects (its loop never gives up). Nothing makes
  a session start, hand over, end, be cancelled or be lost.
- Strong fairness of `Report(t, "measure")`: a connected UE that sends data in turn is
  enabled and disabled again and again, but the loop compares the clock with
  `REPORT_INTERVAL` (line 625), so a report comes however often data does.
- `F1Link!Fairness`: tasks that can run do, closed connections end, the reconnect
  task succeeds in the end. `ReaderDelivers` among a request's steps says that the DU
  answers on a connection that stays up.
- `Scaler!FairSpec`: the lock is granted and the sleep between two batches ends.
- `Replay!FairSpec`: the recorded times pass and the network answers or refuses. A
  broken socket is never forced.
- `IqHub!FairSpec`: the hub's loop goes on, the gNB's channels and the threads of a UE
  that is up do too. Nothing makes a UE start, go, pause or be on time, and the signal
  need not come.
- `RlcAm!FairSpec`: as long as a grant, a delivery or an expiry is due, one of them
  happens at some time; *which* is open, so a run in which a timer always expires before the
  answer is among those checked. It is the weak fairness of `Progress` with `Due` in
  place of `ENABLED`, which is expensive to evaluate.
- `RlcThreads!FairSpec`: each executor runs what is queued in it, a running timer
  expires, and the MAC grants what it was told of. No SDU, PDU or discard is forced.

## 5. Proofs

All theorems hold for every value of the constants under the named assumptions in
the modules: finitely many UEs, positive demands, a map from links to cells, an attach
flow of distinct steps that starts with the RRC connection request, contains the setup
and shares no name with the other signalling (`procedures.py:73-89`), an SDU queue
whose capacity and byte limit fit the 32 bits each has in the packed totals, an RLC
window of two SNs at least (it has 2048 or 131072) and SDUs of 1 to 65535 bytes, what
the 16 bits of a segment offset can say, and `None`/`NoCoverage` outside the sets they stand beside.

**`DUProofs`.** A set of numbered PRBs (`Units`) stands for the sum of the shares, so
that `used[c] = Cardinality(Granted(c))` needs no recursive sum. `UnitsUpdate` says
how that set's size changes when one UE's share does. Every handler is then shown to
be a *share step*, one that changes the share of one UE and `used` by the difference
(`ReleaseIsShareStep`, `SetupIsShareStep`, `MeasurementIsShareStep`), and one lemma
(`ShareStepPreserves`) shows that a share step keeps the invariant. The cleanup is the
one step that is not of this kind (`ReclaimPreserves`). `IInv` joins the types with
`PoolSound` and `SessionsHaveLink`. That the pool is exact is needed for the types
(`used` stays natural), and that it is bounded for the shares to stay within
`0..TotalPrbs`. `NoCrossTalkHolds` and `DUImplementsAdmission` follow step by step
from `IInv`.

On `DUCounters`: `CountersOnlyObserve` shows that a step of the counting module
is a step of `DU`, so `Invariance` carries over. `CountersAreSound` counts holders
with `HoldersUpdate`.

On `CallFlow`: `RecordOutcomes` says once what a message makes of the recorder (it lets
go of its UE, stays as it is, starts a ladder, or adds a rung), and every step of
`serve_f1` is one of these. `CleanLadder` is kept because a recorder that still takes rungs
ends with the uplink in flight exactly if that is its UE's (`Paired`): a reply finds its own
uplink last, and a reset in between takes both away. `LadderIsFrozen` follows from
the outcomes alone. `LockIsFreed` needs the UEs: the leg an uplink left is where it was
until the answer comes (`LegAwaits`). `Held` is `LockHeldForReason` with the message in
flight counted only if a socket waits for its answer: what comes from a socket that was
let go of does not free the recorder, so without that the property would not be inductive.
`RecorderOnlyObserves` gives the types of the grants, from
`IInv`.

**`StackProofs`.** `NoLeak` looks at one moment; what keeps it true is who waits for what.
`IInv` first says that tasks share no socket (`TasksApart`), that an idle link is empty
(`Linked`), and that each `serve_ue` has one request or reply outstanding at most, of
its own UE and cell and at its own radio unit (`MessagesFit`, `OnceEach`). It then says
where the end of a session is: nothing follows a release on a socket but its
completion (`StreamsInOrder`), and a task that is not releasing has sent neither
(`TasksInOrder`). So when the DU has admitted a UE, the `serve_ue` it came through is
not past its release: it is `Bound`. `ReleaseAssured` says that every session has such a
`serve_ue`, a release request under way, or a link given up whose cleanup is due. Two
points need care. A release request on a link the DU has closed will not arrive, but
then the session's cell is carried by another link, which has been given up
(`AssuredMeansDue`). And an attach handled late, from a link the radio unit has left,
admits a UE nobody will release: that link's own cleanup does. `TaskChange` is the shape of every step
of a UE task, `RequestPreserves` covers every request of a `serve_ue` and
`FewerWaiting` every step that only loses messages.

`RepliesInStep` is inductive beside `IInv` once what has not come back yet is counted
too: `TasksInStep` says that a task, unless it is being cancelled, has on the socket it
reads one request or reply at most, wherever it is between the two ends, of the kind
the task waits for, and nothing at all on its other socket. A step of the task finds its
reply to be the last thing on the socket (`AnswerIsLast`), so the next request is alone
(`SentInStep`), and the socket it leaves or turns to is idle (`StaysIdle`). A step of
`serve_ue` or of the network only moves what is there, or loses it (`PathInStep`,
`Undisturbed`). The types and `OnceEach` are taken from `IInv` before the step and
the types after it.

The theorems on `Dictionary` are in this module too. A step of `DNext` is one of `Next`
or a stutter on the variables of `Stack` (`DictionaryStep`), so `IInv` carries over.
`NoGhostRow` needs only the types of the rows (`RowsFit`) and of the sockets beside it: a step that writes
a row is one of a `serve_ue` still in its loop (`KeeperWrites`), and every other step
leaves a keeper its row or removes it (`KeepersStay`). With two sectors at one unit it
matters that the row is the UE's and not the socket's.

**`F1LinkProofs`.** `OneLink` and `ReplyIsRead` are not inductive alone.
`IInv` adds: a link has a reader or the reader task is about to give it up
(`LinkIsRead`); that reader is on a connection that was opened (`Opened`);
what is unwritten is on no connection and what is pending is on the link
(`NotWritten`); and the lock's queue holds each waiter once (`LockQueue`), without
which a waiter granted the lock could be granted it twice. The crux is `Drop`: both the reader and
a failing request may run it, in either order, also against a link that is newer than
the one that failed.

**`IqHubProofs`.** `OncePerBlock` needs to know whom `_serve_dl` and `_pickup_joins` may
still serve: those left in `todo` are connected (`TodoConnected`), and they and whoever
is not connected have not had the block yet (`NotYetServed`). `NoFalseMiss` rests on
`NoFaultIsHealthy`: a connected UE without a fault is up, is not paused, has no old
request in its queue, and has an uplink block to send whenever one is due from it,
which is from when it is served until it is visited (`UplinkDue`). There is one lemma
for the steps of the gNB, of the UEs and of a fault, one for the uplink phase and one
for all the ways of delivering a block.

**`RlcAmProofs`.** The entities work on numbers that wrap, so nothing they do makes sense
until it is said which SDU a number is. `SnOf(i)` is the number of the SDU with `i` before
it, and the first group of lemmas turns distances of numbers into differences of SDUs
(`AboveUp`, `AboveDown`, `SnOfInjective`), within two windows of each other. `InvAt(a, n)`
then says where everything is, `a` being the SDUs the transmitter has dropped and `n` those
the receiver has delivered without a gap:

- the transmitter's window is the SDUs from `a` on, at most a window of them, each under its
  own number, and only the last may be sent in part; `Begun` is how much of each SDU was
  ever sent, and every retransmission queued is within it (`TxOk`);
- the receiver's window is from `n` to RX_Next_Highest, holds only bytes that were
  begun, and RX_Highest_Status and the trigger of t-Reassembly are within it (`RxOk`);
- `a <= n <= Len(sent)`, what was delivered is the first `n` and the complete SDUs of the
  window (`Deliveries`), and what was confirmed is the first `a`;
- a data PDU in flight is a range of bytes begun (`PduOk`), and a report in flight was built
  when the first `f <= n` were delivered: its nacks are in order, from `f` on, and ask
  for begun bytes only (`ReportOk`).

The last two are the crux. A report may be late: by the time it is handled the receiver has
moved on and the transmitter may have handled later ones, so it is related to the receiver's
past (`f`, `upto`) and shown to do no harm in the present. Its nacks are
merged into ranges when it is built (`AllPushed`) and taken apart where it is handled
(`UnrangedIs`, `ItemsIs`), possibly after it was cut to the grant. `TimelyReport` makes
`ValidAck` decide rightly whether a report is old (`AcceptedIs`). And the SDU under
segmentation is not delivered (`tx.sus # None => n < Len(sent)`), without which a report could
drop an SDU that is still being sent; the invariant is not inductive without it.

What a sequence of library folds computes (`FoldLeft`, `FlattenSeq`, `Min` and `Max` of a
set) is first brought into the form of steps (`PushSteps`, `FlattenSteps`, `RebuiltFold`),
each an induction on the length with a set of numbers as its statement. There is one
lemma per handler for its own entity (`DataPduHandled`, `StatusPulled`, `NewPulled`,
`SegmentPulled`, `RetxPulled`, `HandledIs`, ...), a group that says that what was sound stays
so as more is sent (`InfoGrows`, `PduGrows`, `ReportGrows`), and one lemma per action for
the whole (`PullKept`, `DataKept`, `ReportKept`, ...), which gives the step of `Bearer`
too. `EntitiesAgree` and `BearerIsKept` are read off these.

`ThresholdIsTold` needs that a step counts an SDU up by one at most (`CountedOnce`): the
handler looks for counts that have *reached* the threshold, so a count raised past it
in one step, or raised before the alarm and lowered after it, might slip through. A report
may ask for many parts of an SDU; `CountsKept` shows that they follow each other, so
that the SDU is counted for the first of them only.

**`RlcThreadsProofs`.** `QueueSound` says that the slots match the queue and that every SDU
has one outcome. It is kept only because a slot that is not marked still belongs to an
SDU that has not left (`SlotsAreQueued`), so that whoever frees it decides the SDU, and
because the writer writes each SDU once (`HeldWereWritten`), so that a slot found free
belongs to nobody in the queue. `LettingGoPreserves` covers both ways a slot is
freed, for the SDU that was popped and for a discarded one dropped from the front; `RangeOfAppend` and
`RangeOfTail` are what the queue's sequence needs.

`MacIsTold` follows each chain by which the MAC hears: `MacFollows` lists what is under way
while the MAC knows too little (a pending task, a change that a pull or a handler
will still announce, a task being run), `PendingIsQueued` says that the flag stands for a
task in a queue, and `BarringSeen` that whoever is barred finds the flag when it looks
again. `ReportsAreInOrder` rests on `ReportsInv`: unless the request pending, or the one being
served, is late, the report to be taken for it is the newest.

`TotalsAreExact` is arithmetic modulo `Width` squared over a sum over a finite set of
SDUs. The sum is a fold; `TotalOfMore` says what one more SDU adds, by induction on the number
of SDUs (`CountUp`: an induction on the naturals whose statement is a set of numbers, from
the well-founded order, as the theorems with an operator parameter cannot be used). The
inductive invariant (`TotalsInv`) has the exact difference at every point between
the two accesses of a write and of a discard: a write adds after it has pushed, a
discard subtracts before the push may have been counted, and the packed value may
wrap in between. That both halves come out right then needs the capacity and the byte limit
below `Width` (`WithinLimit`), and lemmas on remainders (`RemainderOfSum`).

**`ReplayProofs`.** `WaitsFit` says which of a UE's awaits find it connected and
`EndsTogether` that the synthetic load begins when all are done. The counters are
then followed step by step: `CounterMoves` says by how much each moves, and
`AgreeingStays` that this is how the sets they count have moved.

**`ScalerProofs`.** `HalfWay` is the state between two batches: everything past the
goal is cancelled, what is under it has a task or is in `rest`.

Every invariant and action property the passing runs check, and both refinements, are
proved. Only model-checked: the liveness properties (`NothingHangs`,
`AbandonedIsReclaimed`, `InStepInTheEnd`, `EveryRequestEnds`, `ScalingEnds`, `ReplayEnds`,
`Recycles`, `Served`, `Stops`, `AllConfirmed`, `NothingForgotten`). Liveness under fairness
and `ENABLED` are beyond the prover. Where a definition is a fold,
what it computes is proved by induction on the number of elements as described above;
there are no recursive definitions here.

## 6. Disagreements between the code and what is said of it

1. `rlc_stall`: when t-PollRetransmit expires with nothing to send, the transmitter
   queues the SDU at TX_Next_Ack again, to "include a poll in an AMD PDU"
   (`rlc_tx_am_entity.cpp:1187`). A STATUS PDU handled before the next grant clears the
   retransmission queue (759-770) and rebuilds it from its own nacks. In the run SDU 2 is
   lost and the report for SDU 1 is late: the expiry queues SDU 1, then the report
   acknowledges SDU 1 and clears the queue. SDU 2 is still in the window, and no
   queue or timer holds anything that would have it retransmitted or polled for until
   PDCP happens to send another SDU.
2. `replay_gauge`: a replayed UE that is refused a report (`ue_sim.py:753`) is never taken off
   `S.active`, "currently connected (gauge)" (`ue_sim.py:318`).

Seen while modelling and without a run of their own:

- RLC: the report the transmitter retrieves is said to be "updated at the reception of
  every PDU" (`rlc_am.md:49`). `get_status_pdu` resets `do_status`
  (`rlc_rx_am_entity.cpp:634`) and swaps the reports seven lines later; a PDU with a poll
  that comes in between has its report taken for the request before it, and its own
  request (119), served when t-StatusProhibit has ended, finds the report the reader put
  back. The MAC is handed a report older than the one before. `ReportsGoForward` says
  that nothing but such a late request has this effect.
- The recorder "follows it to release, then freezes until reset" (`du_server.py:229`),
  but knows the UE by its `ue_id` only. A task cancelled in its release is forgotten at
  once and its index spawned again (`ue_sim.py:397-411`); the new session may be admitted
  before the old `release_complete` is passed on, which then completes the ladder of a UE
  that is in session on that very cell. So no property says that a UE whose ladder is
  complete has been released.
- A socket that breaks under a replayed report (`ue_sim.py:749`) ends the process, so a
  replay is not "always followed by synthetic load" (`ue_sim.py:350`); `ReplayEnds` counts
  it as an end.
- The target set on the dashboard "survives ue-sim restart" (`docker-compose.yml:161`)
  unless its write failed, which is only logged (`ue_sim.py:300`): then the restart goes
  back to an older target or to `NUM_UES`. `SettledMatches` is about the target restored.
- `du_server.py:126` releases the UE everywhere before it decides. A refused handover
  leaves the DU without any session of the UE, which "stays" (`ue_sim.py:640`) on a
  cell that no longer knows it and is dropped at its next report (`InStepInTheEnd`).
- In a handover between two sectors of one radio unit the old socket's `serve_ue`
  removes the row that is by then the new one's (`ru_server.py:260`); the row comes
  back with the UE's next report (`InStepInTheEnd`).
- The log says "Uu stays up" when the F1 link is lost (`ru_server.py:139`), which is so
  for idle UEs only, as `serve_ue` closes the Uu socket of every UE with a request in
  flight.
- The recorder holds on to a UE past `TRACE_MAX` or after the UE was cut off, until a
  reset: the two exceptions in `LockHeldForReason`.
- With one connected UE `_serve_dl` waits for its request without a deadline
  (`iqhub.py:175-178`). If that UE has gone, the hub waits for ever, the gNB with it, and
  another UE cannot join, although the docstring of the loop says that a gone UE is
  bridged (117-122). `Recycles` and `Served` have it as `WaitsForGone`.
- RLC: the DU's adapters of `on_protocol_failure` and `on_max_retx` are empty, so the
  alarm `MaxRetxTold` is about reaches nobody yet. `retx_count` may pass the threshold
  it is compared with by `==` when an SDU's count was raised by two causes before the
  first was looked at; the alarm has been given by then. The comment above
  t-Reassembly's restart names the condition for stopping it; the code stops it also when it
  is at the edge and starts it again.
- RLC: trimming a report and merging ranges may leave a range that reaches beyond
  ACK_SN; `Unranged` cuts it, as the transmitter does.
- RLC between the executors: a refused task leaves its
  "pending" or "prohibited" flag set for good (`NothingForgotten` exempts it); the
  packed totals are short for an instant in which a discard has subtracted what a
  write has yet to add.

## 7. Not modelled, and the plan

Modules still to write, in the order of what can go wrong:

1. `Storm`: the orchestrator's waves and the marker files.
2. `S1apSession`: the session state machine of `digital-twin/state_machine.py`
   against a reference definition of legal sessions.
3. `Stitch`: the ordering of records in `trace_stitch`, a pure algorithm, and the
   dashboard's cache of its previous poll.
4. Of the vendored code, next to RLC: PDCP's reordering window and discard timers
   (`ocudu/lib/pdcp`), whose discards are a free choice in `RlcAm`, and the HARQ entities
   of the MAC, which are `Timely` there.

Theorems still to prove:

1. `Stack`: the DU's `PoolSound` lifted to it (its steps on the DU's variables are the
   DU's, from an initial state with links open).
2. `RlcAm`: the safety half of `AllConfirmed`: while an SDU is unconfirmed and `forgot` is
   unset, something is under way (a retransmission queued, a poll or its timer, a report)
   that leads on.

Left out for good: the RF propagation formulas (floating point), HTTP pages and
dashboards (they read what is modelled), offline parsing of traces and logs (pure
functions over text), training and arrival statistics, docker and shell scripts. Of
the vendored srsRAN 4G and OCUDU sources, ASN.1 codecs (generated; more than half of
the C++), the physical layer (arithmetic on samples) and drivers; their
remaining protocol entities each are a project of this size.
