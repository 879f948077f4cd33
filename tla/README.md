# A TLA+ verification of PCC-Uspace

PCC-Uspace is a user-space transport: the UDT library (`src/src/core`) with its
reliability replaced by per-packet acknowledgements and a packet tracker, and its
congestion control replaced by PCC Vivace (`src/src/pcc`).  The modules here model that
program as it is: every definition follows the C++ it is mapped to in `PROJECT.json`.

Paths below are relative to the repository; `core.cpp:1608` means
`src/src/core/core.cpp`, line 1608.

## 1. The system

### Threads and locks

A connected socket is worked on by three threads:

| thread | code | locks |
|---|---|---|
| application | `CUDT::send`, `CUDT::recv` | `m_SendBlockLock`, `m_RecvDataLock` around waits; `lock_` inside the tracker |
| send-queue worker | `CSndQueue::worker` → `CUDT::packData` → channel | `pcc_sender_lock` in `packData` (released before the datagram leaves) |
| receive-queue worker | `CRcvQueue::worker` → `processData`, `processCtrl` / `ProcessAck`, then `checkTimers` | `pcc_sender_lock` in `ProcessAck` and in `add_to_loss_record` |

The tracker takes `lock_` once per call, so a handler that makes three calls has three
critical sections; the ring of the receive buffer has no lock at all.

### Inventory

| component | state | operations | hard behaviour | what makes it correct |
|---|---|---|---|---|
| `CSeqNo` (`common.h`) | – | `seqcmp`, `seqlen`, `seqoff`, `incseq`, `decseq` | the wrap of 31-bit numbers | they agree with plain distances below `m_iSeqNoTH` |
| `PacketTracker` (`packet_tracker.h`) | records by sequence number and message number, send queue, retransmission queue, sent queue, `sent_time_map_`, `cur_min_seq_` | `EnqueuePacket`, `OnPacketSent`, `OnPacketAck`, `OnPacketLoss`, `DeletePacketRecord`, the getters that pop stale entries | three threads; lazily cleaned priority queues; retransmissions with new ids | no packet is forgotten, no timer is stale |
| data sender (`core.cpp`) | `m_iSndCurrSeqNo`, `m_iSndLastDataAck`, `BytesInFlight`, loss totals | `send`, `packData`, `ProcessAck`, `checkTimers`, `add_to_loss_record` | late and repeated ACKs, spurious losses, ACK while sending, lost wake-ups | PCC learns each fate once; payloads live; calls return |
| data receiver (`core.cpp`, `buffer.cpp`) | ring of units, `m_iStartPos`, `m_iLastAckPos`, `m_iMaxPos`, `m_iRcvLastAck` | `processData`, `addData`, `recv`, `readBuffer`, shutdown, `releaseSynch` | lock-free ring, reordering, repeats, full buffer, blocked reader at shutdown | in-order delivery, wake-ups, shutdown ends |
| monitor interval queue (`pcc_monitor_interval_queue.cpp`) | intervals with packets, fates, reliable samples; pending ACK; burst detection | `EnqueueNewMonitorInterval`, `OnPacketSent`, `OnCongestionEvent`, `OnRttInflationInStarting` | fates out of order, ACKs counted one event late | each fate counted once, no interval stuck |
| PCC sender (`pcc_sender.cpp`) | mode, RTTs, monitor duration | `OnPacketSent`, `OnCongestionEvent`, `CanSend` | mode changes with intervals of the old mode queued; zero RTT | assertions hold, never throttled for good |
| Vivace (`pcc_vivace_sender.cpp`) | rate, direction, rounds, step allowance, latest utility | `OnUtilityAvailable`, `MaybeSetSendingRate` and what they call | probing rounds that are cut short, rate at the floor | central rate kept, comparable groups, no collapse |
| utility functions (`pcc_utility_manager.cpp`) | parameters | `CalculateUtility` | floating point | not modelled |
| send scheduling (`CSndUList`, `CSndQueue::worker`, `CTimer`) | heap of sockets by time, the worker's sleep | `insert_`, `update`, `pop`, `remove_`, `sleepto`, `interrupt` | heap places cached in the sockets, lost wake-ups | places exact, the worker waits only for an empty heap |
| unit queue (`CUnitQueue`) | flags of the units, `m_iCount`, `m_pAvailUnit` | `getNextAvailUnit`, `increase`, release by `readBuffer` | two threads, no lock | no unit overwritten while in use, no starvation |
| receive queue, rendezvous queue (`queue.cpp`) | socket list, hash, new entries, `m_pListener`, stored packets | worker loop, `updateConnStatus`, `storePkt`, `recvfrom` | pointers to sockets that others close | no pointer outlives its socket |
| connection setup (`core.cpp`, `api.cpp`) | `m_ConnReq`, `m_ConnRes`, connection flags, cookies, backlog | `connect`, `connect(response)`, `listen(addr, packet)`, `newConnection` | lost, repeated and overtaking handshakes; two threads watching one time to live | `connect` ends; connected means connected at both ends |
| keep-alive (`core.cpp`) | `m_iEXPCount`, `m_ullLastRspTime` | EXP part of `checkTimers`, `processCtrl`, `processData` | quiet against dead peers | dead peers are noticed, live ones kept |
| socket table (`api.cpp`) | sockets, closed sockets, accept queues, multiplexers with reference counts, `m_PeerRec` | `newSocket`, `bind`, `listen`, `newConnection`, `accept`, `connect`, `close`, `checkBrokenSockets`, `removeSocket`, `cleanup` | GC against application and workers | nothing freed is used, everything closed is freed |
| epoll (`epoll.cpp`) | subscriptions and ready sets per id, ids per socket | `create`, `add_usock`, `remove_usock`, `release`, `enable_*`, `disable_*` | both halves of a subscription change apart from each other | what waits is reported |
| send buffer (`CSndBuffer`) | ring of blocks over a ring of buffers | `increase`, `addBuffer`, `readData`, `ackData` | growth in the middle of the ring | the jump through the buffers ends where a walk would |
| loss lists (`list.cpp`) | linked ranges, `m_iLength`, `m_iLastInsertPos` | `insert`, `remove`, `getLostSeq`, `find`, `getLossArray` | ranges that touch and overlap, the wrap | they hold exactly the lost numbers |
| `CCC`, windows, cache, MD5, packet format, channel, applications | | | | left over from UDT or pure I/O; see `PROJECT.json` |

Interactions: `send` hands packets to the tracker and puts the socket into `CSndUList`;
the send worker asks PCC (`CanSend`), takes a packet from the tracker, tells tracker and
PCC, and sends; the peer's `processData` answers each data packet with an ACK for that
very transmission (sequence number and message number) before it looks for room in the
buffer; `ProcessAck` tells tracker and PCC and wakes `send`; `checkTimers` declares
overdue transmissions lost, which queues them again and tells PCC.  Around this,
`CUDTUnited` creates, connects, closes and frees the sockets under `m_ControlLock`; the
workers of a multiplexer keep raw pointers to them and are protected by `m_bOnList` and
delays only.

## 2. The modules

| module | models | notes |
|---|---|---|
| `SeqNo` | `CSeqNo` | used by all that follows |
| `PacketTracker` | the tracker's operations, one operator per locked section | records, `packet_state_`, message numbers, three queues, timers; `fatal` stands for the `exit(-1)` checks and for the NULL dereference |
| `Sender` | the three threads around one tracker | program counters where a lock is released between two calls |
| `Receiver` | `processData`, `CRcvBuffer`, `recv`, shutdown | one step per slot that `readBuffer` copies and clears |
| `Connection` | `Sender` + `Receiver` + network | the network is what each side has sent so far; anything of it may arrive, again, late or never |
| `ReliableStream` | abstract: an input that grows, an output that is a prefix of it | `StreamRefined`: `Connection` implements it |
| `PccModes` | modes, their successors, the limit of useful intervals | shared by the next three |
| `MonitorIntervalQueue` | `PccMonitorIntervalQueue` | bytes count packets; an ACK interval is zero or positive; the average interval ratio is unset, finite or infinite |
| `PccSender` | `PccSender` with its queue | the mode a decision leads to is any in `NextModes` |
| `Vivace` | the rates and decisions | keeps of the queue only the rates of the useful intervals and the kind of the tail; `ModesRefined` shows that its mode changes are those `PccSender` assumes |
| `LossLists` | `CSndLossList`, `CRcvLossList` | the static arrays with their slots and links; each loop is a recursive operator |
| `UnitQueue` | `CUnitQueue` | `++` and `--` of `m_iCount` are a read and a write each |
| `SndBuffer` | the blocks of `CSndBuffer` | all operations hold `m_BufLock`: a step each |
| `SndUList` | `CSndUList`, `CSndQueue::worker`, `CTimer` | the heap is changed under `m_ListLock`; the worker's decisions are steps of their own |
| `Epoll` | `CEPoll` and the places that report to it | `epoll_add_usock` and `epoll_remove_usock` are two steps, as in `api.cpp` |
| `Sockets` | `CUDTUnited`, `open`/`listen`/`connect`/`close` of `CUDT`, the lists of the receive worker | a handler is a step; pointers are ids, and a freed id keeps its state |
| `Handshake` | `connect`, the rendezvous queue, `listen(addr, packet)`, cookies, `newConnection` | the network is the set of all that was sent |
| `KeepAlive` | the EXP timer at both ends | time in ticks; messages have an age |
| `MC*` | instances for TLC | `MCStructures` and `MCLifecycle` hold several modules: the variable `part` says whose behaviour this is, the variables of the others never move |
| `SenderTypeProofs`, `SenderProofs`, `SenderReportProofs` | theorems about `Sender` | section 5; each extends the one before |
| `StreamProofs` | theorems about `Receiver` and `Connection` | extends `SenderProofs` |
| `PccSenderProofs`, `VivaceProofs` | theorems about PCC | |
| `StructureProofs` | theorems about `SeqNo`, `Epoll`, `UnitQueue` | |
| `LifecycleProofs` | theorems about `KeepAlive`, `Handshake`, `Sockets` | |

**Sender.**  State: the tracker's containers as functions and sets over the sequence
numbers and packet ids; a program counter per thread.  `send` is `SendCall`, `SendEntry`
(the checks up to the first wait), `SendLoop`/`SendWait`/`SendTimeout` (the wait loop, with
the gap between checking the condition and waiting), `SendRecheck`, then per packet
`SendNext` (GetNextSeqNo), `SendCompare` and `SendRecord` (the three sections of
`EnqueuePacket`: its update of `cur_min_seq_` is outside `lock_`), and `SendFinish`.
`packData` is `PackRetransmission` or `PackNewPacket` followed by `PackCommit`
(`OnPacketSent`); `Transmit` is the send after the lock is gone.  `ProcessAck` is
`ProcessAck`, `AckDelete`, `AckMinSeq`, `AckSignal`, `AckReport`.  `checkTimers` is
`OldestSent`, then `OldestGone`, `OldestOverdue` + `AddToLossRecord`, or
`OldestNotOverdue`.  Whether a transmission is overdue is left open: a loss may be spurious.
`CanSend` is not a guard of `packData` here, because `NeverThrottled` shows that PCC never
refuses.

**Receiver.**  `addData` is one step: the reader sees each slot either before or after
it, and the reader only reads below `m_iLastAckPos`.  `readBuffer` is a step per unit, so
that the worker fills slots while the reader clears others.  `releaseSynch` at shutdown
runs in the worker and waits for a `recv` that holds `m_RecvLock`.

**PCC.**  `OnCongestionEvent` gets one packet at a time, as `ProcessAck` and
`add_to_loss_record` call it.  An event counts its own loss at once and the *previous*
event's acknowledgement; both are in `Counted`.  In `Vivace` a rate is an integer in
kbit/s, products are rounded to the nearest unit as `QuicBandwidth` does with bit/s,
subtraction stops at zero, and utilities are replaced by the outcomes they can have: a vote
per probing group, a comparison with the latest utility, and the rate change that the
gradient asks for.

**The structures.**  `LossLists`: a list is a record of `m_piData1`, `m_piData2`, `m_piNext`
(and `m_piPrior`) over the slots, with `m_iHead`, `m_iLength` and `m_iLastInsertPos` or `m_iTail`.
`SndInserted` has the five cases of `insert` (empty list, before the head, at a slot, after one
that does not reach, into one that does), `Coalesced` the loop that ends it; `SndRemoved` and
`FreedToHead` are `remove`, `WithoutFirst` is both `getLostSeq` and `remove` of the head's first
number; `RcvRemoved` is `remove(seqno)` with `Unlinked`, `Moved` and `Cut` for its ways to change
the arrays, `Visited` the two loops of `remove(seqno1, seqno2)`.  The links of an empty slot are
forgotten after each operation (`Garbage`), which keeps the states few; a read of one would stop
TLC.  The histories `sndLost` and `rcvLost` follow `list.h` and not the code.
`SndBuffer`: `heads` are the `first_block`s in the order of the ring of buffers;
`increase` inserts the new blocks before `m_pFirstBlock` and moves the border between old and
new buffer; `Locate` is the jump that `readData` and `ackData` make.  `UnitQueue`: the receive
worker is `GetBegin`, `GetGrow`, `GetScan`, `GetMissed`, then `Discard` or `Store` and
`StoreCount`; `recv` is `ReadStart`, `ReadRelease`, `ReadCount`; the search of `getNextAvailUnit`
is the first free unit, in the order of the ring, of the first array that has one (`Searched`,
`FreeIn`; an array's last unit is never looked at).  `SndUList`: `Pop` is `pop`
with what `packData` says about the next time; `NextProcTime`, `SleepTo`, `SleepEnds` and
`Idle` are the worker between locks.  `Epoll`: the history variable `late` holds the polls to
which a listener was added (or whose readiness another `removeEPoll` cleared) while connections
waited already, which the code does not report.

**Sockets.**  A socket is a record of the flags of `CUDTSocket` and `CUDT`, `place` says in
which map it is, a multiplexer is a record of its port, reference count and the worker's
containers.  Every API call, every packet that changes a connection's state, `TimerCheck` and
`CheckBrokenSockets` is an action over that state; `Aging` ends a delay of the collector.
`Shut` is `CUDT::close`, `RemoveSocket` is `removeSocket` for all sockets that are due.  After
`cleanup` nothing but the workers and the collector runs.

**Handshake.**  A client's `connect` is `ConnectCall`, then for a blocking one rounds of
`ConnectLoop` over the packets that the worker stored (`ClientPacket`), until `Verdict` or
`ConnectTimeout`; a non-blocking one is driven by the worker.  `Responded` is
`connect(response)` with its return value.  The server gives a cookie without keeping state and
makes a connection for a valid one.

**KeepAlive.**  `Expire` is the EXP part of `checkTimers`, `Heard` the reset in `processCtrl`
and `processData`, `Deliver` a message with its answer (data is acknowledged, a keep-alive is
not).  `heard` is a history: how long nothing has come from the peer.

## 3. Runs

All passing runs end within two minutes with two workers.

| run | instance | shows |
|---|---|---|
| `structures` | numbers: 16, every origin, all distances below 7; loss lists: 6 numbers across the wrap in 6 slots; units: arrays of 3, 3 in use; blocks: buffers of 3, 9 packets, one acknowledged too many; heap: 3 sockets, clock up to 4; epoll: 2 ids, a listener with 2 waiting connections, a connected socket | circular arithmetic equals plain distance, order and count; loss lists hold exactly what is lost, with exact links, but for `m_iMaxSeqNo` after the removal of a range across the wrap; no unit in use is handed out and the pool never refuses twice in a row; the jump through the send buffer is exact; heap places are exact and no wake-up of the worker is lost; polls name what they watch and do not miss waiting connections |
| `lifecycle` | sockets: 3, of which 2 the application's, one port, one peer, backlog 1; handshake: one client of either kind among others, backlog 1, one change of the secret; keep-alive: both ends, losses and crashes, 4 expirations | nothing freed is used; one live connection per peer; closed sockets are freed; `connect` ends, and connected means connected at both ends; a peer is given up only after silence, and a crashed one is noticed |
| `sender_safety` | 3 packets, 2 transmissions each, limit 2, all modes of `send` with 1 or 2 packets | no packet is forgotten, no stale timer, the payload outlives the send, PCC is told once, `BytesInFlight` covers the flight, no `exit(-1)` |
| `sender_blocking` | 4 packets, limit 3 | a blocked `send` returns, although signals can be lost |
| `receiver` | ring of 4 slots, 5 packets of 2 bytes, reads of 1–3 bytes, wrapping numbers | in-order delivery, consistent slots with one always empty, reader never meets an empty slot; data is read, `releaseSynch` ends |
| `connection` | 2 packets, 2 transmissions, ring of 3, numbers wrap after the first packet | nothing is lost between tracker and ring; refinement of `ReliableStream`; all that was queued is delivered; PCC learns every fate |
| `connection_acked` | 3 packets, ring of 3 (two usable) | **violation**: a packet is acknowledged and dropped |
| `sender_wrap` | numbers wrap after 2 of 3 packets | **violation**: the process exits in `OnPacketSent` |
| `pcc_intervals` | 9 packets, at most 3 without a fate, 1 or 2 probing groups, 2 reliable samples per interval | fates counted once, no stuck interval, never throttled, assertions hold |
| `pcc_firstrtt` | 4 packets | **violation**: a loss as the first event counts as a valid RTT |
| `vivace` | 3 and 2 groups (the code's values), hybrid utility, smallest rate and change 500, initial rate 1140, 7 decisions | central rate kept, comparable groups, rate floor and no zero delta, mode changes |
| `keepalive_idle` | the code's constants, a tick of 0.2 s, no losses | **violation**: an idle connection is given up |

`CHECK_DEADLOCK FALSE` is set where the bounds end the stream (`MaxEnqueued`, `MaxPackets`,
`MaxDecisions`, `MaxMsgs`, `MaxSocket`, `MaxUses`), where a process may have exited, and where
everything is closed and freed: such a state has no successor by design.

**Why the bounds suffice.**  Every stated hazard needs few objects.  In the sender: two
packets, so that one can overtake the other in a queue; two transmissions of one, so that
an acknowledgement can be old; a third packet, so that a blocked `send` and the limit
matter.  In the receiver: a ring that wraps (5 packets in 4 slots), and reads that end
inside a packet.  In PCC: two groups of two intervals, of which several are open at a time,
and enough packets to pass a decision and start again; a burst and its end.  In `vivace`:
seven decisions go from `STARTING` through probing and deciding to the smallest rate and
back to `STARTING`.  In `structures`: six numbers make ranges that touch, overlap, swallow and
split, with the wrap among them; a buffer of three blocks grows at each of its positions; three
heap entries have a root with two children, the shape in which `remove_` moves another entry.
In `lifecycle`: a listener, a connector and an accepted connection; the invariants
were also checked with two calls of `connect` or `listen` per socket, 604 000 states, where the
exception that `NoDangling` makes is met.  The keep-alive constants are scaled down and keep the
code's relations: the count decides, not the time.  `structures` uses symmetry among sockets and
poll ids, which is sound there because only invariants are checked.  `MinReliableRtt` is 2
instead of 4; `HasInvalidUtility` can never hold for an available interval as long as the value
is at least 2, which `MinReliableRttAssumption` states.  Every property has a mutant (a plausible
slip in one mapped definition, `Mut...`) that violates it within the same bounds.

**Fairness.**  Each thread continues what it has begun (weak fairness of its steps; strong
fairness of the send worker, which must win `pcc_sender_lock` again and again, as a mutex
with two contenders gives it).  The clock runs, so a transmission that stays unacknowledged
becomes overdue (strong fairness of `OldestOverdue`).  The network is not dead forever: the
last transmission that the bound `MaxTx` allows a packet is acknowledged; earlier ones may
be lost.  Two restrictions on the environment of `FairSpec` are stated in the module: the
stream goes on (the acknowledgement of the only packet in the tracker does not come before
the next packet is there, else `GetMinSeqNo` dereferences NULL), and not *all* outstanding
acknowledgements arrive between the check and the wait of one `send`.  `Receiver`: the threads
go on with what they have begun and the application calls `recv` again; nothing is assumed of
the network.  `Sockets`: the receive worker goes around its loop, the collector runs every
second and delays end; nothing is assumed of the application or the peers.  `Handshake`: time
goes on, the worker and a thread blocked in `connect` run; nothing is assumed of the network.
`KeepAlive`: time goes on, the worker runs, and a message arrives unless it is lost.

## 4. Disagreements between the code and what it says

With a run (`findings` in `PROJECT.json`):

* `connection_acked`: `processData` acknowledges before it looks for room
  (`core.cpp:1877`), so a packet beyond the free slots is acknowledged, dropped and never
  sent again; `packet.cpp:97` describes the ACK as "all the previous packets have beed
  received".  The tracker's limit is 100000 packets, the ring has 65536 slots, and the
  advertised window is not consulted.
* `sender_wrap`: the tracker compares sequence numbers as integers.  When they wrap while
  packets are queued, `send` can put a smaller number on top between `packData`'s choice and
  `OnPacketSent`'s check, and the process ends with "Attempted to send out of order!"
  (`packet_tracker.h:285`).
* `pcc_firstrtt`: `has_seen_valid_rtt_` is set by the first event, also by a loss
  (`pcc_sender.cpp:248`), while `pcc_sender.h:232` says "after receiving the first ACK".  The
  rate is then multiplied by 100000/0.
* `keepalive_idle`: an idle connection is declared broken although both processes run and the
  network loses nothing.  An end that has never sent data keeps its initial RTT of 10 s and
  variance of 5 s, so its EXP interval is 30 s; the sender's keep-alives reach it before that,
  so it never sends one, and keep-alives are not answered (`core.cpp:1700`).  The sender counts
  17 expirations (`core.cpp:2066`) and gives up after about a minute; the comment says that the
  "only purpose of keep-alive packet is to tell that the peer is still alive".

Met while modelling, without a run:

* `cur_min_seq_` is updated before `lock_` is taken (`packet_tracker.h:239-244`): a
  `DeletePacketRecord` in between leaves it above a queued packet, and `ProcessAck` moves
  `m_iSndLastDataAck` too far.  The model has the interleaving.
* `GetMinSeqNo` (`packet_tracker.h:602-605`) dereferences `cur_min_seq_` also after the last
  record was deleted.  The model ends the process there (`fatal = "segv"`).
* `DeletePacketRecord` signals `m_SendBlockCond` without its mutex (`packet_tracker.h:390`):
  single wake-ups can be lost; `SendReturns` shows that later ones make up for them.
* `send` puts all its data into the tracker and returns what fits the send buffer
  (`core.cpp:1232`); `core.h:228` promises the "Actual size of data sent".
* `GetOldestSentSeqNo` returns 0 for an empty queue; when the send worker sends between the
  two `HasSentPackets` (`core.cpp:2009-2011`), packet 0 is counted as lost.
* `m_iFlightFlagSize`, "Maximum number of packets in flight from the peer side"
  (`core.h:422`), limits nothing in `packData`.
* "The smallest sending rate supported by Vivace" (`pcc_vivace_sender.cpp:27`) is undercut:
  leaving `STARTING` halves a rate that may be the smallest already, and probing takes another
  5 %.  `RateFloor` states what does hold: 0.4 of it.
* A decision made while a useful interval is at the tail starts from the last probing rate,
  because `FLAGS_restore_central_rate_upon_app_limited` is false
  (`pcc_vivace_sender.cpp:88`); two equal rates may then meet in `ComputeRateChange` and trip
  its assertion.  `RateFloor` also states that this is the only way.
* `UDT_UTAG` set in the middle of `PROBING` (`core.cpp:260`) changes the number of groups
  under the queued intervals and can trip the assertion at `pcc_vivace_sender.cpp:94`.
* A loss event has a zero ACK interval; the acknowledgement before it is then divided by zero
  and `avg_interval_ratio_` becomes infinite for good (`pcc_monitor_interval_queue.cpp:177-199`):
  from then on no burst is ever detected.
* `checkTimers` says "must be greater than 10 seconds" and compares with 5 (`core.cpp:2065`);
  neither is ever binding, because 17 expirations take longer (`DeadOnlyAfterSilence`).
* Two transmissions with the same clock reading would share an entry of `sent_time_map_`
  (`packet_tracker.h:302`); the model takes the nanosecond clock to advance between them.
* `connect()` may return success unconnected: a data packet that overtakes the response, or a
  response after the worker has found the time to live over, makes `connect(response)` return -1,
  which ends the loop like a 0, and the verdict looks only at an earlier cookie (`core.cpp:771`).
* `connect()` or `listen()` after a failed `connect()` leaves the old entry in the rendezvous
  queue, which dangles when the socket is freed; `NoDangling` excludes exactly this case.
* A refusal (1002) goes through the same code as an acceptance before `connect` looks at it:
  buffers are made and the worker gets the socket.
* The string of the previous minute is appended to that of the current one in `listen`, so a
  cookie is never accepted after its minute has ended.
* A repeated request that comes after its connection was closed and freed makes a connection
  nobody has asked for.
* The end of the garbage collector holds `m_ControlLock` and closes every socket, which takes
  `m_ConnectionLock`; a blocking `connect()` holds that and takes `m_ControlLock` in
  `connect_complete` (`core.cpp:924`).  Both can wait for each other.
* An asynchronous close whose linger time ends with unsent data leaves the socket in the send
  list when it is freed.
* `remove_` only sinks the entry it moves (`queue.cpp:437`), which breaks the heap order for
  six sockets and more: the root need not be the earliest.  `interrupt` between
  `getNextProcTime` and `sleepto` is overwritten.  Both delay a packet, neither loses one.
* `removeEPoll` takes the id off the socket first and then clears the readiness in the *other*
  polls; a listener added while connections wait, and data that arrives, are never reported.
* When a range crosses the wrap, the first loop of `CRcvLossList::remove(seqno1, seqno2)` ends
  before `m_iMaxSeqNo` (`list.cpp:612`), so that number stays in the list; `list.h:140` says
  "Remove all packets between seqno1 and seqno2".  `processCtrl` calls it for a message drop
  request (`core.cpp:1746`); the list is empty there today, because nothing calls `insert` any
  more.  The oracle `rcvLost` of `LossLists` follows `list.h`, and `ListsExact` allows exactly
  this number to be left, and only after such a removal.

## 5. Proofs

`tlapm` checks every leaf.  The theorems hold for every value of the constants that satisfies
the named assumptions, so the bounds of the runs (packets, transmissions, decisions, sizes of
the buffers and of the sequence space) do not limit them.

**Sender.**

* `SenderTypeProofs`: `TypeCorrect` (`TypeOK`).  `TypeOK` is not inductive, since
  `m_iSndCurrSeqNo` may be -1 until the first `GetNextSeqNo`; `TypeInv` adds when.
* `SenderProofs`: `PacketsNeverForgotten`, `TimersNeverStale`, `PayloadOutlivesSend`, also
  across a wrap of the numbers.  The inductive invariant `SafeInv` adds to the types
  that the numbers handed out are the first `enqueued` ones (`Allocation`; so a new record never
  overwrites one), how message records, packet ids, queues and timers belong together
  (`TrackerInv`; a packet id belongs to one transmission, the latest transmission is the one
  with a timer, and what a worker holds between two locked sections still exists), and that
  `cur_min_seq_` is not NULL while there are records (`MinSeqPresent`; so deletion succeeds).
* `SenderProofs`: `BytesInFlightCovered` (`BytesCovered`), also across a wrap.  The count of bytes
  and the tracker's records change in different steps: `packData` counts a new packet before
  `OnPacketSent` records it, and `ProcessAck` discounts one after `DeletePacketRecord`.  `BytesInv`
  has a term for each gap, `bytesInFlight >= |InFlight| + CountedEarly + DiscountedLate`, and needs
  `SafeInv` to know that a worker in a gap still holds the packet it counted.
* `SenderReportProofs`: `ProcessNeverExits`, `PccNeverToldTwice`, under the assumption `NoWrap`
  (`0 < ISN` and `ISN + MaxEnqueued <= MaxSeqNo + 1`: the numbers do not wrap and 0 is not handed
  out): `ReportInv` adds that the
  packet a worker picked is still on top of its queue and that exactly the transmissions with
  an armed timer have no report.  `sender_wrap` shows that the assumption is needed.

**Receiver and connection** (`StreamProofs`).

* `StreamInOrder`, `SlotsStayConsistent`, `ReaderNeverMeetsGap`.  None of the three is inductive.
  `RInv` describes the ring by three numbers that no variable holds: `recv` has finished `S`
  packets before the one at `m_iStartPos` and `C` more in the call it is in, and `D` packets from
  `m_iStartPos` on are received in sequence.  The slots below `C` are empty, those from `C` to `D`
  hold packets `S+C`, `S+C+1`, ..., the slot at `D` is empty, and beyond it only `m_iMaxPos` slots
  may be filled.  That the search of `addData` finds a first gap follows from a well-founded
  order on finite sets (`Least`, `GapExists`).
* `ConnectionIsReliableStream`: `Connection` implements `ReliableStream`.  `CInv` puts `SafeInv`
  and `RInv` side by side, and adds that all the receiver has, and all it has acknowledged, was
  transmitted; what was transmitted had been queued (`OnWireQueued`), hence the bytes delivered are
  a prefix of those queued (`DeliveredQueued`).  `SendRecord` is a `Write`, `ReadUnit` a `Read`,
  every other step a stutter (`StreamStep`).
* `NothingLostInWindow`: as long as every packet on the wire has a place in the receive buffer
  (`InWindow`), nothing is lost and every acknowledged packet has been received.  The hypothesis
  is a property of the behaviour, since nothing in the code enforces it: `connection_acked` shows
  what happens without it.  `NothingIsLost` is the case of a buffer larger than the stream
  (`MaxPkts < RcvBufSize`), which is the case of the run.  `LossInv` adds to `CInv` that what is
  acknowledged is received and that `ProcessAck` deletes only what is acknowledged.

**PCC.**

* `PccSenderProofs`: `EveryFateCountedOnce`, `NoDecisionIsMissed`, `PccNeverStopsTheSender`,
  `PccAssertionsHold`, all from `PInv`: the intervals in the queue have consecutive ranges of
  packets, each balances its counts with the fates told (the pending acknowledgement is the one
  that is told and not counted), the useful ones stand together with at most one other interval
  before and after them, and without a valid RTT there is no useful interval.
* `VivaceProofs`: `CentralRateStays`, `GroupsStayComparable`, `RateNeverCollapses`,
  `ModeChangesAllowed`, from `VInv`.  Rates are rounded, so the proofs follow the rounding:
  undoing a step down gives the central rate or, for one rate in twenty, one unit more
  (`DownUndone`); `BaseRate` says that this happens once and not in every round.  It was found
  when a first version of `CentralRateKept`, which allowed one unit, turned out to be false for
  such rates; the run's initial rate now leads there.

**Structures** (`StructureProofs`).

* `OffsetExact`, `CompareExact`, `LengthExact`: `Congruent` says that the cursor is `dist` steps
  from the origin modulo the size of the space.
* `PollReportsExact`: `EpollInv` adds that ready sets are within the subscriptions, and in which
  half-finished call a listener may be unreported.
* `PoolStaysSound`: `UnitInv` gives, for some number of arrays, the shape of the pool, what each
  thread holds between its steps, and a bound on the error of `m_iCount`: the lost updates leave it
  at most one above the usable units, so the refusal at `m_iCount >= m_iSize` is never taken; a
  refusal of the search is always followed by one that finds a unit or by growth (`Recovers`).

**Life of a connection** (`LifecycleProofs`).

* `SilenceBeforeDeath`: `KeepInv` bounds the silence from below by the expirations counted,
  `heard >= sinceRsp + (expCount - 1) * MinExpInt`.  It needs
  `DeadCount * MinExpInt + DeadTime >= QuietTime` (`KeepAliveAssumption`): in the code
  16 * 0.41 s + 5 s against the 10 s of its comment.
* `ConnectionAtBothEnds`: `HsInv` adds that an acceptance on the wire has a connection behind it
  and that the packets the worker stores for a client were sent to it.
* `OneLiveConnectionPerPeer`: the invariant `Good` says that the identifiers in use are the first
  ones, that every socket recorded of a peer or waiting in a backlog is in use, and that of a
  peer's sockets on the table only the newest may be unbroken.  `newConnection` looks
  only at the newest one `locate` finds and adds a socket only when that one is broken, so the
  older ones must be known to be broken already.  Each handler is a composition of
  transformations of the state; `Keeps` is what every transformation does that opens no socket,
  mends none and records none of a peer, and it is transitive, so that the chains of `close`,
  `removeSocket` and `checkBrokenSockets` compose from one lemma per link.
* `NothingDangles` (`NoDangling`).  The invariant `Core` says whose pointers a multiplexer holds:
  its listener is alive, opened, listening and bound to it; what its worker lists or has been
  handed is alive, bound to it and says so (`m_bOnList`), does not connect again, and is
  connected while it is in `m_Sockets`; the entry of the only `connect()` of a socket belongs to
  an opened socket of this multiplexer, so that `CUDT::close` removes it; a socket still `INIT`
  has no multiplexer, and the references of a multiplexer are the number of its users.
  `QueuesOk` says that what waits to be accepted is open and knows its listener.  Two parameters
  let the chains of the collector compose: `Core(s, X)` exempts the sockets `X` that
  `CUDT::close` has shut and that are still in `m_Sockets`, `QueuesOk(s, X)` the listeners `X`
  about to be freed.  Each operator has a lemma: `Still` covers those that change no field the
  invariant reads, `OneCore` those that change one socket, and `ShutCore`, `ClosedCore`,
  `CollectedCore`, `OrphanedCore` and `RemoveCore` the links of `close`, `checkBrokenSockets`
  and `cleanup`.  What protects a freed socket is that `checkBrokenSockets` removes only
  sockets that are not `m_bOnList`; that `connect_complete` finds its socket on no list is what
  keeps the flag exact.

**Only model-checked.**  All liveness (`SendReturns`, `StreamDelivered`, `PccInformed`,
`ReceivedIsRead`, `ReleaseEnds`, `ClosedIsFreed`, `ConnectEnds`, `SilentPeerDetected`), which this
prover does not reach.  `ScheduleConsistent`: the heap of `SndUList` uses recursive operators, in
a module with which the SMT backend is not available; so do the loops of `LossLists` (`ListsExact`).
`BlocksExact`: the walk through the send buffer is a recursive function; facts about what it
computes for every input need induction with an operator parameter, which the provers cannot
instantiate.  (Least-element arguments do not: the well-foundedness theorems take
a set, and are used above.)

## 6. Not modelled, and the plan

Out of scope: floating-point utilities and estimators (`pcc_utility_manager.cpp`, `window.cpp`,
`ccc.cpp`: their outputs are numbers, or not used for pacing any more), byte formats and socket
I/O, MD5, the cache of host information, the wrappers of the C API, the command line programs.
Within the modelled parts: `readMsg`/`recvmsg`, `sendfile`/`recvfile` and `addBufferFromFile`,
`resizeMSS`, rendezvous connections, `select`, `bind` to a given UDP socket, a blocked
`accept()`, system sockets in epoll, more than one application thread per direction, the locks
inside the handlers of `CUDTUnited` (each handler is a step), and what several sockets on one
multiplexer do to each other beyond `Sockets` and `SndUList`.

Simplifications that a reader should know of: `Vivace` rounds products exactly, `QuicBandwidth`
multiplies in single precision (`quic_bandwidth.h:109`); a loss report for a number without a
record (packet id 0) is left out of `PccSender`, which would ignore it; `ConnectFails` of `Sockets`
happens only before the connection is up, so the status `OPENED` that `api.cpp:738` gives a socket
whose refusal went through `connect(response)` first is left out; no property is about the value
that `send` returns, and the limit on `sndCount` in `TypeOK` only bounds what it is computed from.

Next, in this order:

1. The locks of `CUDTUnited` and `CUDT` as state of `Sockets`, for the deadlock described above.
2. The message mode of the receive buffer.
