# A TLA+ development of synced

`synced` selects the best clock of a Synchronous Ethernet device from the quality levels (QLs) its
ports receive in ESMC PDUs, tells the device which clocks to follow and advertises the QL of the
clock it follows. This directory holds TLA+ modules that model its parts, TLC configurations that
check them on small instances, and TLAPS proofs of the properties that matter most.

## 1. Inventory

| component | state it keeps | operations | interacts with |
|---|---|---|---|
| Clock selection (`control.c:43-162`, `common.c:322`) | none | `calculate_rank`, `control_find_best_clock`, the ordered device table | called by the control module's pass |
| Control (`control.c`) | the sync table (one entry per port: type, clock, priority, QLs, state, deadline, rank), `update_priority_table_flag` | `control_init`, the pass `control_update_sync_table`, RX/TX callbacks, the operator's operations, getters | main thread, RX/TX threads, management threads, all through `g_control_mutex` |
| ESMC ports (`port.c`) | per thread: `last_ql`, link and time-out flags, extended QL TLV, thread state | the RX and TX thread loops, start, stop | call the control callbacks; TX threads read the best QL |
| ESMC stack (`esmc.c`) | `best_ql`, `best_port_num`, best extended QL TLV, TX bundle | `esmc_set_best_ql`, PDU composition and parsing, SSM maps, life cycle | condition variable between the main thread and the TX threads |
| ESMC adaptor (`esmc_adaptor.c`) | maps from port numbers to sync indices, the registered callbacks | translation of sync indices to port numbers, start and stop of the stack | between control/monitor and the stack |
| Raw sockets (`raw_socket.c`) | one static packet filter, a descriptor per port | open, close, send, receive | used by the port threads |
| Monitor (`monitor.c`) | current DPLL state, clock, sync index, QL, holdover deadline | `monitor_determine_ql` (main thread), `monitor_clear_holdover_timer` (operator), status getter | reads the device and the sync table, writes the stack's best QL |
| Management (`management.c`) | notification callbacks, `g_current_ql`, message level | the operator's API, the notifications | calls control and monitor; called by them and by the pcm4l thread |
| Management interface (`mng_if.c`) | listening socket, one connection, thread state | the thread that serves requests, start, stop | its clients, the command-line client among them |
| pcm4l (`pcm4l_if.c`, `pcm4l_msg.c`) | connection and its state, `g_pcm4l_mutex` | the connection thread, sending the clock category, start, stop | called from the main thread's QL notifications |
| Main program (`synced.c`) | `g_prog_running`, `esmc_init_flag` | initialisation, main loop, shutdown | starts and stops all of the above |
| Device adaptor, generic, rsmu | driver handle | state, clock index, reference monitors, priority table | called by control and monitor |
| Command-line client (`synced_cli.c`) | a queue of commands, or a prompt | connect, send, wait, end | the management interface |
| Configuration, OS layer, logging | | parsing, wrappers | |

Hard behaviours, each with its line in `PROJECT.json` under `hazards`:

* the pass of the main thread **releases the control mutex** up to three times per port to notify
  the management module, so the callbacks of the RX threads and the operator's calls run *inside* it;
* a write of the device may **fail**, and what is remembered for the retry is not all there is;
* **timed states** (hold-off, wait-to-restore) are entered by one thread and left by another;
* the RX thread **stays silent** about a QL it believes the table has;
* the monitor reads device, clock, port and QL **without a common lock**;
* TX threads wait for a condition that may be signalled while they do not wait, and copy the extended
  QL TLV without the mutex under which the main thread stores it part by part;
* port threads **run before** the adaptor knows where their events belong, and at shutdown they are
  waited for only so long, being detached; a look at the link that fails closes the descriptor under
  the thread that looks;
* `connect()` to pcm4l **blocks with the mutex held** for which the main thread waits, and a stop that
  gives up waiting takes mutex and socket from a thread that has been asked to end but has not yet;
* a client of the management interface **keeps the only connection** for as long as it likes.

What makes each component correct, in a line: the device works from the sync table as it is; a
clock has one owner; timed states end, agree with the QL, and are not left early; a dead port is
not selected; the advertised QL is that of the followed clock, and degrades through holdover to
the oscillator's in bounded time; ports of the selected bundle advertise "do not use".


## 2. Plan

Done, in this order, the core of the program first:

1. `ClockSelection`, `ClockSelectionProofs` – rank and ordered device table, pure operators;
2. `SyncTable`, `SyncTableProofs` – the sync table and every thread that writes it;
3. `Monitor`, `MonitorProofs` – the current QL and the holdover timer;
4. `Synced`, `SyncedProofs` – the main loop that composes 2 and 3, end to end from a received QL
   to the one given to the ESMC stack, as a refinement of both;
5. `Esmc`, `EsmcProofs` – the best QL of the stack, the TX threads that compose PDUs of it, the RX
   threads' storing of the extended QL TLV.
6. `EsmcSsm` – the SSM and enhanced SSM codes of the QLs, in both directions;
7. `Startup`, `StartupProofs` – the start of the ESMC stack around the sync table: the events that
   are lost, and what they cost;
8. `Pcm4l` – the connection to pcm4l and the two threads that report on it;
9. `Lifecycle` – the process from the first module's initialisation to its end,
   with the port threads it creates and destroys;
10. `MngIf` – the management interface and its clients;
11. `RawSocket` – the sockets of the ports: opening call by call, and the packet filter, run by an
    interpreter.

`ProcessProofs` is about 8, 9 and 10, `AlgorithmProofs` about what 1, 6 and 11 compute.

Left, in this order:

12. notifications of `control.c` and `monitor.c`: what the management module is told last is the
    state, in spite of being told without the mutex;
13. the alarms of the RX thread (invalid QL, timing loop) and how they are cleared;
14. proofs: what the main loop as a whole keeps (`Synced`), beyond what its two halves do; that the table
    refines a device which always works from the best order of the last agreed table.

Abstract specifications worth stating: `Monitor` and `SyncTable` are what the main loop
implements (done); a device that always works from the best order of the last agreed table, which
`SyncTable` implements while the device accepts its writes (`DeviceInSync` is its invariant form).

## 3. Modules and the code

**Conventions.** QLs are naturals in the order of `T_esmc_ql`, lower is better; the instances use a
few of them. Time is a countdown, `left = deadline - now`, so that `now > deadline` is `left < 0`;
`-1` stands for "passed" and for "not running". A handler that runs under a mutex from beginning
to end is one action; a handler that releases it is a sequence of actions, one per critical
section. Time does not pass inside a critical section. Definitions named `X_Something` with a comment
"Mutant" are variants of `X` with a plausible mistake; they are used by nothing in the specifications
and serve to see that a property does depend on the code.

**`ClockSelection`** (`control.c:43-162`, `common.c:322`). `CalculateRank` with its bytes;
`PriorityTable` is the loop that picks the best port, clears it in a copy and appends it, as a
recursive function (`Rounds`) over the rounds, a `Round` being one turn of it.

**`SyncTable`** (`control.c`, the event side of `port.c`, the writing operations of
`management.c`).

| TLA+ | code |
|---|---|
| `sync`, `updateFlag` | `sync_table`, `update_priority_table_flag` of `g_control_data` |
| `device` | the table last accepted by `device_adaptor_set_clock_priorities` |
| `main` | the program counter and the locals `i`, `change_flag`, clock-state-changed of the pass; whether `control_init` has returned; which of the ESMC adaptor's port maps are filled |
| `port` | `last_ql`, link and time-out flags of an RX (or TX-only) thread |
| `Init` | `control_init` before its own pass |
| `BeginPass`, `SkipTxOnly`, `CheckEntry`, `UpdateRank`, `Relock`, `EndPass` | `control_update_sync_table`, cut at the three places where it releases the mutex |
| `ReceivePdu`, `RxTimeout`, `RxLinkDown`, `RxLinkUp` | the RX thread's branch and `control_rx_event_cb` |
| `TxLinkChange` | the TX thread of a TX-only port and `control_tx_event_cb` |
| `SetForcedQl`, `ClearForcedQl`, `ClearWtrTimer`, `AssignClk`, `SetPri` | the operations, with the checks the management module puts before them |

A refused call changes nothing and is no action. `ReceivePdu` whose QL is the last one reported
changes only the thread. The device's reference monitors answer as they like (`ClkStates`), its
writes succeed or fail (`DeviceResults`).

**`Startup`** (`esmc_adaptor.c:209-283`) is `SyncTable` started with empty maps: `SetMap` fills them in
the order of the code, `LoseRxEvent` and `LoseTxEvent` are the events of threads that run already
and whose map is empty. The thread takes them as reported, the table never hears of them. With
the maps filled the next-state relation is that of `SyncTable`, whose own `Init` has them filled.

**`Monitor`** (`monitor.c`). `look` is the program counter of `monitor_determine_ql` and its
locals; each question it asks (DPLL state, clock index, sync index, QL) is an action whose answer
is a parameter, since each is answered under another lock. A failed device call leaves its answer
unset, so any answer may follow (`DeviceFails`). `Track` and `StopTracking` are the two branches
of the decision, `SetTx` the call of the ESMC adaptor after the mutex, `ClearHoldoverTimer` the
operator's call. The holdover time is computed in a word of `WordSize`.

**`Synced`** (`synced.c:704-776`). `turn` alternates the two halves of the main loop. The answers
of `Monitor` come from `sync` and `dpll`; the DPLL tracks clocks of the table `device`.

**`Esmc`** (`esmc.c:1022-1145`, `port.c`).

| TLA+ | code |
|---|---|
| `best` | `best_ql`, `best_port_num`, `port_tx_bundle_info` and `best_ext_ql_tlv_data` of `g_esmc` |
| `main` | where the main thread is in `esmc_set_best_ql`; it holds `best_ql_mutex` unless it is `"idle"` |
| `SetBestQl`, `StoreCounts`, `StoreId`, `CountSelf`, `Broadcast` | `esmc_set_best_ql` with `port_get_rx_ext_ql_tlv_data`: the selection, the counts as the neighbour sent them, the originator, the increment of line 773, the broadcast |
| `BeginWait`, `Heartbeat` | the condition wait of the TX thread, which needs the mutex to begin and to end |
| `ReadBestPort`, `ReadBestQl`, `CopyTlv` | `esmc_compose_pdu`: the port before the mutex, the QL under it, the TLV after it |
| `Receive`, `Store`, `Report`, `SetFlag` | the RX thread compares, stores the TLV, calls back, sets `ext_ql_tlv_received_flag` |

The mutex keeps a TX thread neither from reading the port nor from copying the TLV, so it may copy it at any
place of the main thread: with the counts of one selection and the originator of another, or with counts
in which this device is not counted yet. `Copy` takes one half of the TLV, in either order, and
`TlvsSeen` lets the main thread find old and new halves of a TLV that an RX thread is storing. `disturbed`
is history: it tells whether a selection was stored while a TX thread composed, and no action
depends on it. A broadcast reaches the threads that wait, and no other.

**`EsmcSsm`** (`esmc.c:134-387`, `418-710`, `1165-1205`). `EnhancedCode` and `PlainCode` are the
table of composition, `PlainQl` and `EnhancedQl` that of parsing, each for the three network options;
they are kept apart as in the code, where one is not derived from the other. Around them a small
machine: a neighbour's PDU of any codes (`Hear`) or the operator (`ForceQl`) gives the port a QL,
`Transmit` composes a PDU of the better of it and the oscillator's, and ends the thread when there
is no code. The bytes of header and TLVs are the two flags `headerOk` and `extTlvOk`.

**`Pcm4l`** (`pcm4l_if.c`, `pcm4l_msg.c`, `management.c:240-330`).

| TLA+ | code |
|---|---|
| `pcm` | `g_pcm4l_if_thread_data` (state), `g_pcm4l_if_fd` (none, made, connected, cut by the peer), `g_pcm4l_mutex`, whether the interface was started |
| `pcmThread`, `pcmMain` | where the connection thread and the main thread are, with what they read before |
| `currentQl` | `g_current_ql` |
| `server` | pcm4l: does it listen, and what it was told last on this connection |
| `PcmOpen`, `PcmConnect`, `PcmCheck`, `PcmOnline`, `PcmWatch`, `PcmSleep` | one turn of the thread, cut where `connect()` blocks with the mutex held, between `recv()` and the storing of CONNECTED, and at its sleep |
| `PcmNotify`, `PcmThreadSends` | the status callback: reads `g_current_ql`, then sends |
| `PcmReport`, `PcmMainSends`, `PcmMainStores` | `management_template_notify_current_ql`: sends, then writes `g_current_ql` |
| `PcmStart` … `PcmStartWait` | `pcm4l_if_start`; the mutex is initialised after the thread was created |
| `PcmStop` … `PcmClose` | `pcm4l_if_stop`: request, wait, destroy the mutex, cancel, close, each a step of its own |
| `PcmDies` | a thread whose cancellation is requested comes to a cancellation point |

`pthread_cancel` requests and does not wait: the thread runs on to its next `connect()`, `recv()`,
`send()` or `usleep()`, with `cancelled` set. The lock of a mutex is no such point. `os_mutex_deinit` takes and
releases the mutex before it destroys it, and then the thread is its only user, which gets it at once,
whether the lock has an effect or returns an error nobody looks at.

**`MngIf`** (`mng_if.c`, `synced_cli.c:674-801`). `mng` is the thread with its one connection,
`backlog` the clients that are connected and not accepted, in the order they came, `client` where each
client is. A client in command-line mode runs its queue and ends; one of `Interactive` sits at a prompt
and leaves only if the operator does (`ClientLeaves`, which is also a client that is killed); one
of `OddClients`, another program, may send a code that is not answered. A client that ended may come again
(`ClientAgain`). What a request does is in `SyncTable` and `Monitor`; here it is one step. `MngStop`,
`MngStopWait`, `MngCancel` and `MngClose` are the stop, and `MngDies` the cancelled thread at a
cancellation point, which leaves its connection open.

**`Lifecycle`** (`synced.c:704-830`, `esmc.c:714-1020`, `port.c:183-217, 611-831`,
`esmc_adaptor.c:120-205`). `life` is where `main()` is, `live` the modules that are initialised,
`port` the memory, descriptor and thread state of each port, `thread` where the port's thread is,
`holder` the thread that has kept `best_ql_mutex`. Every step of initialisation may fail. A port
thread is modelled for what it touches: its descriptor, its memory, the mutex, the callbacks,
which it looks at in one step and calls in the next. A look at the link may fail in `TxLink` and
`RxHasEvent`, which makes the descriptor `"lost"`: closed by `port_check_link`, while thread and
`main()` go on taking it for theirs. Later looks may go either way, since the number may be in use again. Each wait for a thread ends with the state it
waits for or with its time-out; the time-out comes only for a thread that may be late
(`LatePorts`), is stuck or has ended by itself.

**`RawSocket`** (`raw_socket.c:46-165`). `RawOpen`, `RawBind`, `RawAttach` and `RawJoin` are the calls of
`raw_socket_open`, any of which may fail: the first patches the one static array and makes a socket for all
protocols and interfaces, the third gives the kernel a copy of the array. `Deliver` queues a frame at
every socket that lets it pass, before the filter is attached too. `Program` is the filter,
instruction by instruction, `Run` and `Accepts` the kernel's run of it, `Instruction` the step of one
instruction.

**MC modules.** `MCAlgorithms` holds three pure parts (`ClockSelection`, `EsmcSsm`, `RawSocket`), and
`MCProcess` four parts of the process (`Monitor`, `Pcm4l`, `MngIf`, `Lifecycle`) that share no
variable: each is explored while the others are in their initial states, so a run visits the sum
of their states and not the product.

## 4. Model checking

Twelve runs. State counts are distinct states; a run takes from a second to two and a half minutes.

| run | question | properties |
|---|---|---|
| `algorithms` | three pure parts, one at a time. Is the device's table the right one, for every table of three ports of any QL, priority, hop count and type? Is every PDU read as the QL it was composed of, for all QLs, codes and network options? Does each socket, once its filter is attached, queue the slow protocol frames of others for its port and nothing else, in whatever order ports are opened? | `DeviceTableIsOrdered` against a definition without rank or scan; `ReadAsSent`, `NeverReadAsBetter`, `TxKeepsRunning` with the operator confined to QLs that have a code; `FilterIsExact` (0.49 M states) |
| `synctable_rx` | from the start of the stack, with its lost events, on: a Sync-E port with all RX events, expiry, clearing and forced QLs, an external port with forced QLs, a TX-only port | `TimedStateMatchesQl`, `DownPortHasNoUsableQl`, `DeviceInSync`, `NoEarlyRestore`, `TimedStatesEnd`, `DownClockExcluded`, `OfferedClockUsable` (0.11 M states) |
| `synctable_mgmt` | a Sync-E, an external and a TX-only port whose clocks and priorities are reassigned in the windows of the passes, in no-QL mode | `TypeOK`, `OneSyncPerClock`, `PriorityDecides`, `DeviceInSync`, `ValidClockOffered`, `LastQlIsInTable`, `DeviceTableFits` (1.7 M states) |
| `process` | the monitor, for any sequence of DPLL states and answers, failures included | `TxFollowsMonitor`, `HoldoverQlInRange`, `NoUpgradeUntracked`, `FlappingEndsHoldover`, `HoldoverEnds` |
| | pcm4l, for any order of connecting, losing, reporting and stopping | `ConnectedHasSocket`, `NewConnectionTold`, `MainGetsThrough` |
| | the management interface with three clients, one at a prompt and one with requests that are not answered | `SessionKept`, `ClientsServedInTurn`, `NoConnectionLeft` |
| | the life cycle, with failures at any step, looks at the link that fail and a late thread | `MemoryOutlivesThread`, `DescriptorOutlivesThread`, `ControlOutlivesEvents`, `ShutdownCompletes` (0.12 M states in all) |
| `synced_live` | main loop, a Sync-E port and a TX-only port that may take its clock | `CurrentQlAdvertised`, `DownPortNotAdvertised`, `FormerOwnerForgotten` (0.3 M states) |
| `esmc` | one TX thread, one RX thread and the selection, stored part by part | `UndisturbedPduIsBest`, `BestReachesPorts` (0.31 M states) |
| `synctable_txonly_assigned` | violated: a TX-only port stays out of the selection | `TxOnlyNotSelected` |
| `synctable_device_failure` | violated: a port that is down is excluded though device writes may fail | `DownClockExcluded` |
| `startup_lost_event` | violated: the table has the QL its RX thread reported, from the start on | `LastQlIsInTable` |
| `ssm_no_code` | violated: every QL of the documented range can be the oscillator's | `TxKeepsRunning` |
| `synced_noql` | violated: the QL of the followed clock is advertised in no-QL mode | `CurrentQlAdvertised` |
| `esmc_hops` | violated: the hop count reported is the received TLV's | `HopsOfReport` |

**Bounds and why they are enough.** The critical sections of `SyncTable` touch one port, except
`AssignClk` (the named port and the owner), `EndPass` and the comparisons of `SetPri`: two ports
exhibit every pair, the third of `synctable_mgmt` adds a bystander of the third type. In
`synctable_rx` one port with an RX thread and an external one with forced QLs are two independent
sources of changed ranks in a pass, and the TX-only port is the only kind that loses events while the
first map is empty; the RX port starts with a usable QL and may lose both a better and a worse one. Two usable
QLs, do-not-use and FAILED take every branch of `control_rx_event_cb`. Timers of one tick have
the three phases not running, running, passed; a longer one adds stuttering. Five QLs around the
oscillator's and the holdover QL take every comparison of `monitor.c`. `RxHops = {300}` and the
hop counts 0 and 255 are the edges of the byte. In `esmc` one selection of a port with and without
the port in its bundle, a neighbour with and without TLV and a torn TLV are all there; a second TX
thread would share nothing with the first but `best`, which neither writes.
In `process` two QLs of different categories make a report that is not the current one; three clients
are one that is served and two that wait behind it in either order, one in command-line mode, whose
turn is to come, between two that may stay; two TX ports, one of which checks its link and one of which
may be late, and an RX port give every group a port that is not the last of its
loop. Frames are of lengths 27, 128 and 129, around the length an ESMC PDU has at least and the filter's
limit, on the interface of either port, and their addresses are all
combinations of the words of the known ones, so each jump of the filter is taken both ways.
`algorithms` has all 60 QLs of the three options, all SSM codes and one value for those beyond 15, the
six enhanced codes and one for every other. `ReadAsSent` alone would not do: the parser of option
1 accepts a pair (0x02, 0x22) that nothing composes and reads it as eSEC, so an eSEC composed with
the SSM code of a primary clock would survive the round trip; `NeverReadAsBetter` sees it.

**Fairness.** `SyncTable!FairSpec`: the main loop never blocks for good (its only waits are for
mutexes with short critical sections) and time passes. `FairDeviceSpec` adds that a device written
to again and again accepts in the end, so that the violation of `synctable_device_failure` is
not due to a device that is dead. `Monitor!FairSpec`: the main loop and time.
`FairSyncedSpec` adds that the device leaves a clock that is no more in its table
(`DpllLeaves`), which is what the table is for. `Esmc!FairSpec`: each TX thread runs and its
heartbeat (a condition wait with a time-out, `port.c:300-311`) comes. `FairStartupSpec` adds that the RX thread of a port
whose link stays down from some time on, so that no PDU comes, says so after 5 s, with strong fairness, since
the main loop sleeps without the mutex; without it a link-down event lost at the start would be lost for good. A port whose link is up
is promised no time-out: PDUs may keep it from one for ever (`port.c:528`), so that what ends a timed state
in `TimedStatesEnd` is the deadline and nothing else. `FairPcmSpec`: the connection thread runs and `connect()` returns
in the end; strong fairness for the main thread, since the connection thread sleeps 100 ms without the
mutex between two tries. `FairMngSpec`: the interface's thread, the main thread and
the clients in command-line mode run; nothing is assumed of one at a prompt, of another program, or of anyone's
connecting. `FairLifeSpec`: `main()` and the port threads run, but no signal, PDU or failure is
promised. Nothing is assumed of neighbours, links, the operator, the pcm4l server or (but for that
time-out) the RX threads. Liveness properties state what else they need
as a premise (a link that stays down, a DPLL that stays locked, a selection that stays).

The deadlock check is on in every run but `process`, whose process does end.

## 5. Proofs

All theorems hold for every value of the constants that satisfies the named assumptions:
`ConfigAssumption`, `QlAssumption` and `InputAssumption` (what the configuration module lets
through: unique clocks and priorities, an oscillator no worse than do-not-use), `SelectionAssumption`
and `RawAssumption`, `SettableAssumption` (the operator names QLs of the network option), `MonitorAssumption`,
`HoldoverAssumption`, `EsmcAssumption`, `PcmAssumption`, `MngAssumption` and `LifeAssumption` (which say
of which kind the constants are). A hypothesis beyond these stands in the theorem, and each of them is
needed, as section 6 says of those that are not obvious. Every safety invariant and every
action property of a passing run is stated by a theorem.

**`ClockSelectionProofs`.** `PriorityTableIsSorted`: for a table of any size, the device's table holds the
clock of each port that beats the oscillator, each once, ordered by rank and then by port, and nothing
else. `RankOrder` is the arithmetic it rests on: priority and hops are one byte each, so a rank orders
as the triple of QL, priority and hops does and no two triples share one. The rest is an invariant
of the rounds: what is chosen is sorted, and better than all that is left (`RoundKeepsInv`). Induction over
the rounds is by the least round that would break it (`LeastNatural`), since an induction theorem
takes the predicate as a parameter. `SyncTable`'s proofs cite the result, so that `OneSyncPerClock`,
which is what gives distinct clocks, meets the loop that depends on it.

**`AlgorithmProofs`.** `SelectionIsOrdered` is the same for the definition of `MCClockSelection` that
mentions neither rank nor scan, for up to 256 ports.
`FilterLetsThroughExactly`: for any ports with any addresses, opened call by call and closed in any order, a
socket whose filter is attached queues nothing but the ESMC frames of others for its port, and an open one
misses none; what was queued before the attachment is outside of it. All jumps of the filter go forward, so
`Run` is defined from the last instruction backwards (`RunSteps`) and evaluated once for any address
(`AcceptsExactly`); that the kernel holds a copy while the next open patches the one array, and that the array
is patched for the port whose socket is being opened, is the invariant of the machine (`FiltersOwn`).
`SentIsReadBack`, `PlainNodeNeverUpgrades` and `CodedQlsKeepTxRunning`: the two code tables of `esmc.c` are
inverse (`CodesReadBack`) and the plain code errs on the safe side (`CodesAreNotBetter`), for whatever
the operator may set; the third has the hypothesis that he is confined to QLs that have a code
(`ssm_no_code`). The invariant is `WireCarriesCodes`: a PDU on the wire was composed from the tables.

**`SyncTableProofs`.**
* `TypeCorrect`: one lemma per kind of update (`EntryUpdates`, `MainUpdates`, `ReceiveQlType`), one
  step per action. That `numHops` never exceeds 255 is in it.
* `ClocksStayUnique`: inductive as it stands together with `TypeOK`; only `AssignClk` changes
  types and clocks, which `SelectionFrame` says of all other actions.
* `PrioritiesStayUnique`: inductive; only `SetPri` writes a priority. It is used by
  `PriorityAlwaysDecides`: in no-QL mode, when nothing is pending, of two clocks the device works from the
  first belongs to the port of better priority, whatever was exchanged in the windows of the pass. The
  other facts are `OneSyncPerClock`, `DeviceInSync`, whose hypotheses it shares, and `RankOrder`: all
  ranks have the same QL, priorities differ, and hops come after them.
* `LastQlStaysInTable`, `DownPortsStayUnusable`: not inductive alone. `RxView` adds that the link
  flag of the thread is that of the table: a PDU is not parsed while the thread sees the link
  down, so it cannot bring a usable QL to an entry that says "down". `RxPortsReceive` (an RX port never
  becomes a type the callback refuses) is needed for the delivery.
* `TimedStatesMatch`, `RestoreNeverEarly`: from what `ReceiveQl` does to a state
  (`ReceiveQlState`) and from `StateKept`, what every other action does.
* `DeviceStaysInSync`, for a device that accepts its writes and some port that is not TX only and
  has a priority other than 0. The inductive invariant `DeviceInv` adds `FirstPass` (before the
  first write, a port the pass has dealt with has set `change`) and `PushIsLast`. The premise about
  the priority is needed: the initial rank 0 stands for "none", and 0 is also the rank of the best
  QL with priority 0, so a device whose only such port has rank 0 is not written in the first pass.
* `DeviceTableAlwaysFits`: the device's table never has more entries than there are clocks, and names each
  once, though neither `control.c:108` nor the caller counts. From `PriorityTableIsSorted` with `OneSyncPerClock`.
* `ValidClocksAreOffered`: in no-QL mode a usable clock whose priority beats the oscillator's is in the
  device's table when nothing is pending. From `OfferedClocks` (being in the table is the same as beating
  `LocalRank`) and `RankOrder`. Hypotheses: those of `DeviceStaysInSync`, and an oscillator better than
  do-not-use, without which nothing is ever offered (section 6).
* `OfferedClocksAreUsable`: the device is offered no clock whose QL is not usable. The inductive invariant
  `RankInv` is that a rank that has been computed is made of the current QL, in spite of the windows between
  the two and of the operator's calls in them. Hypotheses: those of `DeviceStaysInSync`, and `TxOnlyKept`,
  that no clock is given to a port configured TX only (section 6).

**`StartupProofs`.** What survives the lost events of the start: `StartupTypes`,
`TimedStatesMatchFromStart`, `RestoreNeverEarlyFromStart`, `DownPortsUnusableFromStart`,
`DeviceInSyncFromStart` and `OfferedClocksUsableFromStart`, all for `StartupSpec`. `StartupSteps` says that a step is one of `SyncTable`, the setting of a map or an event
that changes nothing but a port thread, so the step lemmas of `SyncTableProofs` do most of the work.
`DownPortHasNoUsableQl` needs another invariant than there: thread and table may disagree about a
link, but in one direction only (`TableView`), and while events are lost no entry is down.
`LastQlStaysInTable` is a theorem of `Spec`, that is with nothing lost; of `StartupSpec` it is false
(`startup_lost_event`).

**`MonitorProofs`.** `TxFollows`, `HoldoverQlStaysInRange`, `UntrackedNeverUpgrades`, from `QlInv`:
where a QL can be (held, just read, advertised) and that it is no worse than the oscillator's
there; without it a QL that was read but not yet decided on could be anything.

**`SyncedProofs`.** `SyncedIsSyncTable` and `SyncedIsMonitor`: the main loop implements both
modules. The first holds step by step. The second needs `LookInv` and, from `SyncTable`, `TypeOK` and
`OneSyncPerClock`: an answer given to the monitor is one it is specified for. By them every theorem of
`SyncTableProofs` and `MonitorProofs` carries over to the composition.

**`EsmcProofs`.** `TypeCorrect`, with `TakesOfPort` (the main thread takes an originator of a neighbour only for a
selected port), and `UndisturbedPduOfBest` under the hypothesis `ChainFits` (no neighbour is behind 255
eEECs): a PDU no selection disturbed is that of the best QL and counts this device. `CountInv` says at which
places of the main thread the best TLV counts this device: stored counts are at most 254, and the best QL's
are 1 to 255 but between their storing and line 773. `TxInv` says what an undisturbed thread has read so far
(`ReadsBest`: the best port, then its QL, then the halves it has copied, in whichever order). Without
`ChainFits` the byte of the PDU wraps to 0.

**`ProcessProofs`, of `Pcm4l`.** `SocketSafe`. Only the connection thread enters CONNECTED, and only its own steps and
`PcmClose` take the socket away; the mutex is not needed for it, which is why its late initialisation does no
harm here. `PcmClose` comes after a wait that found the thread gone or ran out (`late`), and after the latter
a thread that has passed `recv()` says CONNECTED of the closed socket: the property names that case
(`ClosedLate`). `PcmInv` adds four facts: before the thread is created nothing is enabled, so that a
stop finds nothing to close; a thread about to enter CONNECTED has a connected socket unless closed late;
"stopped" is written by a thread that is gone; and a stop that is not late goes on only without a thread.

**`ProcessProofs`, of `MngIf`.** `SessionSafe` and `StopCloses`, for any number of clients. `MngInv` says that `accept()` is
called only without a connection, that one is there where the thread uses it, that a thread that
has stopped is gone and has closed its connection, and that nothing is open before the start or after
the stop. The steps are split by actor (`MngThreadInv`, `MngMainInv`, `ClientInv`); `JoinKeepsOthers` and
`AcceptKeepsOthers` say that whoever joins or leaves the backlog, everybody else in it stays connected.

**`ProcessProofs`, of `Lifecycle`.** `MemorySafe`, `DescriptorSafe` and `ControlSafe`, for any number of ports and failures
at any step. `Ended(p)` is: the thread is over, never was, or is stuck at the mutex. The invariant has
four parts: the types; what a port's memory, descriptor and state say of its thread (`PortInv`:
"stopped" is written by a thread that ends and by nothing else, and the thread of a closed port has
ended, unless it is late); a port's descriptor changes by a step of its own thread only from open to
lost (`FdKept`), and only where the thread looks at its link; the ports created and the modules up at each place of `main()` (`MainInv`);
and the descriptors closed so far (`ClosedInv`), so that control goes when all are.

**Only model-checked.** The liveness properties of the runs, since the prover has no rule for fairness or
`ENABLED`: `TimedStatesEnd`, `DownClockExcluded`, `FlappingEndsHoldover`, `HoldoverEnds`, `NewConnectionTold`,
`MainGetsThrough`, `ClientsServedInTurn`, `ShutdownCompletes`, `CurrentQlAdvertised`, `DownPortNotAdvertised`,
`FormerOwnerForgotten` and `BestReachesPorts`.

## 6. Disagreements between code and documentation

Each is a run that is expected to find the violation; the texts are quoted in `PROJECT.json`.

1. `synctable_txonly_assigned`: the operator's reassignment makes a TX-only port a Sync-E clock
   port (`control.c:904`).
2. `synctable_device_failure`: a device write that fails after a change of rank is not repeated
   (`control.c:557`); only a change of the mapping is.
3. `ssm_no_code`: ST4 is a documented and accepted QL of the oscillator, and has no SSM code; the
   first PDU of it ends the TX thread for good (`esmc.c:225`, `port.c:372`).
4. `synced_noql`: in no-QL mode a clock worse than the oscillator can be selected, and the monitor
   then returns early for good (`monitor.c:124`, "Should not happen").
5. `esmc_hops`: a new QL with an unchanged TLV reports 0 hops (`port.c:498`).
6. `startup_lost_event`: a QL received before the port map is set is dropped, and the RX thread keeps
   silent about it from then on (`esmc_adaptor.c:270`, `port.c:515`).

Observed, and not counted as disagreements because no document promises otherwise: a single port of
rank 0 is not written in the first pass; a DPLL in acquisition whose clock cannot be looked up
keeps the QL of holdover; a TLV that changes with the same QL is not advertised until the QL, the
clock or the port of the selection changes; link down and up cut wait-to-restore short; a
holdover time of 4294968 s or more is cut short by the 32-bit product of `monitor.c:167`.

The proofs turned up two more, as hypotheses they could not do without; TLC finds both in a few steps on the
instance named. In no-QL mode every usable clock ranks with the oscillator's QL (`control.c:524`); an
oscillator of do-not-use, to which every worse one is clipped (`synced.c:290`, FAILED being the default),
leaves none below the threshold of `control.c:56`, and no clock is ever offered (`ValidClockOffered` for a single
Sync-E port with `LoQl = DoNotUseQl`). The initial rank 0 (`control.c:417`) is the best there is, and a pass
ranks no TX-only port (`control.c:468`): one that is given a clock in a window of a pass that has already
skipped it is offered to the device as the best, unusable as it is, until the next pass
(`OfferedClockUsable` for a TX-only port that precedes a Sync-E port and takes its clock, in no-QL mode).

Of the parts around the table: a pcm4l connection that is on and off again at its first check keeps its
descriptor, whose later `connect()` calls all fail, so the interface is not connected again
(`pcm4l_if.c:129`); while the main thread reports a QL, the status callback of a connection that comes
up may send the old one and the report may find no connection (`management.c:285`); a TX thread whose
condition wait fails ends with `best_ql_mutex` locked, and shutdown then hangs (`port.c:302`,
`ShutdownCompletes` exempts it); when `esmc_adaptor_init` fails half-way its threads run on while control is
taken down (`synced.c:734`, `ControlOutlivesEvents` exempts it); the comment at `raw_socket.c:54-56` says
that frames of less than 28 bytes are ignored, which no instruction of the filter does (`FilterIsExact` is about
what it does); frames queued between `socket()` and the attachment of
the filter are received unfiltered (`raw_socket.c:130`); `port_rx_init` resets a TLV that a running
thread may have stored (`port.c:712`); `esmc.c:911` writes `num_tx_ports` where it means the RX
ports, in a branch that is not reached; a PDU composed while a selection is stored may not count this
device, its TLV being stored at `port.c:758` and `765` and counted at 773, while a TX thread copies it
(`esmc.c:1115`), and the next heartbeat puts it right; a look at the link that fails closes the
descriptor, and the thread goes on using its number, closes it again at each later failure, and `main()` does once more,
which is another's descriptor if the number was given out meanwhile (`port.c:225-228`); a stop of the pcm4l interface
whose wait ran out closes the socket of a thread that has only been asked to end and may still write
CONNECTED (`pcm4l_if.c:133`, `238-243`); a management thread cancelled while it serves never closes
its connection (`mng_if.c:345`); a client at the prompt holds the only connection until its operator leaves
(`synced_cli.c:722-751`); entry 0 of an empty table is read in `rsmu.c:99`.

## 7. Not modelled

* Notifications of states, ranks and alarms to the management module, the getters, the message
  level: they change no state that selection or advertisement read (planned, 12 and 13). The
  notification of the current QL and of the pcm4l connection are in `Pcm4l`.
* Parsing and printing of configuration, PDUs on the wire, requests and the text of the CLI: what they
  deliver is an input taken from a set.
* The drivers (`rsmu`, `generic`): hardware; their outcomes are choices.
* A pcm4l request that waits for a response, which has no caller; SIGPIPE of a `send()` to a peer that is
  gone (`pcm4l_if.c:275`); a `pthread_cancel` of a thread that has ended (`pcm4l_if.c:238`,
  `mng_if.c:345`), which here does nothing; and what is done to another's descriptor under a number that a
  thread has closed (`port.c:227`, `pcm4l_if.c:241`).
* The event and information flag of a PDU; error returns of pthread calls, but for the condition wait
  and the creation of threads.
