# bms_bridge in TLA+

`bms_bridge` (C++17) reads lithium battery packs and presents them as one
Pylontech battery stack to a solar inverter. This directory holds TLA+ models
of the parts of the bridge whose correctness depends on the order of events or
on bounded data, the TLC configurations that check them, and machine-checked
proofs about them. Source paths are relative to the repository root;
`PROJECT.json` maps every definition to the lines it models.

- [1. The system](#1-the-system)
- [2. The modules](#2-the-modules)
- [3. The runs](#3-the-runs)
- [4. The proofs](#4-the-proofs)
- [5. Where code and documentation disagree](#5-where-code-and-documentation-disagree)
- [6. What is not modelled](#6-what-is-not-modelled)
- [7. Plan](#7-plan)

## 1. The system

| part | source | state it keeps | talks to |
|---|---|---|---|
| BleClient | `src/ble_client.cpp` | `state_`, adapter, peripheral, scan match, four fds (stop, work, slot, timer) | coordinator (mutex), SimpleBLE (calls and callbacks), BmsEventQueue (push), dispatcher (`send`, `stop`) |
| BleScanCoordinator | `src/ble_scan_coordinator.cpp` | `holder_`, `waiters_` | calls the grant callback of a client |
| BmsEventQueue, BleTransport | `src/event_queue.cpp`, `src/ble_transport.cpp` | deque, eventfd | BLE threads push, dispatcher thread pumps |
| BmsHandler, SharedState | `src/bms_handler.cpp`, `include/shared_state.hpp` | connected flag, last telemetry and settings, write throttles | protocol, transport, History; read by Inverter and HttpServer |
| JkProtocol, JkFrameAssembler | `src/jk_protocol*.cpp` | receive buffer, one finished frame | BmsHandler |
| PylontechMasterProtocol | `src/pylontech_master.cpp` | receive buffer, last cell count | BmsHandler |
| Pylontech codec | `src/pylontech.cpp` | none | Inverter, PylontechMasterProtocol |
| UartTransport | `src/uart_transport.cpp` | fd, reopen timer | Dispatcher, TransportEvents sink |
| Inverter | `src/inverter.cpp` | receive buffer, address map | UartTransport, SharedState of each battery |
| History | `src/history.cpp` | RAM window, SQLite tables | written by the dispatcher thread, read by the HTTP thread |
| HttpServer, dashboard | `src/http_server.cpp`, `config/www/app.js` | pagination contexts | History, SharedState |
| Dispatcher, Timer, Event, Thread, main | `src/dispatcher.cpp` and others | handler map, stop flag | everything |
| Battery | `src/battery.cpp` | transport, protocol and handler it has put together | main, Dispatcher |
| config, logger | `src/config.cpp`, `src/logger.cpp` | none after start-up | main |

Threads: the main thread runs the dispatcher (an epoll loop) with the handlers
of all batteries, the inverter's UART and the hourly aggregation; each
Bluetooth battery has a management thread; SimpleBLE runs its callbacks on
threads of its own; the HTTP server has a thread. Shared between threads are
the coordinator, the event queues, the shared states (each behind a mutex),
the eventfds, the SQLite file and, without a lock, `peripheral_` of a client.

What makes each part correct, and what is hard about it:

- **BLE clients and the coordinator.** One Bluetooth adapter, several batteries.
  At most one client scans or connects; the slot for it is never lost, goes to
  the waiters in order and reaches each of them; a lost link leads to a
  reconnect; what the bridge is told about the connection is true; `stop()`
  returns. Hard: the coordinator calls a client back after it has unlocked,
  callbacks signal the same eventfd for different reasons, one epoll batch may
  hold an event that an earlier handler of the batch has made obsolete.
- **Event queue to shared state.** No wake-up is lost; connection events are
  neither lost, doubled nor overtaken; a frame is never assembled from bytes of
  two connections; a connected battery keeps updating the shared state. Hard:
  three threads, a push in two halves, chunks before Connected and after
  Disconnected, chunks and requests lost over the air.
- **Drivers.** The JK assembler finds its way back after a loss; the Pylontech
  master takes the answers of its own battery and no others, telemetry keeps
  coming, and the cell count reaches the settings and stays. Hard: a frame comes
  in pieces of any size, its end may be lost, its magic may begin inside noise,
  and the cell count arrives in another answer than the settings.
- **Process.** An event reaches the handler of the descriptor it was reported
  for; no port and no descriptor of one is lost; nothing is used after its
  destruction; a signal ends the process. Hard: one epoll batch outlives the
  descriptors in it, numbers are reused, a signal may come before the threads
  are in their loops.
- **History.** The energy row of a day accounts for all of its samples, is
  written once and only when the day is over; no sample is purged before it is
  accounted for; every day gets its row. Hard: the process or the power may fail
  between any two statements, midnight may pass during the aggregation.
- **/history.** Pages do not overlap, together they show the window at the
  resolution asked for, the dashboard's loop ends, contexts do not pile up.
  Hard: two queries per request with appends and purges in between, integer
  decimation steps that change from page to page, eviction by time.
- **Inverter.** Intact requests are heard whatever the line and the reads do to
  the stream; a battery that falls silent, and a reserve that mirrors it, are not
  shown any longer; the modules a battery is split into add up to it and never
  promise more current than it allows. Hard: buffer limits, ports that come and go,
  links that come and go without a report, fixed-width divisions.

The hazards, each at its line with the properties that cover it, are listed in
`PROJECT.json`.

## 2. The modules

| module | models | role |
|---|---|---|
| `BleClient` | BleClient, BleScanCoordinator, Thread::stop | the detailed specification and its properties |
| `ScanSlot` | what the coordinator promises | abstract specification, implemented by `BleClient` |
| `MCBleClient` | | symmetry for TLC |
| `BmsEvents` | BmsEventQueue, BleTransport, BmsHandler, frame assembly, SharedState | threads between the radio and the shared state |
| `BatteryLink` | Battery::start(), BmsHandler and a driver, SharedState | composes `JkProtocol` and `PylontechMaster` |
| `JkProtocol` | JkFrameAssembler, JkProtocol::feed() | operators, byte by byte |
| `PylontechMaster` | PylontechMasterProtocol | operators, on `PylontechCodec` |
| `PylontechCodec` | framing, requests, return codes | operators, used by both ends of a Pylontech line |
| `Inverter` | UartTransport, receive buffer, address map, answers, SharedState | uses `PylontechCodec` |
| `FrameStream` | what a receiver of Pylontech frames promises | abstract specification, implemented by `Inverter` |
| `MCInverter` | | batteries, requests and chunks for TLC |
| `Lifecycle` | main, Dispatcher, UartTransport's descriptors, HTTP thread | composes `Config` with start-up, loop and shutdown |
| `Config` | load_config() | operators |
| `MCLifecycle` | | configuration files for TLC |
| `History` | append, aggregate_pending, crashes | |
| `HttpHistory` | range_core, pagination contexts, sweep, page loop | |
| `BatteryLinkProofs`, `BleClientProofs`, `BmsEventsProofs`, `HistoryProofs`, `HttpHistoryProofs`, `InverterProofs`, `LifecycleProofs` | | theorems about the module they extend |
| `StreamTheorems` | | theorems about folds and about taking frames out of a buffer, used by `BatteryLinkProofs` and `InverterProofs` |

In every module a definition named "faulty variant" of another one is a way the
code could have been written wrongly. Nothing uses it; it documents, and lets one
test, that the properties tell the difference.

**BleClient.** A client's handler runs on its own thread but calls the
coordinator and SimpleBLE. It is cut at those calls, and `pc` says which comes
next: `probe`, `request`, `scan`, `connect`, `subscribe`, `release`, `settle`;
`loop` is the epoll loop, whose `batch` holds what `epoll_wait` returned. The
actions `ProbeAdapter` ... `Settle` are the pieces of `enter()`, `OnStopEvent`,
`OnMatch`, `OnLinkLost`, `OnIdleWork`, `OnSlotEvent` and `OnTimerExpired` the
handlers; the coordinator's `request()` and `release()` are split into the part
under the mutex (`RequestSlot`, `ReleaseSlot`) and the grant callback after it
(`Settle`). `ScanFound`, `LinkDrops`, `WriteThrows`, `LateSignal` and
`TimerFires` are SimpleBLE's threads, `send()` on the dispatcher thread and the
kernel. `Faults` chooses what may go wrong.

**BmsEvents.** `cpc` follows one client through its two pushes, `npc` the
notification callback, `ppc` the dispatcher in `pump()`. A push is an append and
a later write of the eventfd. A frame is `Parts` notifications; a chunk carries
the session it belongs to and its place in the frame, so that a frame assembled
from the wrong chunks is recognised, like by the CRC.

**BatteryLink.** One battery as `Battery::start()` wires it, chosen by `link`: a
JK BMS over Bluetooth or a Pylontech battery on a serial line. Everything above
the transport runs on the dispatcher thread, so a callback is one action. `wire`
is what has not arrived yet; `on_bytes` takes any prefix of it up to `MaxChunk`
and runs it through the driver as the code does, byte by byte for JK and symbol
by symbol for Pylontech. `LoseBytes` and `PylNoise` disturb the line, `Send` may
lose a request. `trace` belongs to the specification and not to the code: it
counts the JK frames that arrived whole and were not handed on. `reply` says
what a Pylontech battery puts where the request had its CID2; both readings occur
in the repository (section 5).

**Lifecycle.** `todo` is the sequence of steps `main()` has before it, built from
the configuration by `StartUp` and `StopAll`; `alive` are the objects on its
stack. `table` are the open descriptors with what they serve, `handlers` and
`epoll` the Dispatcher's view of them: `HandlersAgree` compares the two, and
`PortsAreKept` compares `table` with what the UartTransports hold and wait for.
Descriptors are numbered as the kernel does it, lowest first, and `Emplace`
leaves an existing handler in place as `std::map::emplace` does. A missing
`type` leaves `BatteryConfig::link` uninitialised; `link` is then any of its
values or none of them.

**History.** Time is a day and a tick of it. `samples` and `daily` are the
tables as the process sees them, `synced` as they survive a power failure (WAL
with `synchronous = NORMAL`: a crash of the process keeps commits, a power
failure may lose the latest). `aggregate_pending()` is `FindPending`, one
`AggregateDay` per day and battery, and `Purge`; time, crashes and failing
statements come between them. The energy of a day is the set of samples that
were integrated.

**HttpHistory.** One load of one battery: `Query` and `Probe` are the two
queries of a request, `Reply` and `AskNext` the dashboard, `Age` and `Sweep` the
context's lifetime, `Write` the dispatcher thread. The SQL of `range_core` is
`Within`, `Decimated` and `Limit`. Loads share nothing but the sweep.

**Inverter.** The bytes between SOI and EOI with a right checksum are one symbol,
the request; anything else is `Other`. A read returns a chunk of symbols, of any
shape. `process_buffer` is a recursive function over the buffer. Addresses,
capacities and currents keep the numbers of the code. `FrameStream` takes the
stream symbol by symbol and has no buffer; `Essence` maps a buffer to its state. A
descriptor that is open when its adapter is pulled out is "dead", also if the
adapter is put back: the port works again only after the read error and the timer.

## 3. The runs

Each run is `tlc -config <cfg> <module>`.

| run | question | bounds |
|---|---|---|
| `ble_safety` | Without stops: one client scans or connects (`RadioExclusive`), what the bridge is told is true (`ToldAgrees`), no scan without its time-out (`ScanHasTimeout`), a lost link leaves a signal (`LossIsNoticed`), first come first served (`FifoHandover`), refinement of `ScanSlot` | 3 clients, symmetric, late signals |
| `ble_faults` | With stops, throwing threads and adapters that come and go: `RunningRadioExclusive`, `SlotNeverLost`, `WaitingIsRegistered`; every stop returns, whoever waits gets the slot unless a thread died, a settled link that is lost is handled | 2 clients |
| `bms_events` | `NoLostWakeup`, `ConnectedAgrees`, `OneSessionInBuffer`, `TelemetryFlows`, `DisconnectIsShown` | frames of 3 chunks, queue of 2 before the radio waits, 1 loss |
| `battery_link` | types and buffer limits of both drivers, `JkRecovers`, `CellCountStays`, `TelemetryArrives`, `CellCountArrives` | JK frames of 7 bytes, Pylontech buffer of 4 symbols, chunks of up to 3, 2 disturbances of the serial line |
| `lifecycle` | `HandlersAgree`, `UsersDieFirst`, `PortsAreKept`, `ShutdownCompletes` | 432 initial configurations of up to two batteries, 12 descriptors, 2 events a batch |
| `history` | `Counted`, `DailyIsPast`, `RamIsRecent`, `NothingPurgedUncounted`, `EventuallyAggregated` | 1 battery, 3 days of 2 ticks, retention 1, RAM window 1, 2 crashes |
| `http_history` | `PagesDescend`, `WindowIsCovered`, `LoadEnds`, `ContextIsEvicted` | all sample sets and windows over 6 ticks, pages of 1 to 3 |
| `inverter` | `HearsTheStream`, `ModulesAddUp`, `SocSurvives`, `PortComesBack`, `TheSilentFallSilent` | batteries of 314 Ah and 50 Ah and a reserve of 100 Ah, 7 requests, buffer of 8 symbols, telemetry fresh for 1 tick |
| `ble_lost_link`, `ble_throw`, `early_signal`, `master_rtn` | violated, see section 5 | the smallest that show it; the last two are `lifecycle` and `battery_link` with one constant changed |

Why the bounds are enough. Three clients give a holder, a head and a tail of the
line; hand-over, callback and stop involve two. `ble_faults` has no late signals:
with stops their state space is out of reach, and `ble_safety` and the proofs have
them. Two parities of sessions tell a session from the one before, and the queue
bound lets a Disconnected, a Connected and chunks of both sessions be queued
together. A frame of three chunks has a beginning, a middle and an end to lose. A
JK frame of 7 bytes has every part of the real one (magic, type, value, checksum),
chunks of 3 cut it everywhere; `Values` and `Noise` hold 0x55, so that a magic can
begin inside a frame or just before one. `MaxWire = 0` lets the battery speak when
the line is empty; chunks still span a frame and what follows a loss, as the
assembler keeps the rest. Four symbols are one more than an answer, which is what
an unfinished frame needs to run into the limit. Twelve descriptors are what two
batteries and the inverter need at most; batches of two are the smallest in which
a handler can invalidate an event, and the hand-over of a number needs no third.
Three days with a retention of one let a day be written, aggregated, and purged
while another is current; two crashes hit the aggregation and the repeated
aggregation. Windows of 0 to 6 ticks and pages of up to 3 cover steps of zero,
steps that divide the window and steps that do not. The receive buffer of 8
symbols holds a frame under way (2) and the longest read (6), the relation the
code has with 4096 and 512 bytes; the five modules of 314 Ah give slices that do
not divide evenly, telemetry is below, at and above the configured capacity. The
battery of 50 Ah is there for its reports, which must not keep the other one and
its reserve alive. `LineView` identifies buffers that hold a frame beyond repair
of the same length: the parser looks at such a frame only for its EOI and its
length.

Fairness. A thread that can take a step takes it (`ThreadStep`, `ClientStep`,
`PumpStep`, `Main`, the requests of the HTTP thread), armed timers expire, time
passes (for the age of a BMS's telemetry, too), epoll reports a descriptor that
stays readable, systemd restarts the process (`Restart=` in the unit file). Strong
fairness is assumed twice, both times for epoll: the poll timer of `BmsEvents`,
whose expiry stays pending in the kernel while the dispatcher is busy, and the
signalfd in `Lifecycle`, which `epoll_wait` does not pass over for ever since it
moves the descriptors it has reported behind the others. In `BatteryLink` the port
and the timers of a serial battery are served, its battery answers what it was
asked and throttles run out; disturbances are finite, as `MaxFaults` bounds them.
Nothing is assumed about the radio: batteries may never be found, links may never
hold, no transport has to connect. `TelemetryFlows`, `TelemetryArrives` and
`CellCountArrives` are about a battery that stays connected, `PortComesBack` about
an adapter that stays.

Deadlock is checked where the system must not stop (`ble_safety`, `inverter`,
`battery_link`); the other runs contain a shutdown, a last day or a finished load.

## 4. The proofs

TLC checks the instances above; TLAPS proves the following for every value of
the constants that satisfies the named assumptions of the modules.

**BleClientProofs.** For any set of clients and any faults: `TypeCorrect`,
`SlotSafe` (the slot is never lost), `WaitersRegistered`, `RunningExclusion`,
`ToldCorrect`, `ScanTimed` and `Fifo`; if nobody is stopped (`"stop" \notin
Faults`), `Exclusion` and `Refinement` of `ScanSlot`; if no link drops before
`enter(Online)` has drained `work_event_` (`"drop" \notin Faults`, the defect of
`ble_lost_link`), `LossNoticed`. Exclusion is not inductive: that two clients do
not scan together follows from both being the holder, and that a scanning client
is the holder needs the grants. `IndInv` therefore says where a thread can stand
in each state (`StageInv`), that a discovery belongs to a client in Scan or to a
stopped one (`ScanInv`), that Scan and Connect are entered with the slot and the
slot is kept by nobody else (`HolderInv`), that the line has no client twice and
only clients that wait (`LineInv`), that there is one grant under way, for the
holder (`GrantInv`), and that an event of the batch is still signalled
(`BatchInv`: without it a handler could run for a grant consumed before). The
lemmas `AppendLine`, `TailLine` and `EraseLine` say what the three operations on
`waiters_` do. `LinkInv` adds what concerns a single client, and is inductive
relative to `IndInv`.

**BmsEventsProofs.** `TypeCorrect`, `WakeupSafe`, `AgreementSafe` and
`BufferSafe`. `NoLostWakeup` is inductive as it stands, because a push writes
last and the pump drains first; so is `ConnectedAgrees`, once the effect of an
append and of a pop on the queue is known (`AppendAfter`, `TailAfter`).
`OneSessionInBuffer` is not: it needs to know of the queue that no chunk of an
old session follows a Connected, which is `SessionInv`.

**LifecycleProofs.** `HandlersSafe`, `OrderSafe` and `PortsSafe`, for any
configuration files and any number of batteries and descriptors. `IInv` joins
three parts: the configuration does not change (`TypeInv`); `HandlersAgree` with
the types it needs (`FdInv`); and `PhaseInv`, which relates where `main()` is to
what is on its stack, to which ports are still attached and to what the HTTP
thread may do (`todo` is what is left of `StartUp` or of `StopAll`, the objects
are a prefix of `Objects`).
`HandlersAgree` alone is not inductive at the Dispatcher's destructor, which
closes every descriptor: that no port still holds one is `PhaseInv`. `PortsSafe`
needs more, as `try_open()` would lose a descriptor if it were called for a port
that is open. `KeptInv`, inductive relative to `IInv`, says that no descriptor is
open for a port but its own, and for each moment of the start-up which ports
`main()` has come to: `PlaceOfPort` finds the one step of `StartUp` that opens a
port, before it the port is neither open nor waited for, after it it is one of the
two.

**HistoryProofs.** `TypeCorrect`, `RowsAreComplete`, `RowsArePast` and
`WindowIsRecent`, for any number of batteries, day length, retention, window,
crashes and faults; `PurgeIsSafe` if the transactions that store energy succeed
(`"insert" \notin Faults`; without it the code does purge samples that were never
counted, see the hazard at `src/history.cpp:597`). `IndInv` states the table
properties for the live and for the synced tables, as a power failure brings the
latter back, and `AggInv`: the days before the `today` of a running aggregation
have their row or are still pending. `RamInv` says that the window in RAM is in
order and ends before now.

**HttpHistoryProofs.** `TypeCorrect`, `Descent` and `Coverage`, for any window,
page size and time to live, with samples written and purged at any time.
`DescentInv` says that everything fetched lies above the end of the request under
way and of the context's. `CoverInv` says that what the client has, with the
page under way, shows every row down to where the next request goes on, and
every row once there is none. Its core is arithmetic and finite sets: the buckets
of a decimation step do not lose rows (`Bucket`, `Represented`), the step of a
later, shorter window is not larger than that of the whole one (`DivGrows`,
`StepShrinks`), and a page that `LIMIT` cuts short keeps the newest rows
(`Kept`, `LimitLimits`, `PageShows`).

**InverterProofs.** `SumsSafe` and `SocSafe`, for any configuration
of batteries and reserves. `WidthAssumption` says that no 32-bit product
overflows (up to 42949 Ah); `SumsSafe` also assumes `OnTheWire`: there is an
address for every module (at most 254) and no current exceeds 16 bits of 100 mA.
Nothing in the code checks either. `ModulesAddUp` and `SocSurvives` hold in every
state of the right type (`TypeInv`), so that their proofs are about the operators:
the address map is one run of addresses for each battery (`SlotsPlaced`), dividing
by the modules and then by the scale is one division (`DivTwice`), the scale makes
the cast to 16 bits harmless (`ScaledDown`), percentages of rounded numbers differ
by one at most (`PercentOfParts`, `PercentOfReserve`), and all modules of a battery
say the same, so that their sum is a product (`SumOfModules`). `FlattenSeq` and the
sum are recursive functions; what is needed of them is proved from a least
counterexample (`FlattenInduction`, `SumOfEqual`), as the library's induction rules
cannot be instantiated.

`HearsTheStream` is the refinement of `FrameStream`. Its invariant `RxInv` says that
between two reads the buffer is empty or an unfinished frame within the limit; what
is left is that taking the frames out of a buffer at once does what `FrameStream`
does symbol by symbol (`HearTaken`, over the cases of `TakeCases`). It needs
`BufferAssumption` (a frame under way and a full read fit, as 4096 and 512 bytes do)
and `SymbolAssumption` (delimiters are not bodies).

**StreamTheorems.** What both receivers rest on, for every buffer and chunk. A
recursive function over sequences exists and is unique only by an induction on their
length (`TakeExists`, `TakeUnique`, `TakeEquation`); as the library's rules take an
operator, the induction is over membership in a set, from a least counterexample
(`LengthInduction`, `AppendInduction`). `TakeCases` is the case analysis of
`process_buffer()` at the head of a buffer, `TakeType` what can be left and come out.
`FoldNil`, `FoldAppend`, `FoldKeeps` and `FoldCat` do the same for `FoldLeft`; the
folded operator is the constant `Op`, and a module that cites the theorems
instantiates it with its own. Writing `TakeCases` showed that two guards of
`try_parse_pylontech` overlapped in the model where the code tests them in order;
they are disjoint now.

**BatteryLinkProofs.** For either kind of link, frames of any length, any noise,
chunks up to a frame, and any losses and reconnects:

- `TypeCorrect`. `TypeInv` adds to `TypeOK` what the line carries for each link
  (JK bytes with their places, or Pylontech symbols) and what the counters of the
  trace may be. Its core is that one byte keeps the assembler (`PushType`), one
  answer the master (`DispatchType`), and one chunk what either hands on
  (`FeedType`, `PylFeedType`).
- `CellCountKept`. `CellInv` says that what answers under the battery's address
  tells the truth or nothing: on the line, in the receive buffer, and in
  `last_cell_count_`, which is known once the settings have it.
- `JkFindsBack`, if `NoFalseMagic`: no noise byte is 0xAA, and no frame holds 0x55
  0xAA behind its own magic. The run `battery_link` satisfies this. With 0x55 and
  0xAA as noise TLC refutes `JkRecovers`: the two bytes just before a frame cost that
  frame, and may do so again before the next, as the assembler throws the byte that
  refutes a magic away without looking at it (`src/jk_protocol.cpp:101`).
  `missed <= 1` alone says nothing of the buffer. `JkInv` follows the frame that is
  passing: the assembler has its bytes so far (`Synced`), is looking for a magic
  inside it (`Searching`), or is still filling up a frame begun before it and is
  too far on to be stopped by it (`Filling`). When a clean frame has been
  missed (`Owing`) the buffer is empty when the next one begins, or that one is not
  clean. `WireInv` says that the battery sends noise and whole frames;
  `TrackedStep` takes one byte, `TrackedChunk` a chunk, `TrackedCut` and
  `TrackedMore` what the line loses and gains.

Only model-checked: everything about liveness (`SlotIsGrantedUnlessDead`,
`LinkLossIsHandled`, `StopCompletes`, `TelemetryFlows`, `DisconnectIsShown`,
`TelemetryArrives`, `CellCountArrives`, `ShutdownCompletes`,
`EventuallyAggregated`, `LoadEnds`, `ContextIsEvicted`, `PortComesBack`,
`TheSilentFallSilent`), as the prover has no rules for fairness. Every invariant,
action property and refinement of the passing runs is a theorem. Those with a
hypothesis are `Exclusion` and `Refinement` (no stops), `LossNoticed` (no early
drop), `PurgeIsSafe` (no failing insert), `SumsSafe` (`OnTheWire`) and
`JkFindsBack` (`NoFalseMagic`); the paragraphs above say what each of them
excludes.

## 5. Where code and documentation disagree

| run | the code | what is written |
|---|---|---|
| `ble_lost_link` | a link lost between `connect()` and the drain of `work_event_` in `enter(Online)` is never noticed | "connection lost, reconnecting after" (`src/ble_client.cpp:255`) |
| `ble_throw` | an exception out of `services()` ends the thread with the slot held; nobody scans again | "Must not throw." (`include/thread.hpp:23`) |
| `early_signal` | `HttpServer::run()` never looks at `stopping()`, and `event_base_loopbreak()` is forgotten if the loop has not begun (`src/http_server.cpp:160`); a signal during start-up leaves `main()` in the join for ever | "Must poll stopping() and return when it becomes true." (`include/thread.hpp:22`) |
| `master_rtn` | `PylontechMasterProtocol::feed()` tells answers apart by the CID2 of the request (`src/pylontech_master.cpp:76`); the repository's own responders put the return code there (`src/pylontech.cpp:327`, `tests/pylontech_test.cpp:154`), and against such a battery no telemetry arrives | "bridge polls a `ttl`/`pylontech` battery over UART" (`debian/changelog:40`) |

Met while modelling, without a run of their own:

- A client stopped while it scans releases the slot with its discovery running;
  the next one may scan too. "Only one owner may scan/connect at a time"
  (`include/ble_scan_coordinator.hpp:10`). `RadioExclusive` is therefore checked
  and proved without stops, `RunningRadioExclusive` with them.
- Without a pending day `aggregate_pending()` returns before the purge: "Purge
  raw samples older than 8 days regardless of aggregation status"
  (`src/history.cpp:597`). And the samples of aggregated days are kept for
  8 days: "then purge the raw sample rows for those days"
  (`include/history.hpp:63`).
- `type` is called required (`src/config.cpp:72`, `config/bms_bridge.conf:11`), but a
  battery without one is accepted, with an uninitialised link (`Lifecycle` starts
  from every value it may have).
- A mirror is checked to be monitored by its link (`src/config.cpp:222`), and
  `Battery::start()` does not start every such battery: a pair of link and protocol
  that it does not know is only logged (`src/battery.cpp:26`).
- The first settings of a serial battery come before its first telemetry and have
  module voltage limits of 0 mV; the settings after the next request mend them
  (`CellCountArrives`).
- `include/inverter.hpp` says that a reserve "reports SoC 100%", and the code
  reports the SoC of its mirror.
- A comment in `src/pylontech.cpp` says that "current limits stay unscaled across
  virtual modules", and the Inverter divides them (`ModulesAddUp` shows why it
  has to).

## 6. What is not modelled

- SimpleBLE beyond its calls: it is assumed that no notification arrives after
  `disconnect()` has returned, and exceptions out of `scan_stop()` are left out.
- The data race of `send()` with `teardown_peripheral()` on `peripheral_`.
- Failures of `epoll_create1`, `eventfd` and `timerfd_create` (they throw at
  construction), the command line, and `Dispatcher::stop()`, which nobody calls.
- A handler that destroys the `std::function` it runs in
  (`src/dispatcher.cpp:115`): undefined behaviour of the object, not of an order.
- `BmsEvents` does not lose the link before the client has settled in Online;
  that is `BleClient`'s subject (`ble_lost_link`).
- `BatteryLink` carries one value per frame: the fields of a frame, the layouts
  for 24 and 32 cells, units, hex digits and checksums of the Pylontech codec are
  conversions without state. What a JK BMS makes of a request is in `BmsEvents`.
- `Lifecycle` does not look into the handlers and takes libconfuse and libevent as
  their documentation describes them. Numbers of the configuration that are only
  passed on are left out of `Config`.
- `History` has a clock that never goes back, takes the rows of `batteries` as
  given, and represents the energy integral by the samples it runs over; a read
  error in the middle of a SELECT is left out, as are the readers
  (`range`, `get_daily_energy`), which change nothing.
- `HttpHistory` leaves out samples with equal time stamps and the handlers that
  only read (`/battery`, `/batteries`, `/daily`, files).
- `Inverter` leaves out cell voltages, temperatures and alarm bytes, and takes
  `remaining <= total` and numbers that fit 32 bits from the BMS and the
  configuration. Writes to the port succeed, and a lost
  adapter gives a read error, as the code's comment says.
- Logging, packaging, the migration script and the rest of the dashboard keep no
  state that other parts depend on.

## 7. Plan

Done: all modules of section 2 and the proofs of section 4. Left, in this order:

1. The byte layout of the Pylontech codec (`serialize()` and `deserialize()` as
   inverses of each other where they claim to be) and of the JK fields, as
   operators checked over bounded inputs.
2. The readers of `History` in an interleaving with the purge, and with read
   errors; a clock that is set back, once the code promises something for it.
3. `UartTransport::send()` with a port that does not drain, when it is bounded in
   the code.
4. `JkFindsBack` from a weaker `NoFalseMagic`: the beginning of a magic in the middle
   of a frame is harmless, as the next byte refutes it.
