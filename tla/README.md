# TLA+ development of pypilot-event-loop

A model of the event loop library: its application-facing facade, the two
schedulers behind it (a cooperative one for Arduino, libevent on Linux), and what
is built on them: TCP servers and clients on both platforms, the line protocol,
the protocol readers, memory streams, pin event sources and lines of a GPIO chip.
TLC checks the modules on small instances; TLAPS proves, for every size, every
safety property that a passing run checks: the facade's guarantees and that both
schedulers have them, that each scheduler implements the abstract timer service
with its own policy on missed points,
and the safety of the memory stream, the protocol readers, the TCP server, the TCP
client, the pin event sources, the libgpiod lines and the Arduino WiFi TCP.

```
tlc -workers 2 -config MCTcpServer.cfg MCTcpLineServer      # any run of PROJECT.json
tlapm EventLoopProofs.tla       # likewise ArduinoProofs, LibeventProofs, ReaderProofs,
                                # TcpServerProofs, TcpClientProofs, PinProofs, WifiProofs
```

## 1. Inventory

| Component (source) | State | Operations | Interacts with |
|---|---|---|---|
| `CallbackTask` (`scheduler.hpp`) | one callable in place; active, enabled, invoking, clear_requested | set, poll, set_enabled, clear | called by a scheduler (`poll`) and by the facade |
| `EventLoop` (`event_loop.hpp`) | slots with used flag, generation, task | on_repeat, on_delay, on_bytes_ready, on_pin_event, enable, disable, remove | calls the scheduler; called by the application, also from callbacks |
| cooperative scheduler (`arduino_loop.hpp`) | array of timer entries, exit flag | add_periodic, add_one_shot, remove, run_once, run_forever, request_exit | polls tasks, whose callbacks call back into it |
| libevent scheduler (`libevent_loop.hpp`) | heap items for timers and descriptors, callback depth | the same, plus add/remove descriptors | libevent calls `timer_callback`, `fd_callback` |
| TCP server (`linux_tcp_server.hpp`) | listener, connection objects | listen, close, accept, read/write/event callbacks, sweep | libevent; handler callbacks |
| line server handler (`tcp_line_protocol.hpp`) | slots: connection pointer, line reader, monitor | on_accept, on_data, on_write_ready, on_close, on_error | called by the server; calls the application |
| backpressure monitor (`tcp.hpp`) | over-high count, reported flag | check, reset | called by the line server handler |
| TCP client (`linux_tcp_client.hpp`), line handler of a client | state, pending and connected descriptor, its event in the loop; bound stream, line reader | connect, poll, close | libevent loop; handler callbacks, which call back |
| connection registry (`tcp.hpp`) | addresses of connections, count | add, remove, prune_invalid, clear | an application's handler keeps it |
| Arduino WiFi TCP (`arduino_wifi_tcp.hpp`) | connection slots with transmit ring and line buffer | listen/connect, poll, write, read, read_line, close | polled by a scheduler; WiFiClient; handler callbacks |
| protocol readers (`protocol_reader.hpp`) | buffers of partial messages, JSON state | poll | streams, callbacks |
| pin event sources | last level; counters written by an interrupt; a ring; a libgpiod line | notify_from_isr, read_event, push, clear | interrupt handler, kernel; drained by `on_pin_event` |
| pins on libgpiod (`linux_gpiod_pin_io.hpp`) | chip, line or request | open, write, close | libgpiod, every call of which may fail |
| `Micros32Extender` | last value, extended value | update | clock |
| memory streams | ring buffer | read, write, clear | application |
| other pins, serial, FIFO, UDP, descriptor streams | a descriptor or nothing | system calls | kernel |

Everything runs on one thread, but for an interrupt handler. What makes the code hard is re-entrance: the
application's callbacks run in the middle of a scheduler's scan, of a libevent
iteration, of a connection's read, and there they register, remove, disable
and close the very things being worked on. To this come time (late passes,
wrapping counters, libevent's cached time), fixed capacities, and the ends of
connections, which several causes compete for. `PROJECT.json` lists each hazard
at its line under `hazards`.

What makes each component correct:

* facade: a handle reaches its own registration and nothing else; a callable is
  destroyed once, not while it executes; nothing runs after removal or while
  disabled;
* schedulers: what is registered and live is scheduled exactly once; nothing
  runs early; delays complete; repeating callbacks keep their period grid and
  starve nobody; points of a grid missed by a late pass are left out by the
  cooperative loop and run one by one on libevent;
* libevent: an item is not freed while libevent or a callback refers to it;
* TCP servers: handler slots and connection objects correspond; each end is told
  once and after the input; lines are not mixed; limits hold; output arrives in
  order;
* TCP client: each attempt is reported once and concludes; no descriptor is
  leaked or watched in vain;
* readers: the messages do not depend on how the bytes were split and are those
  of a framing of the whole input;
* pin events: none is lost, doubled or made up; the loop gets out of a source;
* libgpiod lines: whatever fails, all that was obtained is given back, once.

## 2. Modules

```
CallbackTask <- EventLoop <- ArduinoEventLoop   (INSTANCE TimerService)   <- MCArduinoEventLoop
                          <- LibeventEventLoop  (INSTANCE TimerService)   <- MCLibeventEventLoop
                          <- EventLoopProofs <- ArduinoProofs, LibeventProofs
TcpBackpressure <- TcpLineServer <- MCTcpLineServer, TcpServerProofs
TcpClient <- TcpClientProofs
RingBuffer <- ProtocolReaders <- Framing <- MCProtocolReaders, ReaderProofs
           <- WifiTcp <- WifiProofs
           <- PinEvents (with GpiodLine) <- MCPinEvents, PinProofs
```

`WifiProofs` and `PinProofs` instantiate `ReaderProofs` for its lemmas about a ring.

Operators whose comment begins "Seeded fault" are faulty variants of the
operator that follows them. They are used by no specification; putting one in
the place of the original must make TLC find a violation (`mutants` in
`PROJECT.json`).

**CallbackTask** has the task as a record and its operations as operators on
it. `stored` is the object in `storage_`. `poll` is split in two, before and
after the callable, because the application acts in between.

**EventLoop** is the slot table over an arbitrary scheduler: `Register` has the
four outcomes of a registration (table full; the first unused slot is still
executing, so `set` fails; the scheduler refuses; success), `Remove`,
`SetEnabled`, `PollEnter`, `PollLeave` (with the completion of a delay). Each
callable is registered once, which names the registration. Ghost state:
`regs[c].phase` and `epoch`, `releases` (releases per slot) and `destroyed`
(destructor calls). An invalid handle makes every operation return false
without effect, so it is no step.

**ArduinoEventLoop** adds the task array (`tasks`, the first `task_count_`
elements), the scan (`pc`, `i`, `now_us`) and the clock. `run_once` is
`BeginPass`, then per entry `SkipEntry`, `PollNothing` or `PollEntry` ...
`PollReturns`, and `EndPass`; between the last two application actions
interleave. `AfterPoll` acts on index `i`, as the code's reference does,
whatever entry lies there by then. `RawTasks` are runtime tasks scheduled
directly; they share the array's capacity. `Driver` is what calls `run_once`:
`tick()`, which goes on after an exit request, or `run_forever()`, which does not. `promise` (ghost) records what was
asked for and the number of runs.

**LibeventEventLoop** has one item per registration, `callback_depth`, and
libevent as external state: pending deadlines, activated events in any order,
the cached time of the iteration, the break flag.

**TimerService** is the abstract specification: live registrations with due
times on a period grid, one callback running at a time. A callback starts, and a
repeat moves on, by the time the loop last read (`seen`, set by `Look`), which the
cooperative loop reads once per pass and libevent once per iteration. The two loops
differ in what they do with points of a grid that have passed before the callback
ran, and `CatchesUp` tells which: the cooperative loop advances past the time of the
pass and leaves them out (`arduino_loop.hpp:82`), libevent advances by one period and
re-arms with delay 0, so that each is run (`libevent_loop.hpp:20-22`,
`test_libevent_periodic_timer_drift.cpp:23-28`). An application moved from one to the
other sees that difference after a stall. Each loop implements the service with its
own policy and not with the other's (`ImplementsTimerService`); the due time of a
registration is mapped to `next_due_us` of its entry or item, `seen` to `now_us` or
the cached time.

**TcpBackpressure**, **TcpLineServer**: the server's objects by address, the
handler's slots, and `frame`, the callback in progress: accept, reading (token
by token, with `on_line` in between), checking the slots one after the other
(with `on_backpressure`), `on_close`/`on_error`. Every callback ends with the
sweep (`Finish`). Bytes are "part" or "end" (delimiter); a reader's buffer is
the set of clients whose bytes it holds. The application writes at any time; it
closes connections or the server as `AppUse` allows. `options` is chosen in the
initial state from `Options`: the server's limit, and whether a connection is
closed when it stays over the mark.

**TcpClient** has the client's members, the loop's events and the open
descriptors in `client`, the line handler in `reader`, and the callbacks in
progress in `stack`: `connect()` may be called in a callback of an earlier
attempt, and calls `on_connect` or `on_error` before it returns. `PollFailed` and
`PollEnded` push a frame with `closes`, since `close()` follows the callback;
`CallbackReturns` makes the line handler forget the connection and closes. The
attempt's number is its descriptor. Ghost `told` counts reports and records that
the application gave an attempt up.

**RingBuffer** has a ring as a record and the loops over bytes as operators on
whole sequences. The transmit ring differs only in `popped`, which starts over
at the beginning when it runs empty.

**ProtocolReaders** has the four readers on a memory stream. `PollByte` is one
round of the loop of `poll()`; `consume` is the reader's state machine, as an
operator that returns the next state with what it emitted in `out`. Writes come
between any two bytes, which also covers writes from the reader's callback.
`kind` is the reader, `Setups` gives each its alphabet and length.

**Framing** defines what the messages of a whole stream are, independently of the
state machines. `Cut` cuts a stream where what lies open since the last cut is
whole, and says which messages the pieces hold: a line ends with its delimiter, a
frame has the length its header gives, and a JSON value is what the grammar says
(a bracket closed by its kind at the depth at which it was opened, quotes and
escapes, a number split in three parts). `FixedFrames` goes by position alone.
`Cut` has no state of a reader: it looks at the open piece as a whole at every
byte.

**PinEvents** has the callback of `on_pin_event()` (`Tick`, then `read_event()`
and the application's callback until there is none) for every source; `kind`
says which. For the interrupt source `CopyCounts` and `CopyRest` are the two
ends of the guarded block; `Interrupt` may happen whenever interrupts are not
disabled. The digital source samples `level`, which changes at any moment.
`ghost.untold` is what the source has seen and not told. The clock is the
extender over `now % Wrap`.

**GpiodLine** opens a line in either version of libgpiod, as event source, input
or output; `lost` is the set of calls that fail. `MadeByV1` and `MadeByV2` make the
calls in their order, with the frees and the `close()` of each failing path. `given`
counts what libgpiod has given out less what it got back, and `held` is what the
object refers to, so that both a forgotten and a second free show.

**WifiTcp** has the server or the client (`role`) with `poll()` in steps: accept,
then per slot flush, `on_write_ready`, input, `on_data`, end, `on_close`. Between
them the application writes, reads, closes, prunes, connects. `on_accept` and
`on_close` keep the registry as `TcpDisconnectServerExample` does; closing a
connection with or without removing it is `TcpFixedHeaderServerExample` and its
neglectful variant. Bytes are numbered per peer, so that `StreamsKept` compares
what has arrived with what was accepted.

## 3. Runs

| Run | Instance | Shows |
|---|---|---|
| `arduino_any_use` | 3 callables, 2 slots, a raw task, generations modulo 2, periods 0 and 1, disabling of delays, exit, no restriction on callbacks | the slot table stays sound (all facade properties) |
| `arduino_timers` | 2 callables, a raw task, 2 slots and entries, period 2, delays 0 and 2, time 0..2 | array and registrations agree, the timer service, delays complete, repeats are not starved |
| `libevent` | 2 callables, periods 0 and 1, delay 2, time 0..3, exit requests, callbacks take no time | items and registrations, events armed for live timers, the timer service, delays complete, descriptors are served |
| `tcp_server` | 3 clients, 3 addresses, 2 slots; either 2 connections and close on limit, or 3 connections kept open | slots mirror objects, one end each, limits, one report per overrun |
| `tcp_client` | 2 attempts, 2 tokens of input each, callbacks 3 deep | attempts are reported once and conclude, descriptors match the state |
| `readers` | 6 setups: alphabets of 2 to 7 bytes, inputs of 5 to 7 bytes, buffers of 2 to 5, a ring of 2, chunks of 1 and 2 | messages are those of the reference framing, whatever the chunks |
| `pins` | all sources, counters up to 3, clock modulo 2, time 0..4, rings of 2 | events, clock, resources, the loop gets out |
| `wifi` | 3 peers, 2 slots, registry of 2, ring of 2, 3 bytes of output; server and client | output in order, registry, ends |

The bounds: two slots and two entries are the least at which a scan has a "before"
and an "after", and one callable, client or peer more than slots makes slots,
objects and addresses be reused. Time 0..2 with period 2, and 0..3 with period 1
on libevent, allow an entry to be late by one period and by several. `ClockMax`
equals `MaxTime`, so the clamping of a delay's due time happens. Generations
modulo 2 make a handle wrap after two releases. A ring of 2 with 3 bytes, and
longer inputs for the readers, wrap around at every offset. Inputs of the readers
are longer than two buffers (lines), two frames (fixed), a header and its payload
with another header behind it, or hold a nested container; 3-deep callbacks are a
connect in a callback of a callback. Output of 0, 1 or 2 against the marks 0 and 1
falls below, hovers between and rises above them. Counters up to 3 and a clock
modulo 2 reach their limits within a run. Symmetry over callables, clients and
addresses is used in runs without liveness properties. Deadlock is not checked
where the system may stop: no callables, clients or bytes are left, or exit was
requested.

Restrictions that a passing run makes, each the boundary of something described
under Findings:

* `InCallback = "no_holes"` (`arduino_timers`): callbacks do not register while
  the scanned part of the array has an inactive entry;
* `DisableDelays = FALSE` (both timer runs): delays are not disabled, not even
  through a handle whose generation has come round again;
* `SlowCallbacks = FALSE` (`libevent`): time stands still during an iteration;
* `AppUse = "careful"`: in `tcp_server`, connections are closed in their own
  on_close, on_error or on_backpressure, the server when no connection is open;
  in `tcp_client` and `wifi`, no `connect()` in the callback that reports the end
  of an attempt.

Restrictions of the properties: `MessagesAsFramed` promises JSON only for
streams of values that fit the buffer, or as long as the reader counted no
error; after an error it looks for a value in the rest, and `EmittedIsValue`
says that what it then emits is a whole value. `DrainEnds` excepts level sources
while the pin has the level, and libgpiod lines, whose read blocks when there is
no further event. `EndHeard` speaks of connections whose input has been read: a
handler that waits for the rest of a message never hears of the end.
`DescriptorsMatchState` allows the event that `close()` of the connection object
alone leaves in the loop.

### Findings

Four runs are expected to end in a violation.

* `arduino_lost`: a callback that removes itself and registers a replacement
  delay. `add_one_shot` compacts the array during the scan, the replacement
  lands on the scan index and is consumed as if it had been polled: it never
  runs, and `remove` of its handle returns false.
* `libevent_early`: a delay registered by a callback that took long fires early,
  since libevent counts from the iteration's cached time.
* `tcp_mixed_lines`: a client leaves an unterminated line; the next client in
  the slot has it prepended to its first line.
* `client_reconnect`: `connect()` in `on_close` or `on_error` begins an attempt
  which the `close()` after the callback ends; nobody is told.

More things the code does lie just outside the passing runs and are not runs of
their own. A delay that is disabled when due loses its entry or event, keeps its
slot and cannot be removed any more: `RemovableWhileLive` fails in both
schedulers with `DisableDelays = TRUE`. `close()` of a server with open
connections leaves the handler's slots bound to the destroyed ones:
`SlotsMirrorConnections` fails with `AppUse = "any"`. The WiFi client loses a
reconnect from `on_close` as the Linux client does: `EndToldOnce` of `WifiTcp`
fails with `AppUse = "any"`.

### Fairness

`FairSpec` assumes weak fairness of the loop's own steps (`Scan`, `Loop`, `Poll`,
`Tick` and `Step` of `PinEvents`): the application calls `tick()` again and again
or sits in `run_forever()`, and its callbacks return. Of the schedulers' clocks,
it assumes that time goes on: weak fairness of `Tick` for the cooperative loop,
strong fairness for libevent, where time stands still during an iteration and
`Tick` is therefore enabled only between iterations, again and again. The
`libevent` run includes exit requests; its liveness properties except behaviours
in which the application requests the exit infinitely often, since each request
may break an iteration off before it gets to a given event. In `TcpClient` the
kernel concludes a nonblocking connect sooner or later (`ConnectResolves`), and
the loop polls a descriptor that stays ready (`Poll(n)`). In `PinEvents` a
waiting interrupt is served; a read of a libgpiod line may fail at any time but need
not (`ReadLineFails` is not among the fair steps), so that the model waits where the
code blocks. `DrainEnds` excepts behaviours in which pins change
for ever. Nothing is assumed of what the application or a peer does.

## 4. Proofs

`EventLoopProofs` proves, for every set of callables, number of slots and width
of the generation, from `NoCallableAssumption`, `MaxCallbacksAssumption` and
`GenModAssumption`: type correctness, `LiveHandleValid`, `StaleHandleRejected`,
`ExecutingCallableAlive`, `DestroyedOnce` and the action property
`RunsOnlyLive`.

None of these is inductive. `ELInv` is: `SlotFlags` relates the four flags and
the storage of a slot (a task awaits destruction only while it executes);
`StoredOwner` says whose callable a slot stores; `HandleTrace` relates a handle
to its slot's history: a finished registration's generation is behind by exactly
the number of releases since, as long as that is less than `GenMod`, which is
what makes a stale handle differ from the current generation; and
`DestructorCount` counts destructors by whether the callable still is in a slot.
The step proof goes action by action; `remove()` and the completion of a delay
share the lemma `ReleasePreserves`.

`ArduinoProofs` carries these theorems over to the cooperative loop
(`ArduinoHandleSafety`, `ArduinoCallableSafety`): each of its steps is a step of the
facade or leaves it alone, by the way the module is built on `EventLoop`, so that
they hold even for uses in which the task array goes wrong. `LibeventProofs` does the
same for libevent; there the refinement needs the type invariant of the items, which
is proved with it (`LibeventTypeCorrect`); it becomes inductive together with
`DepthMatches` (the callback depth is one exactly inside a callback).

`ArduinoProofs` goes on to the task array, for every capacity and number of tasks,
from `MaxTasksAssumption`, `TaskNamesAssumption`, `ClockAssumption` and
`RequestsAssumption`. `run_once()` keeps a reference to index `i` of the array while
the callback it polls may register, remove and compact. `TasksInv` says why that is
sound without registrations behind a hole: a task has one entry (`OneEach`), the
entry of a slot's task is what its live registration asked for (`EntriesServe`), and
entry `i` is the polled task's, was due, and is empty once its registration is over
(`PollAgrees`). Hence `EntriesMatchRegistrations`. `TimersInv` adds that a live
registration has an entry and a live delay is enabled, hence `RemovableWhileLive`
and, action by action, `ImplementsTimerService`. The proofs speak of the entries an
array lists (`Lists`), wherever they lie; `AddLists`, `UnscheduleLists` and
`AfterPollLists` say what the operations do to them. `compact_inactive()` is a
recursive function; that it keeps the occupied entries, in place before the first
hole, is shown by its least counterexample (`CompactKeeps`). `NextDueIs` shows that
advancing `next_due_us` in one division ends at the first point of the grid after the
time of the pass, which is what `TimerService` asks of a loop that leaves missed
points out; `ServiceLooks` maps the reading of the clock at the beginning of a pass.

`LibeventProofs` goes on to the items. `NoDanglingItem` and
`ItemsMatchRegistrations` follow from `ItemsInv`: an allocated item belongs to a
live registration and names its slot, or is removed and waits for the end of the
callback (`ItemAgrees`); an event, activated or pending, has its item
(`EventHasItem`); and the callable that executes is the one whose item libevent
handed out (`ExecutingIsCurrent`), without which `remove()` in a callback could
free the item that `timer_callback` still uses. `NeverEarly` needs `DueInv`: the
event of a timer does not come up before the item's `next_due_us`, nor that
before what was asked for. `LibeventImplementsTimerService` maps every step to a
step of `TimerService` or a stutter. `TimersInv` says that the item of a live
registration has the period and kind that the application asked for; the lemmas
`ServiceStarts` ... `ServiceAdvances` give the abstract actions in terms of the
mapping alone, and `RegisterMaps`, `RemoveMaps`, `LeaveMaps` and their like
establish them for the concrete ones.

`LibeventTimersArmed` is what the re-arm delay is for: every live timer has an event,
activated or pending, at its due time, or at once when that has passed, or is the one
whose callback is running. `periodic_timer_next_delay_us` subtracts only when the
next point is ahead (`RearmedIsArmed`), a registration arms (`RegisterArms`), and
what another callback removes or compacts spares the events of live timers
(`SparedByCompact`). It is proved for every period and lateness; the run has lateness
up to three periods.

`ReaderProofs` proves `StreamInOrder`, `MessagesAsFramed` and `EmittedIsValue` for
every capacity, alphabet, reader, size of buffer, frame and payload, and every
sequence of writes, reads and `clear()`, from `RingAssumption`, `SetupsAssumption`,
`FramesAssumption` (frames are not empty) and `LiteralsAssumption` (the first byte
tells which kind of value begins). For the stream, the invariant adds that the ring
is well-formed (`RingOK`: the tail is the head plus the count modulo the capacity);
`PutAppends`, `GetTakes` and `ClearedEmpty` say what the operations do to `Content`.
For the readers, `ReaderInv` adds that the reader agrees with the bytes it has read
(`Agrees`), which has a part for each:

* lines and headers (`LineAgrees`, `HeaderAgrees`): the buffer is what is kept of the
  open piece of `Cut`, and the messages are the same. For a line that does not fit
  this is what `Kept` says of its length modulo the buffer, and `KeptStep` follows it
  byte by byte;
* fixed frames (`FixedAgrees`): the buffer is the part behind the last whole frame;
* JSON (`JsonAgrees`): what was emitted are values, and without an error so far the
  buffer is the open piece and the messages are those of `Cut`. `Begun` says what each
  state means for the buffer: a string whose end is to come, a number so far, a
  literal and its `rest`, or a container whose `stack` has the bracket that is open at
  each depth (`Nested`), which is why `pop_container()` accepts exactly the brackets
  that match. That the reader gives up no value that fits is the other half: a
  refused byte leaves a prefix with which no value begins (`Hopeless`) or one longer
  than the buffer, and `Cut` never gets out of that (`Spoilt`, `SpoiltStays`), so the
  stream does not consist of values that fit.

`ValidNumber` shows that the scan for numbers accepts exactly those of the grammar.
`Scan` and `Cut` are recursive functions. The provers have no induction, but the
least number of a nonempty set exists (`LeastIn`): what a recursive function computes
holds at every index, or fails at a least one (`StaysIn`), and from that come its
range and its value at each step (`ScanIs`, `CutStep`) and that it agrees on equal
prefixes (`ScanAgrees`).

`TcpServerProofs` proves `SlotsMirrorConnections`, `EndToldOnce`,
`ReportedOncePerOverrun`, `ObjectsBounded` and `TypeOK` of `TcpLineServer`, for
every set of clients, finite set of addresses (`ServerSizesAssumption`) and number
of slots. `ServerInv` is inductive: `SlotsInv` lets a slot refer to a closed object
only while the callback that will unbind it runs; `ClientsInv` counts what a client
has been told by the state of its object (`ObjectAgrees`), which is what makes a
second `on_close` after a close in `on_backpressure` impossible; `MonitorsInv`
relates a monitor's `reported` flag to the overrun of the connection its slot
has. The sweep and the closing of one object are lemmas (`SweepEffect`,
`CloseEffect`), as is the end of every callback (`CallbackEnds`).

`TcpClientProofs` proves `DescriptorsMatchState` and `TypeOK` for every use, and
`AttemptReported`, `BoundWhileConnected` and `NothingAfterTheEnd` for careful use,
for every number of attempts and depth of callbacks. `StateInv` says which
descriptors each state has. Of the stack, `ClientInv` needs that nothing runs
inside `on_close` and `on_error` and that a frame that closes is alone
(`StackInv`), and for each attempt what the application has heard of it, by
whether it is under way, over or to come (`AttemptAgrees`).

`PinProofs` proves `InterruptsCounted`, `ConditionsReported`, `ClockTracks` and
`NothingLeaks`, for every size of counters, ring and clock. `PinsInv` has a part
for each kind of source: `CountsAgree` (between the two ends of the guarded block
interrupts wait and the copy equals the counters), `SamplesAgree` (the remembered
level is the last sample), `MemoryAgrees`, `NumbersAgree` (the kernel's events are
in the order of their numbers), `ClockAgrees` (the clock was read less than a turn
of the counter ago) and `LineAgrees`. For the last, `MadeByV2Once`, `MadeByV1Once` and
`CloseOnce` follow the calls on every failing path and show that what libgpiod has
given out is always some set of things, each once (`Once`): a free takes one of them
away, and none is freed that is not there.

`WifiProofs` proves `EndToldOnce`, `RegistryTracks` and `StreamsKept` for careful
use, for every number of slots, peers, entries and bytes and every capacity of the
transmit ring. `WifiInv` consists of `StateInv` (types); `Attached` (an active
connection is of a served peer that no other slot has, and its end has been told
only where `on_close` is being called) and `PeersAgree`; `EntriesAgree`; and
`RingsAgree`, by which the lemmas of `ReaderProofs` apply to each slot's ring. The
three parts of the invariant, ends, registry and streams, are proved one after
the other over the same lemmas about what the operations do to slots and peers
(`PeerChanges` ... `WriteEffect`).

Some theorems have a hypothesis, each the boundary of a behaviour described under
Findings: `SlowCallbacks = FALSE` (`NeverEarly`, `TimersArmed` and the timer service on libevent),
`InCallback # "anything"` (the task array), `DisableDelays = FALSE`
(`RemovableWhileLive`, the timer service on both), `AppUse = "careful"` (server,
client, WiFi).

Only model-checked is what holds under fairness, since liveness is out of the
prover's reach, and the four violations under Findings.

The invariants named here were checked with TLC on the instances of the runs before
they were proved.

## 5. Further work

The parts that are modelled partly: timeouts, watermarks and peeking of the TCP
connections, and the helpers that write text. The proofs about servers and clients
under careful use could be redone with the weakest restriction of the application
under which each invariant still holds.

## 6. Not modelled

Pins on files and on Arduino, serial, FIFO, UDP and descriptor streams are
wrappers around system calls without protocol state; joining a WiFi network is a
loop around an Arduino call. Platform selection is compile-time. `PeriodicTimer`
and `OneShotTimer` of `scheduler.hpp` are helpers that no scheduler uses. Stored
callables that do not fit are a compile-time error. Running the loop recursively
from a callback is not supported by the code and not modelled. Of the Linux TCP
connections, `peek`, `read_exact`, `read_line`, watermarks and addresses are left
out, and `write` of the client's connection, which is a system call; so are the
helpers that write text (`tcp_write_line`). A reader with options it rejects does
nothing and is not instantiated, nor is JSON without skipping of white space, nor a
line reader that keeps "cr" or has another delimiter than "lf". The
examples other than the two that shape the handler of `WifiTcp` only wire
components together and print.

External, modelled from how the code uses it: libevent's dispatching, the kernel's
sockets and queues, libgpiod, interrupts, the clocks, peers, and `WiFiClient`. The
last is taken to convert to true as long as it has a socket, also when the peer
has gone, as `poll_connections()` needs: on a core where it means "connected",
`valid()` turns false with the end and `on_close` is not called at all.
