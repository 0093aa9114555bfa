# Verification of qtiohelper

TLA+ models of the hardware helpers in `src/` (a Qt library: relays, position
feedback, a serial port, SPI over TCP), TLC configurations that check them on
small instances, and TLAPS proofs for every value of the constants. File and
line references below are relative to the repository root.

- [The system](#the-system)
- [Modules](#modules)
- [What the models say of the code](#how-the-models-correspond-to-the-code)
- [Runs](#runs)
- [Bounds](#bounds) and [fairness](#fairness)
- [Proofs](#proofs)
- [What the checks found](#what-the-checks-found)
- [Not modelled](#not-modelled) and [plan](#plan)

## The system

Everything runs in one thread per object, on a Qt event loop: a "step" of the
system is one event handler (a timer's timeout, a signal from below, a call
from a client) run to its end. Concurrency is the order in which these events
come. Signals between layers are direct calls, so `idle()` of one layer and
the reaction of the next are one step, and a client's slot on `idle()` runs in
the middle of the emitting handler.

| Component | State it keeps | Operations | Talks to | Hard part | What makes it correct |
|---|---|---|---|---|---|
| Relay base (`relay-base.cpp`) | masks of requested (`logicalEnableMaskNext`, `logicalSetMaskNext`), running (`logicalDirtyMask`), switched (`logicalSetMaskCurrent`) relays | `startSet`, `startSetMulti`, `isBusy`, `getLogicalRelayState`, `startNextTransaction` | base class of the three layers | requests are collected and overtake each other | requests taken together, `idle()` only when all is done |
| Relay mapper (`relay-mapper.cpp`) | the masks, a down counter per relay (8 bit), slice timer | `setup`, `startSetMulti`, `onSliceTimer`, `onLowLayerIdle` | low layer (two callbacks, `onLowLayerIdle` slot); `idle()` upwards | pulses of bistable relays while requests come and outputs are in flight | exact pulse lengths, coils off at the end, contacts follow the logical state, no lost or early `idle()` |
| Relay upper base (`relay-base.cpp`) | masks, target, idle timer, `bForceSet`, `lowLayerTransactionStarted` | `setLowLayer`, `startSetMulti`, `onIdleTimer`, `onLowLayerIdle` | the layer below, `process()` of the derived class | the idle timer against the lower layer's `idle()`; forced requests; slots that make requests | work never left behind, one `idle()` per request |
| Relay sequencer (`relay-sequencer.cpp`) | groups, phase (IDLE, 2ND, END), mask of the second transaction | `addGroup`, `process` | as upper base | two transactions per request, overlapping requests | break before make / make before break, target reached |
| Relay serializer (`relay-serializer.cpp`) | groups with currents, delayed relays | `addGroup`, `process` | as upper base | batches of overlapping requests | supply never overloaded, batches come to an end |
| ActuaSense (`actuasense.cpp`) | per action state, timeout and desired position; output masks, demo set-up | `openMultiAction`, `startOutSet`, `startInObserve`, `closeMultiAction`, `onPollTimer`, `getLongTermStatus`, `removeFromLongObserv`, `setupDemo` | relay outputs and inputs by callbacks | polls, timeouts and further actions interleave | each action ends once, `multiActionFinished` once per multi action, with its error |
| Bit input poller (`bit-input-poller.cpp`) | bit array, invert mask, poll timer | `setupInputMask`, `startPoll`, `stopPoll`, `onPollTimer`, `onBitMaskReadFinish` | read function (blocking or not); `bitmaskUpdated()` upwards | a read that outlasts the poll period, bits inverted in place | the bits shown are the levels read, inverted once |
| Serial port async block (`serialportasyncblock.cpp`) | receive buffer, three timers, pending flag | `sendAndReceive`, `onReadyRead`, timeouts | QSerialPort | three timers against data in pieces | each exchange ends exactly once |
| SPI remote protocol (`qspiremote.cpp`, remote branches of `qspidevice.cpp`, `remote-common.cpp`) | client: connection, dummy file; server: a device per connection | every `QSPIDevice` call as a frame and its answer; `onClientNew`, `onReceive`, `onClientDisconnect` | TCP | frames in pieces, a server that blocks inside a frame, clients lost in a call or connecting again | looks like a local SPI; frames stay apart; calls return; devices are released |
| SPI device (`qspidevice.cpp`) | file, `bSWReverseRequired` | `open`, `close`, four setters, `sendReceive`, `readData`, `writeData` | spidev by `ioctl` | controllers without LSB first | the order of bits is the one set last |
| Test applications, tools | - | - | drive the library | - | - |

The relay stack is the core: the layers share a base class, and
`setLowLayer` stacks them freely on each other:

    client --startSet--> serializer / sequencer --startSetMulti--> mapper --callback--> low layer
           <--idle()---                         <----idle()------         <--idle slot-

## Modules

| Module | Models |
|---|---|
| `RelayBase` | the mask algebra of `QRelayBase`, pure operators on sets of relays |
| `RelayLayer` | abstract: what a layer promises the one above it (the contract) |
| `RelayMapper` | `QRelayMapper` with the low layer, pins and contacts |
| `RelayUpperBase` | `QRelayUpperBase`, over a lower layer that is only known to keep `RelayLayer`; the outcome of the virtual `process()` is a parameter of its handlers |
| `RelaySequencer`, `RelaySerializer` | the two `process()` functions, composed with `RelayUpperBase` |
| `ActuaSense` | `QActuaSense`: outputs, multi actions with timeouts, polls, long-term observation, demo |
| `BitInputPoller` | `QBitInputPoller` with its read function |
| `SpiCalls` | what each `QSPIDevice` call may do to a local device and return, pure operators |
| `SpiDevice` | a process and its local device: call by call, what SPI access is to look like |
| `SpiAccess` | `SpiDevice` and what the remote access makes different: a temporary file that may fail to open, reads whose failure is not told |
| `SpiRemote` | clients, TCP and the server that performs the calls, byte by byte |
| `SerialPortAsyncBlock` | `QSerialPortAsyncBlock` with the device and failures of the port |
| `RelayMapperProofs`, `RelaySequencerProofs`, `RelaySerializerProofs`, `ActuaSenseProofs`, `SerialPortProofs`, `InputPollerProofs`, `SpiRemoteProofs` | the theorems about these modules |
| `RelayUpperBaseProofs` | lemmas about requests, masks and the lower layer that sequencer and serializer share |
| `MC...` | values of the constants for TLC |

`RelayMapper` implements `RelayLayer` (property `ImplementsContract`, refinement
mapping `MappedLayer`; its safety part is also proved), and `RelaySequencer`
and `RelaySerializer` run on `RelayLayer` in place of the mapper. What is shown
of them therefore holds above every layer that keeps the contract, and the
state space does not multiply. `SpiRemote` implements `SpiAccess` once for each
client (property `NearlyTransparent`, mapping `Access`, also proved).
`SpiDevice` is what it would implement if it were fully transparent. All take the
effects of the calls from `SpiCalls`, the clients' device in the specifications and
the server's in `SpiRemote`. Definitions commented `FAULT` are single slips
of the definition that follows them; no specification uses them, they document
which slip each property notices.

## How the models correspond to the code

**Masks.** A `QBitArray` over the logical relays is the set of relays whose bit
is 1. `logicalEnableMaskNext` is `enableNext` (mapper) or `up.enable` (upper
layers), `logicalSetMaskNext` is `setNext` / `up.set`, `logicalDirtyMask` is
`dirty` / `up.dirty`, `logicalSetMaskCurrent` is `state` / `up.target`. The
upper layers' `getLogicalRelayState` asks the lower layer, so their state is
`layer.state`.

**Mapper.** `slice` is the slice timer: stopped, single-shot with 0 ms, or
periodic. `OnSliceTimer` is one run of the handler: it returns at once while
the low layer is busy, otherwise it takes all requests, counts all pulses down,
computes the two physical masks and calls the low layer. The loop over the
relays is written as set expressions over all of them: the body for one relay
only reads and writes bits of this relay, because the pins of different relays
are disjoint in a set-up table. The order inside the body matters and is kept:
a relay taken in this slice is counted in the same slice (`NextCounter`), and
the release of a coil overwrites an energise of the same pin (`Energised`).
`ui8OnTime + 1` and the decrement wrap at `MaxTime` (255 in the code).
`Output` is the hardware: pin levels, and contacts that follow energised coils.
The low layer either finishes inside the callback (`Blocking` contains TRUE) or
later by `LowLayerFinishes`. `owed`, `held`, `wanted`, `driven` are history
variables that no guard reads, but `owed`, which the "waiting" client reads.

**Upper layers.** `OnIdleTimer` and `OnLowLayerIdle` are the two handlers,
`RunProcess` their common end, and the outcome of `process()` their parameter. The lower layer takes one outcome of the
contract; when the outcome is `idle()`, the upper layer's handler is part of
the same step, since the signal is a direct call. `up.bypass` is `bForceSet`, a
forced request hands its relays down at once and turns the next lower `idle()`
into one of this layer. The client's slot on that `idle()` may make a request
before the handler looks at `isBusy` (`Replied`). `lowLayerTransactionStarted`
is not initialised by the constructor, so its first value is arbitrary (`use.started`).
`use` also says which relays the client names in one request (`asks`).
`idles` counts `idle()` signals since the last request.

**Sequencer.** `SequencerProcess` has one case per phase. A group passes through
all-on or all-off, or its relays move in the first or the second transaction
according to the direction. `enable2` is `enableMask2` including the bits that
earlier transactions leave behind, which the code does not clear.

**Serializer.** `Batch` is the loop over the entries of a group: an entry whose
relay changes in the entry's direction is taken if the load still allows it.
Currents are integers of one unit instead of floats.

**ActuaSense.** An action's id, its bits and its texts are reduced to the
action itself, whether it has an output (`Driven`) or a sensor (`Sensed`), and
whether the client passed an error text and a long-term error text (`err`,
`long`). `act[a].st` is `m_eActionState`, `since` is `m_iMsSinceLastSet`. `OnPollTimer`
is the reader's completion: the input bits become any value, and all of
`onPollTimer` runs with the time since the last poll; the order arrived, timed
out, lost and the second loop that drops the rest after a failure are the LET
definitions of `Poll`. `Gaps` is what `QElapsedTimer::restart` returns, which
for the first poll may be far below zero (`Never`), as the timer was never
started. `Tick` lets time pass. The first value of `m_bInAddingActions`
is arbitrary, as the constructor leaves it. A client is "any" or "patient":
the second leaves a running multi action alone.

**Serial port.** The three timers are the set `timers` of those that are active,
and each may fire whenever it is: their lengths and the lateness of the event
loop are not needed for any property. `inbox` is what the device has sent and
`readyRead` has not signalled; `OnReadyRead` takes it whole, and since `Arrive`
interleaves with it an answer is cut in every way. `clear()` that fails emits
the error signal from within the call, so that `onError` runs inside the
calling handler: `SendAndReceive`, `OnTimeoutCommon` and `OnTimeoutMinTotal` contain this
outcome. `finishes` counts `ioFinished` since the last `sendAndReceive`.

**Bit input poller.** `mask` is the buffer the read function fills and the poller
inverts in place. A "blocking" reader fills it within `OnPollTimer`; the
others return busy, and their completion calls `onBitMaskReadFinish` directly
(`FillAndFinish`) or through the event queue (`Fill`, `OnBitMaskReadFinish`).
Nothing in `onPollTimer` waits for a read in progress, so several may be
pending. `levels`, `updated` and `overlapped` are history variables. With a
queued reader whose reads overlap, a second fill between a fill and its event
makes the poller invert one array twice: `UpdateShowsLevels` excludes this case.

**SPI device.** Of the settings and the data, `SpiCalls` keeps the order of the
bits: what the controller sends first (`lsb`), whether the software reverses
(`reverse`), and so the order on the line of each read or write. A call is a
set of outcomes, since every `ioctl` and `open` may fail. The operators are
the branches without `remoteClient`. `setMode` clears `lsb`: `SPI_IOC_WR_MODE` writes all
bits of spidev's mode, the one of the bit order among them. `Failed` is false, or
-1 of a read or a write; `Empty` is a read or write of 0 bytes.

**SPI over TCP.** A client is a thread that is blocked in its call: `pc` says
where. `CallOpen`, `CallServer` and `CallHere` are the three ways a call goes
(connect, send a frame, fail on the spot); `ReceiveAnswer` is one turn of the loop of
`readTCPFrameBlocked` and, with the last byte, the end of the call. The server
is one event loop: `Accept`, `Disconnect`, `SendAnswer` and the first turn of
`OnReceive` need it free (`EventLoop`), and inside a frame (`serving`) only the
next turn of the same loop, or the end of that connection, can happen, because
`waitForReadyRead` handles no other socket. TCP delivers at any time any part
of what was written: each turn takes the bytes that `Taken` computes for some
number of bytes that have come, with the read sizes of the code, also the one
that asks for the whole length again once the length is known. A byte is
`[body, len]`: which frame it is of and what the frame's length says. `Quit` loses a
client with any prefix of its request delivered, and TCP lets the server know: there
is no keepalive, and a network that falls silent is not modelled. `link` is the
connection: `hung` when the client's socket is gone and the server has not yet been
told.

`open` succeeds if the server opened its device and then the client its
temporary file (`Receive`, `FileAfter`). The file of a client in `Writable` can always
be opened, that of another may fail to; then `open` returns false with the
server's device open, and the setters, which do not look at the file, reach
it. A read that fails on the server's device is answered with an array of no bytes
(`BytesOf`), so that the client returns 0 (`Empty`) where a local one returns -1.

## Runs

| Run | Configuration | Shows |
|---|---|---|
| `mapper` | two kinds of client: one requests anything at any time (two bistable relays), one does not touch a relay while something is pending for it (also a monostable relay); blocking and non-blocking outputs mixed | for both, pulses last exactly `ui8OnTime` slices, also for the longest (`PulseTiming`) and are neither cut nor restarted (`PulseUninterrupted`); the coil of the present direction is released (`CurrentCoilReleased`); `idle()` is neither early (`IdleMeansDone`) nor lost (`NothingStranded`, `IdleComes`); the mapper keeps the contract (`ImplementsContract`). For the second, all coils are off at `idle()` and never both on (`SettledCoils`), and contacts = logical state = last request (`RelaysAsAsked`) |
| `mapper_reversal` | as the first | violates `AllCoilsReleased` (see below) |
| `sequencer` | 2 relays, a group of any kind or none; three uses | no forbidden combination in between (`NoForbiddenCombination`), the target is reached, and `idle()` comes, once |
| `sequencer_stranded` | the same, impatient client | violates `NoWorkStranded` |
| `serializer` | 3 relays on one supply; impatient client, shared lower layer, requests out of the `idle()` slot, waiting client that may force | the supply is never overloaded (`SupplyNotOverloaded`), a relay waits only for current (`DelayedForAReason`), no work is stranded (`NoWorkStranded`); for a client that waits, batches end with an `idle()` (`IdleArrives`) and the relays are then as wanted (`IdleMeansSwitched`) |
| `actuasense` | a valve without and a position with a sensor, two kinds of request, both clients, all demo set-ups | `multiActionFinished` comes once and only when no action is left (`FinishedMeansAllDone`), with the failure of any poll and no other (`FailureTold`); outputs are as asked for, with any mixture of calls inside and outside a multi action (`OutputsFollow`); a patient client is always told the end (`MultiActionEnds`) |
| `serial_exchange` | any answer of up to four bytes of two kinds, three end criteria, all subsets of the timers, every call of the port may fail | no timer survives its exchange (`NoTimerLeft`); a complete answer ends it however it is cut (`CompleteEnds`); it ends for a complete answer, a failure or its timeouts (`EndsForAReason`), and does end (`ExchangeEnds`) |
| `serial_finished_twice` | the same | violates `FinishedOnce` |
| `input_poller` | two bits, any of them inverted, all kinds of reader, up to three reads in progress | the bits shown are the levels read, inverted once (`UpdateShowsLevels`), and updates keep coming however the timer was stopped and started before (`UpdatesFollowTimer`) |
| `spi_remote` | two clients; one makes all nine calls, opens twice, may be lost anywhere and may fail to open its temporary file, the other one opens its device | each client's calls do and return what `SpiAccess` allows (`NearlyTransparent`); no read takes bytes of a second frame (`OneFrameAtATime`); a client whose file is open has an open device, both are open together if the file can always be opened, and no earlier device stays open (`DeviceFollowsFile`); a call on a connection returns, and lost clients' devices are closed, unless the server is caught in a frame (`CallsReturn`, `DevicesReleased`) |
| `spi_server_stuck` | two clients, one of them may be lost | violates `CallsAlwaysReturn` |
| `spi_lsb` | one local device without LSB first | violates `ReadWriteInOrder` |

The antecedents `Unforced` and `Disciplined` in `RelayUpperBase` name the uses a
property speaks about. They are not artefacts: a forced request is documented
to bypass the sequence, so `NoForbiddenCombination` and `SupplyNotOverloaded` cannot
be asked of a client that forces, and a layer whose lower layer is shared
cannot promise the relays' final state.

## Bounds

- Relays: 2 for the unrestricted client of the mapper, 3 for the settled one, 2
  and 3 above. Relays do not interact inside the mapper (disjoint pins) but
  through the shared timer and the shared output, for which two relays
  with different pulse lengths suffice. A sequencer group needs two relays to
  be in a forbidden combination; a supply needs three for a batch with two
  relays and a further one delayed. The impatient client of the serializer asks for
  one relay at a time, of any two; so does the client that makes requests in its
  `idle()` slot, of `a` and `b`. The others ask for any of the three together.
- Pulse lengths: 0 to 3 slices, `MaxTime` = 3, so that the longest pulse makes
  the counter wrap to 0 and back as 255 does in the code. The proofs are for
  every `MaxTime`.
- ActuaSense: timeouts 1 and 2, polls up to one tick apart (`MaxGap`), so that an
  action may end in the first poll after its start or a later one and two
  actions end in the same or in different polls. Longer times only add polls in
  which nothing ends.
- Serial port: at most four bytes (`MaxData`) between two `sendAndReceive`: one
  more than the longest criterion asks for, so that data also comes late.
- Input poller: three reads in progress (`MaxReads`), one more than an overlap needs.
- SPI: a length has 2 bytes (`Header`; 4 in the code), contents one: enough for
  frames cut inside the length, behind it and inside the contents. One client
  makes all nine calls, of each way a call can go, opens twice (`MaxOpens`) and may
  be lost (`Mortal`); the other only opens, once, while the server is blocked, or
  not, in a frame of the first. What the second does afterwards meets the server in
  the same way, as it handles every frame alike.
- `idles`, `notified` and `finishes` stop at 2, which stands for "more often than asked".
- Nothing else is bounded: no run has a state constraint.

Deadlock is checked but where the system may come to rest: `actuasense` and the
runs of `SpiRemote` and `SpiDevice`, whose clients need not call, may be gone, or
wait for an answer that cannot come.

## Fairness

Weak fairness of the handlers: Qt delivers the timeout of a timer that stays
active, and a low layer that was started reports its end (for hardware that
never reports, the mapper waits for ever by design: `CallbackQueryLowLayerBusy`).
For the upper layers, the lower layer keeps its contract, whose fairness
`ImplementsContract` checks of the mapper. No fairness is assumed of any client;
`ActuaSense` polls for ever (`Tick`, `OnPollTimer`): `startInternalInputPoll`
starts a repeating timer, and a client that polls itself is expected to. In
`SerialPortAsyncBlock` only the timers are fair, neither the device nor the
arrival of `readyRead`.
The poller's timer repeats and its readers finish what they began. A client
thread of `SpiRemote` runs (weak fairness of `ClientRuns`). The server's sockets
are served with strong fairness (`ServerRuns`): while the server blocks in the
frame of one connection, the handlers of the others are disabled again and
again, but the event loop polls all descriptors in each round and a socket
that has something is handled in it.
`IdleComes` speaks of behaviours in which the client stops making requests,
because a client that keeps asking keeps the mapper busy.

## Proofs

The theorems hold for every value of the constants that the `ASSUME`s of the
modules admit: any set of relays, any table of pins, pulse lengths, groups and
currents, any actions, timeouts and criteria, and all the clients of the module.
Where a property is an invariant, the argument is an inductive invariant that
implies it: it holds initially, and each action preserves it, by a lemma for each
action or small group of actions.

`RelayMapperProofs`

- `TypeAndTiming`: `TypeOK` and `PulseTiming` together are inductive (and
  `MapperTypeCorrect` follows). Neither is alone: `held` stays in range because
  a running pulse has slices to go, and the equation of `PulseTiming` needs the
  counters in range. The wrap of the 8-bit counter is lemma `ArmedCounter`
  (increment then decrement gives back every value), the countdown `OneSlice`.
- `MapperNeverStrands` (`NothingStranded`) is inductive as it stands: the timer
  is stopped only by `OnLowLayerIdle`, which checks just that.
- `IdleOnlyWhenDone` (`IdleMeansDone`) and `PulsesNotCut` (`PulseUninterrupted`)
  are action properties: the first follows from each action, the second
  needs the timing invariant at the slice in which a pulse expires.
- `PulsesRelease` (`CurrentCoilReleased`): the strengthening says, while an output
  is in flight, that the coil of the current direction will be released
  when the output arrives; from there the claim about the pins follows.
- `CoilsSettle` (`SettledCoils`) and `ContactsAsAsked` (`RelaysAsAsked`), for the
  client that lets a relay settle. `AsAskedInv` speaks of the output in flight
  before it arrives: the coil of the other direction is off in it, no relay gets
  both coils, and the contacts will follow the logical state. It holds because
  such a client requests no relay whose pulse runs, so that a slice that
  energises one coil finds the other one released.
- `MapperImplementsContract`: initial states and steps of the mapper are those of
  `RelayLayer`, or stutter, under `MappedLayer`.

`RelaySequencerProofs`, over any lower layer that keeps the contract

- `SequencerTypeCorrect`: `TypeOK`, with the groups disjoint that `addGroup` accepts.
- `NoForbiddenPassage` (`NoForbiddenCombination`) and `TwoTransactionsDo`
  (`TargetReached`) from `PassageInv`, which says for each phase where the lower
  layer is heading (`Goal`): in the first transaction all relays but those of
  `enableMask2` go to the target, and both the passage now and the one still to
  come go right for each group. Stale bits in `enableMask2` do no harm, because they
  only make a relay go to the target a second time.
- `OneIdleEach` (`OneIdlePerRequest`): a client that takes one `idle()` at a time is
  always in one of the four situations of `OneIdleInv`, at rest, forcing, waiting for
  the idle timer, or switching.

`RelaySerializerProofs`, likewise

- `SerializerTypeCorrect` and `NothingStranded` (`NoWorkStranded`) from
  `SerializerInv`, which adds that a busy lower layer owes an `idle()` and that a
  relay and direction is in one group only.
- `IdleAfterSwitching` (`IdleMeansSwitched`) from `SwitchInv`, the same four
  situations with what is still to switch: but for the delayed relays, the lower
  layer gets to where the client wants it.
- `NoNeedlessDelay` (`DelayedForAReason`) and `SuppliesKept` (`SupplyNotOverloaded`) from
  `SupplyInv`: a relay is delayed only if it still has to be switched, so that the
  next batch is chosen among relays that move. The load is a sum by a recursive
  function over the entries of a group, in lists of any length. That the function
  exists, that a batch keeps its load within the maximum and that fewer relays draw
  no more, needs induction over the entries; it is done for sets of numbers with the
  least element of the rest (`SetInduction`, `Recursion`, on which `BatchStep`,
  `LoadOfBatch` and `LoadMonotone` rest).

`ActuaSenseProofs`: `ActuaInv` is `TypeOK` with `FinishedMeansAllDone`, `FailureTold`,
and what makes them inductive. `NothingToldYet`: while actions are added, nothing
has been told, as an action could otherwise become active after the end.
`NothingKeptOutside` and `KeptWillFollow`: outputs are collected only inside a multi
action, and those collected complete what the client asked for. They give
`ActuaTypeCorrect`, `FinishedOnceAndAllDone`, `FailuresAreTold`, and
`OutputsAsAsked` (`OutputsFollow`).

`SerialPortProofs`: `ExchangeInv` is `TypeOK`, `NoTimerLeft`, `CompleteEnds` and
`MinTotalKept` (a minimum total time that is set is running or over, as long as an
exchange is pending). `TypeOK` is not inductive alone: only `NoTimerLeft` keeps the
timers among those set when `setUp` changes them. They give `SerialTypeCorrect`,
`NoTimerOutlives`, `CompleteAnswersEnd`, and, for each handler, `EndsOnlyForAReason`
(`EndsForAReason`).

`InputPollerProofs`: `PollerInv` counts the reads in progress by the kind of reader
and says that bits filled and not yet reported are in the array as they were read,
unless reads overlap. It gives `PollerTypeCorrect` and `ShownAsRead`
(`UpdateShowsLevels`).

`SpiRemoteProofs`, for any number of clients and connections, any length of the
frames' length field, every cut of the frames by TCP and every loss of a client

- `SpiInv` is inductive. A connection never holds more than one frame in each
  direction, in pieces that may be anywhere between writer and reader (`Pieces`), and
  what it holds fits what its client does: while the client waits on a connection
  that is up, either its request is under way, whole, and nothing has been done
  (`Asked`), or its answer is, whole, and the device is where the client's file will
  be when it has come, if it can be opened (`Tells`, `Ready`); otherwise the connection
  is `Quiet`, and file and device agree (`Agrees`). All but the present connection are
  `Unused`: a device can be open there only if the client's file may fail to open and
  the server has yet to learn that the client hung up. `OneFrameAtATime` and `DeviceFollowsFile` speak of the ends only and are not inductive: a client
  could be told of a call that was never asked for.
- It gives `SpiTypeCorrect`, `OneFrame` (`OneFrameAtATime`) and `DeviceFollows`
  (`DeviceFollowsFile`).
- `RemoteIsNearlyTransparent` (`NearlyTransparent`): under `Access` each client's view
  starts as `SpiAccess` starts, and every step is one of its steps or a stutter. A call
  begins in the client's step that makes it; an `open` that follows one left half
  done gives up the old device (`OpenAgain`). It is performed in the step of the
  server that reads the last byte of the frame (`HandleFrame`), or in the client's own
  step where the call fails on the spot; from then on the result is the answer under
  way (`Told`), and moving its bytes changes nothing, but that with its last byte the
  client opens or closes its file. `CallsInv` adds what the mapping needs: a call is in
  progress exactly while there is an answer to come or to return, the answer of
  `close` is void, the file is as `open` and `close` say when they return, and a device
  that is not open is `Closed`. Of two clients, only the one whose connection is
  served sees a step (`ServerElse`, `ClientsElse`).

Assumptions on the constants:

- The pin tables are as `RelaysAssumption` and `OnTimeAssumption` say (a bistable
  relay has a pulse of at least one slice; with 0 its coil would be set and
  released in one output and the relay would never move), and the client is one of
  the three kinds (`ModeAssumption`).
- `OfferedAssumption` is the type of the serializer's groups: `addGroup` gets a
  maximum and a list of entries. `OneEntryAssumption` says that a list names a relay
  at most once for each direction. `addGroup` compares a new group with the earlier
  ones only (`relay-serializer.cpp:22`); a relay that a list names twice would be
  put in the batch and among the delayed relays by two entries.
- The others are types.

Only model-checked: liveness (`IdleComes`, `IdleArrives`, `MultiActionEnds`,
`ExchangeEnds`, `UpdatesFollowTimer`, `CallsReturn`, `DevicesReleased`, and the fairness
of `RelayLayer` in `ImplementsContract`), which needs `ENABLED`. Every other property
of a passing run is a theorem.

## What the checks found

1. **A bistable relay reversed within its pulse keeps a coil on**
   (`mapper_reversal`). The new direction's coil is energised and the counter
   armed anew; at the end only the new direction's coil is released. The first
   coil stays on for ever, and during the second pulse both are. `CurrentCoilReleased`
   is the part of the promise that does hold for every client, and
   `AllCoilsReleased` holds for clients that let a relay settle.
2. **A request made while the sequencer switches may be left behind**
   (`sequencer_stranded`). Its idle timer fires while the lower layer is busy
   and gives up; when the running transaction ends, `process()` returns false
   and `idle()` is emitted with the request still collected. The next request
   picks it up. The serializer does not have this (`NoWorkStranded` holds):
   its `process()` starts with `startNextTransaction` every time.
3. **`ioFinished` may come twice** (`serial_finished_twice`). `onTimeoutMinTotal`
   clears the port with the exchange still pending; if that fails, `onError`,
   called from within, ends the exchange, and the handler ends it again.
   `onTimeoutCommon` looks at the pending flag after its `clear()` and is safe.
4. **Software bit reversal is never switched off** (`spi_lsb`). `setLSBFirst`
   writes `bSWReverseRequired` only when the `ioctl` fails. On a controller
   without LSB first, `setLSBFirst(true)` sets it; a later `setLSBFirst(false)`
   succeeds and leaves it, and reads and writes stay reversed until the next `open`.
5. **A client lost inside a frame stops the SPI server for everybody**
   (`spi_server_stuck`). The loop of `readTCPFrameBlocked` looks neither at the state of
   the socket nor at the result of `waitForReadyRead`. `Stuck` names this state; `CallsReturn`
   and `DevicesReleased` say what holds short of it.

Met while modelling, without a run of their own:

- The uninitialised `lowLayerTransactionStarted` may make a sequencer emit an
  `idle()` nobody asked for when somebody else uses the mapper below it before
  its first transaction.
- `onPollTimer` of `ActuaSense` adds the whole time since the last poll to every
  active action, also to one started just before this poll, which then times
  out early. This matters when the timeout is not far above the poll period.
- After an `open` that could not connect, `remoteClient` is set, and each later call
  of the device, `close()` included, waits for an answer that cannot come.
- A failed `open` over TCP may leave the device open. The server opens its device
  before the client opens its temporary file; if that fails, `open` returns false,
  but setters and `sendReceive` go on to the device and succeed, until `close`, the
  next `open` or the end of the connection. A remote read that fails returns 0, as the
  server sends the bytes without a status, where a local one returns -1. These two are
  what `SpiAccess` adds to `SpiDevice`, and against "fully transparent"
  (`src/README.md:290`).
- Overlapping reads of the poller are inverted twice. Nothing keeps the poll timer
  from starting a read while one is pending; with queued reports a second read may
  fill the array before the first is reported, and each report inverts it in place.
  `UpdateShowsLevels` is what does hold.
- `sendReceive` does not reverse bits, while `readData` and `writeData` do.

## Not modelled

- `setup()` of the mapper and `setLowLayer` while something is under way; the
  repository's clients set up once, before the first request. Between requests
  `setLowLayer` and `addGroup` are actions of the upper layers.
- A bistable relay with `ui8OnTime` = 0, overlapping pins, `RELAY_LOG_VALID`
  (never read).
- Bits shared between actions, and adding bits while actions run. The mode in
  which the client passes input bits by itself is the same handler.
- `sendAndReceive` while an exchange is pending, and from within the slot on
  `ioFinished`: the first is outside the documented use, the second would repeat
  finding 3 with a lost exchange.
- Time between two bytes off while the minimum total time is on: such an exchange can stay
  pending for ever (the minimum time gives way to the wait for the first byte,
  which the first byte then stops); `ExchangeEnds` asks for both ordinary
  timeouts, the documented set-up.
- SPI: `open` of a device that is open (it deletes `remoteClient` and then closes
  the old file through it); a network that falls silent, of which TCP tells nobody
  (there is no keepalive); frames no client of this library sends; mode, word
  length and speed as values; `setRemoteServer` after the first `open`, verbosity, and the command line of the server tool.
- Logging and the generation of the set-up tables.
- The poller composed with `ActuaSense`, whose inputs may be anything at each
  poll and so include what the poller shows.
- The test applications, which drive the library.

## Plan

Order of work: the relay stack first, since every request of a device passes
through it and its layers interact; then the feedback side; then the two
communication components.

1. Done: `RelayBase`, `RelayLayer`, `RelayMapper`, `RelayUpperBase`,
   `RelaySequencer`, `RelaySerializer`, the proofs of the mapper.
2. Done: `ActuaSense` with its multi actions, long-term observation and demo.
   `SerialPortAsyncBlock` with the exchange, its timers and failures.
3. Done: `BitInputPoller`; `SpiCalls`, `SpiDevice` and `SpiRemote` with the
   framing, the server and lost clients.
4. Done: the safety properties of all components are theorems, and the refinements
   of `RelayLayer` (safety) and `SpiAccess`.
5. Left: hazards listed without a property, where the repository makes a promise
   that could be stated: foremost what a timeout of `ActuaSense` is counted from. The
   inductive invariants are to be extended to what is added.
