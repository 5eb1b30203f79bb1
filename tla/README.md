# TLA+ models of the rover's control software and its USB-CAN converter

This directory holds a verification project for the repository it lies in: TLA+
modules that model the parts of the system that carry its control logic, TLC
configurations that check them on small instances, and proofs checked by TLAPS
that hold for every instance. `PROJECT.json` lists the parts of the system, the
runs, the source lines each definition stands for, the hazards the properties
are aimed at, and the theorems.

## The system

The repository is the software of a rover. Nodes on CAN buses speak Cyphal; a
computer reaches the buses through a USB-CAN converter.

| Part | State it keeps | Operations | How it interacts | What is hard |
|---|---|---|---|---|
| USB-CAN converter, frame path (`can_converter_firmware`: `main.c`, `can_common.c`, `usbd_gs_can.c`, `can/m_can.c`) | a pool of frame objects, a queue to the host, a queue per channel to the bus, two buffers lent to the USB endpoints | main loop: send, receive, report errors, hand buffers to USB; callbacks: DataIn, DataOut, suspend, resume, reset, configuration | callbacks interrupt the main loop and share the lists with it | interleaving, an empty pool, suspend and reset in mid-transfer |
| the same, control requests | bit timings and mode of each channel, device-wide flags, termination | SETUP, data stage | control endpoint of the same device | values checked in one place and used in another |
| deckard, the operator's console (`deckard`) | what it believes of the wheels and of the rover's motion, two channels between threads | move, stop, quit, help, ^C | sends setpoints to steppers and VESCs | a thread blocked on another, ^C at any time, lost setpoints |
| VESC firmware (`vesc_firmware`) | control mode, Hall sector, outputs | message handler, commutation interrupt, fault polling | takes deckard's or the bus driver's drive setpoints | mode changed under the interrupt, hall sensors read while the rotor turns, fixed-point arithmetic |
| stepper firmwares (`stepper_drivebase_firmware`, `stepper_shovel_firmware`) | duties of two coils, health of the drivers, heartbeat timer; the registers of the TMC5160s | setpoint messages, restart and other requests, health scan, heartbeat | take steering and shovel setpoints | chips that fail or reset between two transfers, restarts next to chips that go on, full transmit buffers |
| `embedded_common` | clock, CAN driver, pipelined SPI bus, LED strip | | library of both | clock wrap, pipelined replies |
| Cyphal bus driver and swerve controller (`cyphal_bus_driver`, `swerve_drive_controller`) | command and state of each joint | ROS 2 control life cycle, read, write, update | setpoints to the same nodes | life-cycle order, a stop that never leaves the queue |

The correctness of each part, in a sentence: the converter neither loses nor
duplicates a frame object, keeps frames in order and tells the host the truth
about every frame it accepted; the console never drives wheels against each
other, knows whether the rover is stopped and stops it when it leaves; a motor
is driven only on a valid command and never on a fault; a controller that is
deactivated leaves the rover stopped.

Boards, startup code, descriptors, register tables, vendored libraries and the
electronic designs are not modelled: they are constant data or setup.

## Modules

| Module | What it models |
|---|---|
| `GsCan` | the converter's frame path: main loop against USB callbacks and the CAN peripheral |
| `EchoProtocol` | what the host's gs_usb driver relies on: frames loaded in order and echoed in order, each once |
| `GsCanProofs` | the proofs about `GsCan`: types, who owns a frame object, the endpoint buffers |
| `GsCanOrderProofs` | the proofs about `GsCan`: the order of frames, and that it implements `EchoProtocol` |
| `GsControl` | the converter's control requests: SETUP packets, data stages, bit timings, modes, and the registers they end in |
| `MCGsControl` | the instance of `GsControl` for TLC |
| `GsControlProofs` | the proofs about `GsControl` |
| `Deckard` | the console: REPL thread, core thread, ^C handler, and the setpoints each wheel has received |
| `RoverMotion` | what the console promises about the wheels: steered only while all are halted, driven only when all are steered |
| `DeckardProofs` | the proofs about `Deckard`, and that it implements `RoverMotion` |
| `StepperNode` | a stepper board: drivebase or shovel firmware, CAN driver, clock and stepper bus of `embedded_common`, and the TMC5160 chips |
| `MCStepperNode` | the instance of `StepperNode` for TLC |
| `StepperNodeProofs` | the proofs about `StepperNode`: types, transmit buffers, the heartbeat's clock |
| `StepperChipProofs` | the proofs about `StepperNode` and its chips: restarts, setpoints, health |
| `Steering` | deckard's three-second timeout next to the ramps the drivebase firmware programs, in real units |
| `MCSteering` | the instance of `Steering` for TLC |
| `Commutation` | the VESC's commutation interrupt: hall sensors, fixed-point sine, modulation, duty cycles |
| `MCCommutation` | the instance of `Commutation` for TLC |
| `CommutationProofs` | the proofs about `Commutation` |
| `RosDrive` | the drive under ROS 2: swerve controller, Cyphal bus driver and the VESC of each wheel, composed |
| `MCRosDrive` | the instance of `RosDrive` for TLC |
| `SetpointQueue` | what a wheel can rely on: setpoints obeyed in the order given, the newest never lost |
| `RosDriveProofs` | the proofs about `RosDrive`, and that it implements `SetpointQueue` |

### GsCan

The main loop is a sequence of labelled steps (`pc`), one for each stretch of
code with at most one access to what the callbacks share, so an interrupt can be
taken between any two accesses. What runs under `disable_irq` is one step. A
callback is one step. `i` is the loop variable over the channels, `frame_object`
the local variable of that name; the lists are sequences of objects, an object
being its index in `msgbuf`. `frame` says what an object holds: nothing, the
n-th frame the host submitted on a channel (or its echo), the n-th frame from
the bus, or an error frame. `submitted`, `sent`, `echoed`, `arrived` and
`delivered` are ghost variables that no action reads except as bounds.

The CAN peripheral is a Tx FIFO that counts, an Rx FIFO that holds frame
numbers, and a status register reduced to two bits: a latched error code, and
error passive (which stands for the three error states). Reading the register
clears the error code as `can_get_error_status` does. The bus side of the FIFOs
and of the register is external.

The occasional events (suspend, bus reset, DFU detach, malformed packets,
channel restart, bus errors) are enabled by the constant `Events`, so that a run
can combine those its question needs.

Two guards come from outside the code. The first bus reset comes only after the
main loop has turned, because the host debounces an attach for 100 ms; and the
host does not configure the device while the main loop stands right before
arming the endpoint, because reset signalling lasts 10 ms.

### EchoProtocol

The abstract specification: `Submit`, `Load`, `Return`. With `Lossy` an echo may
be skipped, which the code does only while the bus is suspended. `GsCan`
implements it under the identity mapping of the ghost variables (`EchoSpec`),
which TLC checks and `ImplementsEcho` proves.

### GsControl

`GsCan` knows of the control endpoint only that a channel is started and
stopped; `GsControl` models the endpoint itself. `Config_Request` is a SETUP
packet, with all the checks that refuse one; the actions under `EP0_RxReady` are
the data stages. Between them `last_setup_request` says what the data stage is
for, and another SETUP packet, a suspend or a bus reset may come instead. Of a
SETUP packet the model keeps the request, the channel and how the length
compares; the ghost variable `transfer` is what the host is in the middle of,
`sent` and `started` what it asked of each channel.

`Stored` is the conversion that `can_set_bittiming` makes, `Nbtp`, `Dbtp` and
`Programmed` what `HAL_FDCAN_Init` makes of the result: a value less one is
shifted to its field, so a zero floods the field and those above it. `UINT32` is
the modulus of the sum of two segments; TLC computes with 32-bit integers, so the
instance scales it down to 1024, and the proofs hold for any value above 512.

External, and marked so or assumed: the register contents after power-on; the
library calls `EP0_RxReady` when a data stage is complete and acknowledges it
whatever is returned; a suspended bus carries no control transfers; the device is
configured whenever requests come. Left out: the timeouts of the HAL (the
peripheral's clock runs), the contents of replies.

### Deckard

`repl` and `core` say where the two threads stand, `cmds` and `notifs` are the
channels between them, `handler` is the ^C handler's thread. The angles of a
move are one member of `Orientations`; its speeds are named by the orientation
they belong to, and `STOP` is the zero speed. Each setpoint is published three
times, and `Publish(miss)` says which wheels miss one publication; `lost` bounds
how many a wheel misses in a row. `Turns` is the number of turns of the core
thread's loop that fit in the second for which a leaving process sleeps. The
three-second timeout is `Elapse`, which may happen at any time after the
notification was asked for.

### RoverMotion

The abstract drive: `Steer` and `Drive` reach any subset of the wheels with the
setpoint of one orientation, `Stop` any subset with a halt. A wheel is steered
only while the whole rover is halted, and driven only when every wheel has been
steered that way. `Deckard` implements it under the identity mapping of
`vesc` and `stepper` (`MotionSpec`): a publication of a command is a `Steer`, a
`Drive` or a `Stop` that reaches the wheels which do not miss it, and everything
else that the console does is a stutter. The set of wheels that a step reaches
is free, so lost setpoints are part of the abstract drive; that they leave no
wheel behind is what the three publications have to achieve.

### RosDrive

The controller manager turns a cycle of read, update and write (`phase`), and
takes the controller (`ctrl`) and the bus driver (`hw`) through their life
cycles between any two of them. `velocity` and `angle` are the command
interfaces, `NaN` until somebody sets them. `Update` may find the box locked and
any `set_value` may fail, the velocity's before the angle's. The driver
publishes into `queue`; `read` and `write` flush it, or panic, which aborts the
process (`hw = "aborted"`). A VESC takes a message in two steps, `HandleMessage`
(up to `motor_disable`) and `SetMode` (the critical section), with the
commutation interrupt `Commutate` before, between and after them.

Velocities are kept as signed squares of magnitudes and angles as direction
vectors, so the kinematics are exact in integers. The integers of the instance
are exact in the half-precision format of the setpoints, so that conversion
loses nothing here. Heartbeats are left out: they share the queue and change
nothing else.

External, and marked so: read and write are called in the inactive state as well
as in the active one; a command interface holds `NaN` until it is set and its
last value from then on; velocities are limited before write (the rover's
configuration sets `enforce_command_limits`); the VESC's CAN peripheral keeps the
newest message on an overrun.

### SetpointQueue

The abstract queue of setpoints of each wheel: the sender gives (`Give`), the
wheel obeys the oldest (`Obey`), too many waiting cost the newer ones except the
newest (`Overrun`), the sender may end and take some of the newest with it
(`End`), and a wheel may be reset, which disables it and may cost it some of the
oldest (`Reset`). `RosDrive` implements it (`WheelSpec`):

| `SetpointQueue` | `RosDrive` |
|---|---|
| `waiting` | `OnItsWay`: the message in the VESC's hand, its peripheral's FIFO, the driver's queue, oldest first |
| `latest` | the setpoint of the velocity that the driver reports |
| `inforce` | the control mode of the VESC |
| `gone` | the driver is aborted or finalized |
| `Give` | `Read` and `Write`, whether they publish or only flush, and `Deactivate` |
| `End` | a flush that panics, a shutdown |
| `Obey` | `SetMode` |
| `Reset` | `PowerCycle` |

What the mapping asks is not what `ReportedIsSent` asks: that speaks of a
pipeline that has run empty, `WheelSpec` of the order and the fate of every
setpoint in it.

### StepperNode

One module for both boards, since they share the loop and `embedded_common`:
`firmware` says which one is running, and is chosen by `Init`. `pc` is where the
processor stands: `Configure` (one write of `config_steppers`), then the loop of
receive (`NoMessage`, `HandleMessage`, `HandleRestart`, `HandleOther`), health
(`Scan`, one register of one chip at a time) and heartbeat (`Heartbeat`,
`NoHeartbeat`). The chips are records: their flags, the register that the next
transfer will answer, ramp mode, target, position and speed. Pivot and bucket
are the two halves of one target register. A chip turns, overheats, cools down
or loses its supply between any two steps of the processor; `HandleRestart`
resets the processor and not the chips, `PowerCycle` both.

`Transfer` is the pipelined SPI: the answer is that of the register named
before. `append_health`, `AppendPair` and `AppendDriver` are the status code, in
its order of channels and flags. `Later`, `Elapsed` and `Advanced` are `advance_if_elapsed`
on a counter that wraps at `TICKS`. `Transmit` ends in a panic if the three
buffers are full, except that a heartbeat may displace a response, which has the
lower priority.

Assumed of the outside: a frame leaves its buffer before the next turn of the
loop while the peripheral is on the bus (`automatic_retransmit` is off, so a
frame that nobody acknowledges is dropped as well); bus-off is never left, as no
code restarts the peripheral; a full Rx FIFO refuses messages; one call of
`node.receive` takes at most one transfer; payloads deserialise; instants
compare by the shorter way around. `Tick` is enabled only where the loop looks
at the clock. Left out: errors of the SPI peripheral, the LED strip (with a
timer like that of the heartbeat), and the telemetry that is compiled out. The
writes of `config_steppers` that do not bear on motion or faults are part of the
write before which they stand.

### Steering

Ticks of 10 ms, milliradians of the motor shaft. `Ramp` is the six-point ramp of
a TMC5160 (external), with the values that `config_steppers` writes. `Steer` is
a move whose orientation is new, `Timeout` the timeout of the core thread. The
model has no losses: it asks whether three seconds are enough when everything
works.

### Commutation

I16F16 numbers are integers in units of 2^-16, with the rounding of the `fixed`
crate; the constants are its constants. `Enter`, three times `ReadHall` and
`SetDuty` are one interrupt, and the rotor may enter the next sector between any
two of them. The main thread does not run during an interrupt; `HandleMessage`
and `SetMode` are its two halves. External: the Park transform and the space
vector modulation of the `foc` crate, the hall sensors and the rotor. Assumed:
the rotor stays in a sector for at least one whole interrupt (there are 14000 in
a second), and setpoints are duty cycles from -1 to 1 (deckard sends at most
0.09, and the drive joints are limited to 0.2).

## Runs

| Run | Shows |
|---|---|
| `gscan_usb` | one channel, three objects, every USB event: type correctness, `OneOwner`, `NoLeak`, `EndpointBuffers`, `HostFramesInOrder`, and that the frame path implements the lossy echo protocol |
| `gscan_errors` | one channel, two objects and endless bus errors under fairness: `ToHostInOrder`, the exact echo protocol, `EchoLive`, `OutRearmed`, and that a change of the error state is not lost with a report that found the pool empty (`StateReported`) |
| `gscan_reset_arm` | violated: after a bus reset with the pool dry the OUT endpoint is armed without an object |
| `gs_control` | two channels, any four SETUP packets of twelve kinds, fitting or not, completed or broken off, with suspend and bus reset; timings at the limits of each check: `RunsAsAsked`, `Indicated`, `OnlyNamed` |
| `gs_control_timing` | violated: the longest advertised first segment is programmed as something else |
| `deckard_drive` | two wheels, two orientations, three lines of input, ^C, a panicking core thread, two of three repetitions lost: `DriveAligned`, `NotifyDiscipline`, `BelievedStopped`, `QuitStops`, `MoveReturns`, `StopWorks`, and that the console implements `RoverMotion` (`MotionSpec`) |
| `deckard_ctrl_c` | violated: ^C during a move leaves the rover driving |
| `stepper_node` | two wheels, or a shovel board with one channel that is not used; two messages out of setpoints beyond the full duty, `NaN`, restart and others, one fault and one restart: `HealthTrue`, `Obeys`, `RestartStays`, `PanicOnlyOffBus`, `HeartbeatsApart`, `FaultReported`, `Arrives` |
| `deckard_steering` | violated: the turn from strafing to rotating is not done when deckard drives |
| `vesc_commutation` | all six sectors both ways, setpoints at the deadband, at the limits and at the ends of the range, sensors unplugged at any time: `SenseLimit`, `TorqueAsAsked`, `Even` |
| `ros_drive` | one inverted wheel off the centre, two commands out of three twists, five life-cycle transitions, one restart of the VESC, failing locks and flushes: `NoPhantomDrive`, `ReportedIsSent`, `CommandReaches`, and that driver, peripheral and VESC implement `SetpointQueue` (`WheelSpec`) |
| `ros_deactivate` | violated: the inactive driver publishes and reports the last command |

Why the bounds are enough. The pool's interesting states are empty, one object
and more; with three objects, one lent to each endpoint and one in hand, the
pool is empty while the queues are not. Two frames per channel are needed for an
order, a third for a queue behind a refused frame. A FIFO of depth one is full
and empty. Two channels are needed to mix up control requests; four SETUP packets hold a
timing and a start on each of them, or a timing, a start, another timing and
another start on one. The instance's timings are the ones at which a conversion
or a check changes its answer. Two wheels and two orientations are enough for
wheels that disagree, and three lines for a move, a stop and another move or a quit. Wheels do not
interact in `RosDrive`, so one is enough; its three twists stop it, turn it
backwards beyond its limit and fall into the deadband; five transitions bring
both components up and one of them down again. In `StepperNode` two channels
are enough for a scan that has passed one of them when its state changes, and
one fault for a chip that lies about itself, a bus that goes away or a chip that
is reset behind the processor's back; a turn of a wheel takes two steps, so a
restart, a fault or another setpoint finds it under way. The counter has four
values and the period is one of them, so that `start`, `end` and `now` meet its
wrap in every combination that the time between two looks allows. The state
space of `Commutation` is complete but for the choice of setpoints.

Two channels with every USB event are beyond an instance of reasonable size: the
runs of `GsCan` have one. That channels share the pool without losing or mixing
up objects, that the frames of each stay in order and that the echo protocol is
implemented is proved for any number of them.

Fairness. `GsCan`: the main loop is the only thread and keeps turning; the host
keeps an IN transfer posted, as the gs_usb driver does; an enabled channel gets
its frames onto an undisturbed bus. `OutRearmed` and `EchoLive` say in their
premises what more they need: channels that stay on, and for `OutRearmed` a bus
that does not report errors for ever. `StateReported` needs only the main loop. `StepperNode`: the processor runs,
frames leave, motors turn, and time passes (strong fairness, because `Tick` is
enabled only at one place of the loop); nothing is assumed of messages and
faults. `Deckard`: threads are scheduled and time
passes; nothing is assumed of the operator. `RosDrive`: the manager's cycle, the
VESC's loop and its timer run, and the locks of the box and of the command
interfaces are not found held for ever (strong fairness of an update in which
all of them are free): they are held only to copy a value.

## Proofs

`GsCanProofs` proves, for any number of objects, channels and FIFO elements and
any set of events,

* `Invariance`: `Spec => []IInv`;
* `TypeCorrect`, `Ownership`, `Conservation` and `EndpointSafety`: the same for
  `TypeOK`, `OneOwner`, `NoLeak` and `EndpointBuffers`.

`OneOwner` alone is not inductive: whether a step may link an object into a list
depends on where the object was, which the label of the main loop and the state
of the endpoints tell. `IInv` therefore adds `InHand` (an object is in hand
exactly at the labels `Holding`, and `to_host_buf` is set while it is handed
over) and `EndpointBuffers` (a started IN transfer has its object, an armed OUT
endpoint writes only into the object lent to it). The proof is organised by the
ways an object can move (queue to hand, hand to queue, pool to endpoint, ...):
each is a lemma about ownership, and each action is shown to be one of them or
to leave ownership alone. The assumptions are the ones named in `GsCan`: the
constants are natural numbers, and there are at least one object, one channel
and one FIFO element.

`GsControlProofs` proves, for any number of channels and SETUP packets and
whatever timings and modes the host sends,

* `ControlInvariance` and `ControlTypeCorrect`: the timing registers always hold
  values of their fields, which needs `Checked` (stored timings passed the
  check) and the arithmetic of `Stored`, `Nbtp` and `Dbtp` (`CheckedStored`,
  `RegistersFit`);
* `AsAsked`: `RunsAsAsked` speaks of the registers; `Kept` says that what the
  host sent last is what is stored until the next START (`AdvertisedPasses`,
  `AdvertisedExact`), and `Matched` that a data stage is for the transfer the
  host is in and names a channel, so that what is stored is stored for that one;
* `Named`: the action property `OnlyNamed`, from `Matched`;
* `Shown`: `Indicated`, which is inductive next to the types: every action
  either leaves the state of all channels alone, switches all of them off, or
  changes one of them together with its LEDs and its transceiver (`ShownStays`,
  `OffShown`, `OneShown`).

The assumptions are the ones named in `GsControl`: `uint8_t` has 256 values and
`uint32_t` more than 512.

`RosDriveProofs` proves, for any wheels, twists, limits and bounds,

* `RosInvariance`, `RosTypeCorrect` and `NoPhantom`: `NoPhantomDrive` says only
  what an energised motor has; `IInv` follows the value back (`Pipeline`): command
  interface, queue, inbox, message in hand, control mode and phases hold nothing
  but `NaN`, zero or what a received twist asks of that wheel. Receiving a twist
  only adds to that set, and publishing maps the velocity of a twist to what the
  twist wants of the VESC (`SetpointWanted`);
* `Reported`: `ReportedIsSent` speaks of an empty pipeline; `Told` says of any
  pipeline that its newest word, wherever it is (`Says`), is the reported
  velocity. A flush keeps the newest word even if it overruns the VESC's
  peripheral (`SaysFlush`);
* `ImplementsQueue`: `Spec => WheelSpec`. Each flush is shown to be an
  `Overrun` of the concatenation of FIFO and queue, so that a write which
  publishes and flushes is one `Give`; a step of a VESC moves a message
  from its FIFO to its hand, which leaves the concatenation as it was, or obeys
  the first. The types of `IInv` are all that this needs;
* `QueueKeepsNewest`: `WheelSpec => []NewestKept`. The abstract queue alone
  gives that the newest setpoint is the last of those that wait or, when none
  waits, the one in force, except for a wheel that was reset since, which is
  disabled. That is more than `ReportedIsSent`, which leaves resets out.

The assumptions are the ones named in `RosDrive`.

`GsCanOrderProofs` proves, under the same assumptions,

* `HostOrder`: of `HostFramesInOrder` the invariant is `FromHost`, which takes
  the list of a channel and the frame in hand apart: together they hold the
  frames behind the last one sent, in order, where the frame in hand counts
  (`Ahead`) only while the main loop is loading it or putting it back;
* `HostReadsInOrder`: `ToHostInOrder` speaks of what the host has read, which
  says nothing of the frames on their way to it. `Stream` is what
  `to_host_buf`, `list_to_host` and the main loop's hand hold, in this order.
  `InOrder` says of it that echoes and received frames are increasing on each
  channel, newer than what the host has read and no newer than what was sent or
  has arrived, and that the Rx FIFO holds what comes after. A step leaves the
  stream alone, appends a frame to it or takes the first one from it;
  `CarryOrElsewhere` sorts the actions into those that move a frame and the
  others, which are dealt with at once;
* `ImplementsEcho`: every step maps to one of `EchoProtocol` or a stutter. With
  suspends the stream's order is enough. Without them the protocol is the exact
  one, and needs `Complete`: every loaded frame that has not been echoed is in
  the stream, so its first echo is the next one due.

The argument is an inductive invariant (`OrderInv`) on top of the `IInv` of
`GsCanProofs`: that an object is in one place only is what keeps a step that
writes one object from changing what the lists hold.

`DeckardProofs` proves, for any number of wheels, any orientations and any
lines of input,

* `TypeCorrect`, and `NotifyDisciplined` from `Asking`: the one notification
  that the REPL waits for is requested in the channel, owed by the core thread or
  already there, and in one of these places only;
* `Aligned`, `Believed` and `QuitHalts` (`DriveAligned`, `BelievedStopped`,
  `QuitStops`), if a wheel misses fewer repetitions in a row than there are. The
  hypothesis `MaxLoss < Repeats` is what the three repetitions are for: nobody
  acknowledges a setpoint, so a wheel that misses all of them defeats any such
  protocol. The run loses two of three.

The properties say what wheels do at certain moments; the invariant has to say
what the commands in the channel will make of them. `Heard` counts losses: a
wheel that missed fewer repetitions than were published has the setpoint.
`Stopping(n)` says that the rover will be halted once the commands before place n
are done, `Settled` that between moves the commands only halt or drive the
orientation the wheels have, and `Turning` that in a move the steering is queued
behind a halt (`Queued`) or happens to a halted rover (`Turned`). `LastStop`
bounds how far the final stop can be from the head of the channel in terms of
the turns that are left of the second, and is what `QuitHalts` needs. All of it
is said of a core thread that runs; the properties are too.

* `ImplementsMotion`: `Spec => MotionSpec`, under the same hypothesis. Only a
  publication, complete or cut short by a panic, moves anything. What has to be
  shown is that a steering command is published only to a halted rover and a
  drive command only to one that is steered, which is what `Turning` and
  `Settled` say of the command at the head of the channel;
* `MotionAligns`: `MotionSpec => []DriveAligned`, with no hypothesis. It shows
  that `RoverMotion` is not too weak a promise, and with `ImplementsMotion` it
  gives `Aligned` a second time.

`StepperNodeProofs` proves, for any number of channels, any setpoints and faults
and any period,

* `TypeCorrect`: among the types, a status code is that of a fault the board can
  have, or such a code plus a hundred, which is not so obvious from the way
  `append_health` adds;
* `PanicsOffBus`: `PanicOnlyOffBus` is not inductive, as the `unwrap` panics on
  full buffers and `try_reserve` does not look at them. `FewWaiting` counts what
  the loop can have put there since it last found them empty: while the board is
  on the bus, health and heartbeat find one response at most, so there is room
  for the heartbeat. It also keeps `panic` out of reach until the bus is lost;
* `Paced`: the action property `HeartbeatsApart`, for any width of the counter.
  `ClockInv` says that the counter has not gone around since the last heartbeat,
  `ElapsedPeriod` that `advance_if_elapsed` then computes the time since; the
  period has to fit twice into the counter.

`StepperChipProofs` proves, of the same,

* `Rests`: `RestartStays` from `RestInv`. A chip is on hold in its own
  stretch of `config_steppers` and nowhere else (`Window`); outside it the
  position of a resting wheel's chip is its target, inside it the chip holds
  while the one and the other become zero. A chip that loses its supply in
  between has both at zero already;
* `Obedient`: `Obeys` from `DriveInv`. The last setpoint for an axis that
  waits is the last that the bus brought (`QueueInv`); when none waits, the chip
  and the shovel's memory have it (`LoopInv`); before the loop nothing has been
  asked for but zero (`StartInv`);
* `Truthful`: `HealthTrue` from `HealthInv`. While a scan goes on, its code
  is true of the faults below `Bound`, the place it has reached: it is that of a
  fault there was at some time, no fault visible all the time was passed over,
  and it carries a hundred exactly if there were two (`Upto`). Chips change
  between any two transfers, so what there was (`raised`) and what was there all
  along (`lasting`) differ.

The assumptions are those named in `StepperNode`. Among them boards have two to
ten channels, because the code of a channel is a decimal digit (the code's
prefixes are 0, 10, 20 and 30).

`CommutationProofs` proves, for every set of setpoints in the range, and so for
all of them where TLC takes a few,

* `Invariance`: the inductive invariant. `PinsInv` says that the pins read so
  far are those of the rotor's sector, or, once it has moved on, each of them of
  that sector or of the one it left; since neighbours differ
  in one pin, the three pins are those of one of the two. `AimInv` says that the
  outputs are those of the reset or of a sector at most one away from the
  rotor's;
* `Measurable`, `Direction` and `Evenness` (`SenseLimit`, `TorqueAsAsked`,
  `Even`): they follow from what `sin` and `cos` of the six angles are and from
  bounds on the roundings of the transform and of the modulation, for every
  voltage.

The voltage is at most one in absolute value, which the message handler does
not check (it only excludes the deadband): the assumption is about the senders
(see `Commutation` above).

Only model-checked: all liveness (`EchoLive`, `OutRearmed`, `StateReported`,
`MoveReturns`, `StopWorks`, `FaultReported`, `Arrives`, `CommandReaches`), which
is out of this prover's reach, as it needs fairness and ENABLED. `Steering` has
no theorem: what it is asked is a question about particular numbers, and the
answer is a counterexample. Of the other modules every invariant, every action
property and every one of the three refinements (`EchoSpec`,
`MotionSpec`, `WheelSpec`) is proved.

## What the models found

Besides the five runs that are expected to fail (see `findings` in
`PROJECT.json`), modelling turned up the following, most of them listed as hazards:

* while the bus is suspended the converter drops echoes of frames that were
  written to the peripheral, so `EchoSpec` holds only in its lossy form;
* a bus reset during an IN transfer leaves `to_host_buf` set for ever;
* an error code that is read while the pool is empty is lost, as reading the
  register resets it (the change of state it came with is not, `StateReported`);
* timestamps and padding are set for the whole device by the START of one
  channel, and lay out the frames of the others too;
* the main loop enters the USB library with interrupts enabled although the
  comment above `USBD_GS_CAN_PrepareReceive` says that no entry point does;
* an error frame keeps the CAN-FD flag of the frame its object held before;
* a bit timing that the device refuses is acknowledged all the same, and so is
  one whose segments wrap around to an admissible sum;
* the offset of the transmitter delay compensation is cut to seven bits;
* quitting deckard stops the rover only if the commands queued in front of the
  stop fit in a second (the premise of `QuitStops`);
* `?` is advertised as an alias of help and panics;
* a VESC that is sent `NaN` panics with its interrupt masked, and the bus driver
  sends `NaN` when it writes before the controller's first update;
* shutting the bus driver down drops whatever its queue holds, the zeros of a
  deactivate included.
* a stepper board whose peripheral goes bus-off panics at its fourth heartbeat,
  with the motors energised; a panic is not followed by a reset;
* the shovel firmware does not write the target register when it starts: after a
  restart its chips go on with the duties they had.

## Not modelled

* Vendored code: the STM32 HAL, the CMSIS headers and the USB device library
  under `can_converter_firmware/libs` are nineteen twentieths of the repository's
  lines of C, C++ and Rust. What the firmware relies on of them is
  modelled from its use (`HAL_FDCAN_Init` in `GsControl`, the endpoint and
  control-transfer behaviour of the library in `GsCan` and `GsControl`). The
  share of mapped lines is small for this reason.
* LEDs of the converter and of the stepper boards: written, never read back.
* Boards, startup, clocks, DFU jump, descriptors: constant data and sequences
  that run once.
* The bxCAN back end: other boards than the team's own.
* deckard's node registration and reports: handle_message only prints.
* The VESC's fault poll (a sticky health flag) and the gate driver's registers.
* Gazebo and RViz descriptions, launch files, electronic designs: no control
  logic of their own.

## Plan

1. An abstract specification of the steering actuator, as `SetpointQueue` is one
   of the drive: `StepperNode` would implement it under the mapping that
   `LoopInv` suggests.
2. Converter: the error status report of `can_parse_error_status` with all its
   states, and the length and layout of a frame on the way to the host with the
   device-wide flags of `GsControl`; these are hazards without a property.
3. `Deckard` composed with `Steering`, so that a lost steering setpoint and a
   slow turn meet.
