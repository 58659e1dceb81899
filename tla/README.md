# BluePillJS: models, checks and proofs

BluePillJS is the firmware of a USB joystick built on a "Blue Pill" board: a
magnetometer or a rotary encoder gives the angle of a stick, a sensor thread
turns every sample into a HID report, and a shell on a USB serial port
calibrates the stick and keeps the calibration in flash.  This directory holds
TLA+ models of that firmware, the TLC configurations that check them, and proofs
for TLAPS.  ChibiOS, which the firmware runs on, is not part of the repository;
what the models need of it is modelled from how the code uses it.

## The system

| component | source | state | operations | models |
|---|---|---|---|---|
| Joystick arithmetic | `joystick.c:13-60, 124-162` | none | `normalise`, `prevent_wraparound`, `limit`, `cal_apply`, the brakes in `transmit` | `JsMath` |
| Calibration state machine, sample path | `joystick.c:27-35, 62-90, 138-185` | `state`, `cs` (static in `calibrate`), `cal_data`, `jscal_switch` | one sample: `calibrate`, then a report | `Calibrate` |
| Calibration hand-shake | `cmd.c:30-48`, `joystick.c:62-90` | `jscal_switch`, the sleeps of the shell | `cal`, a key, a sample | `CalSession` |
| Calibration store | `flash.c`, `joystick.c:108-122`, `cmd.c:60-79, 99-109` | `cal_frame`, the last flash sector | `cal_save`, `cal_load`, `flashwrite`, boot | `CalMemory`, `CalStore` |
| Shell commands | `cmd.c` | as above | the above, `reset`, `restart`; `cal_print`, `cal_read`, `flashread`, `flashinfo`, `status` | with the component each one changes |
| HID reports and requests | `usb_hid.c` | `hid_in_data`, `usbInitState` | the stores of `transmit`, `hid_transmit`, `hidRequestsHook` in the interrupt | `HidReport`, `UsbRequests` |
| USB events, descriptors | `usbcfg.c` | the state of the bus (driver) | event handler, `get_descriptor` | `ShellLife`, `UsbRequests` |
| Boot and supervision | `main.c` | `shelltp`, `usbInitState`, the heap | `usb_init`, thread creation, respawn of the shell, `restart` | `ShellLife` |
| I2C and serial back-pressure | `i2c_util.c`, `printf.h` | the bus mutex, the output queue (driver) | `i2c_write`, `printf` | `I2cBus` |
| LSM303 driver and filter | `lsm303.c`, `joystick.c:164-210` | `buf`, `data` | init, read, smoothing | `I2cBus`, `Filter` |
| EMS22A driver | `ems22a.c`, `joystick.c:247-276` | `rxbuf` | receive, 17-to-16-bit conversion, parity, report | `Ems22a` |
| MLX90393 driver | `mlx90393.c` | none | init, read | `I2cBus` |
| Host-side parser | `bluepilljs_parser/parser.py` | `buf`, `values` | `poll`, `split`, `parse` | not modelled |
| Configuration, build, plotting | `chconf.h`, `halconf.h`, `mcuconf.h`, `board.h`, `Makefile`, `plot.sh` | none | none | not modelled |

How they interact.  `main` waits in `usb_init` until the first GET_REPORT
request, loads the calibration (`main.c:65`), starts the sensor thread
(`main.c:67`, priority NORMALPRIO + 2) and then keeps one shell thread alive
(NORMALPRIO + 1).  The shell and the sensor thread share `jscal_switch` and
`cal_frame` without a lock: the shell sets the switch and reads, saves and
overwrites the frame; the sensor thread reads the switch and the frame at every
sample and writes the frame at the end of a calibration.  Two sleeps of 200 ms
are the only thing that keeps the two apart.  `hid_in_data` is shared by the
sensor thread and the USB interrupt.  Sensor threads share an I2C bus under a
mutex; they and the shell share the output queue of the serial port, in which a
writer waits for the host.  On the host, `parser.py` shows what a sensor thread prints there.

What is hard about it: arithmetic on a circle in `int8_t` fields, with a frame of
reference that `prevent_wraparound` moves; the interleaving of shell, sensor
thread and interrupt on shared globals; a sector that is erased before it is
programmed, with power that may fail at any point; time-outs instead of
hand-shakes.  `PROJECT.json` lists every such place under `hazards`.

What makes the components correct:

- sample path: after a calibration both ends of the stick are both ends of the
  axis, as far as the `int8_t` extremes can tell, the centre is zero, the axis never
  turns back while the stick moves on, and no cast of a report leaves its type;
- hand-shake: a calibration that is reported was made, and it is over before the
  next command, if no transaction of the sensor failed meanwhile; a key ends `cal`;
- store: what `cal_load` accepts is one calibration, saved as a whole; what was
  reported as saved stays saved until the sector is erased again; a calibration is
  saved, kept and put in use only as a whole;
- reports: a report is one sample, the newest, and samples arrive in order; supervision:
  the firmware gets past its initialisation, and a shell always comes back;
- encoders: every device's bits reach its own frame, and exactly the intact ones are
  reported;
- bus and port: one transaction at a time, and a host that does not read stops nobody but
  the thread that prints;
- filter: the average stays between its old value and the sample, and forgets a bad one;
- USB: descriptors, endpoints, report and answers fit together, and each request reaches the
  function it is for (which the code does not do for those of the serial port, see Findings).

## Modules

### JsMath: the arithmetic

One operator per function of `joystick.c`.  A heading, a float with a fraction in the
code, is a number of steps, `Unit` of which make one of the 256 units of the circle;
what is stored in an `int8_t` is a number of units.  `Truncate` is the conversion of a
float to an `int8_t` (`joystick.c:72, 78, 79` and the casts of the report), towards zero;
`ToInt8` is that of an `int`, which keeps eight bits (`joystick.c:49-56`).  A float that is a
quotient (`m_neg`, `m_pos`, and the values made from them) is an exact fraction,
a record of a numerator and a positive denominator.  A denominator of
zero stands for an infinite multiplier, zero times it for NaN.  `Truncated` is
the cast of a report, whose result for NaN is undefined in C: it is any member of
`NanCast`.

### Calibrate: a stick, the sensor thread and the calibration

A mechanical range (`arc`) is a constant of a behaviour, the stick (`pos`) moves
in it by `Moves`, the sensor thread takes samples.  An action is one iteration of
`lsm303c_thread` (`Sample`): it runs the branch of `calibrate` for the present
`state` (`CalibrateOff`, `CalibrateBegin`, `CalibrateTrack`, `CalibrateEnd`), and
`transmit` with the new calibration.  `SwitchOn` and `SwitchOff` are the two
assignments of `cal`.  History variables let the properties say what the user did: `lo` and
`hi` are the extreme angles sampled in the running calibration, `aligned` that it began in an
unshifted frame, `done` the last calibration that ended, with its extremes and its
centre.

- `TypeOK`: types.  The fields of `cs` are in theirs because C wraps them, and the offset
  does wrap (a second shift by 64 in one direction); the axes of a report are in theirs
  because `limit` bounds what is cast.
- `ExtremesTracked`: while a calibration begun in an unshifted frame runs, `min` and `max`
  are the extreme angles sampled, in the present frame, to less than a unit: they did
  not overflow, and what truncation loses does not add up.
- `AxisReachesEnds`: after such a calibration, ended a unit or more from both ends, both ends
  of the stick report the full axis and the full brake, but for less than what a unit
  of heading is worth there (`WorthAUnit`); the centre reports zero, and a brake that is
  not pressed is released.
- `AxisFollowsStick` (an action property): the axis does not turn back while the
  stick moves on, across the wrap of the heading included.
- `AnyCalibrationReachesEnds`: see Findings.

The tolerance is not slack of the model.  With a range of 33.7 to 93.9 and a centre of 60,
`min` is 33, `m_neg` -128 / -27, and the lower end of the stick reports an axis of -124
and a brake of 101.

### CalSession: the hand-shake

`cal` against the sensor thread with a clock.  `Tick` is time; it cannot pass the
end of a sample (`SampleMax`) in which nothing failed, while the shell sleeps at *least*
`SleepTime`.  `SensorFails` is a transaction that fails: the sample then takes as long as its
time-outs and its message, which waits for a host that reads (`i2c_util.c:18-27`), so
nothing bounds it.  `Host` stops reading and takes it up again; the shell's own messages
(`Ask`, `Complete`, `PrintCal`) wait for it as well.  `Cal`, `Ask`, `PollEmpty`,
`SleepOver`, `PollKey`, `Complete`, `Settled` and `PrintCal` are the lines of
`cmd_calibrate` between two points where it may wait; `SensorStays`,
`SensorBegin`, `SensorSeesOff` and `SensorEnd` end a sample and are the branches
of `calibrate`.  A character may be waiting when `cal` begins.  A reset of the
channel also ends the loop (`cmd.c:40` compares with the time-out only) and is the
same step as a key.  `running` is false when no sensor was found.  `late` remembers that a
transaction failed during this `cal`, or that it began while the calibration of the last
one was not over: the next `cal` then turns the switch on again, and the two run into one.

- `SensorInTime`: unless `late`, when `cal_data` is printed and the next command taken, the
  sensor thread is through with the calibration.  CalStore relies on it.
- `CalibratedIfWaited`: unless `late`, a `cal` that slept once has made a calibration.
- `KeyEndsCal`, `CalibrationEnds` (liveness): with a host that reads from some time on,
  a key ends `cal`, and the sensor thread ends every calibration it began unless the next
  `cal` overtakes it, however many transactions fail.
- `CompleteMeansCalibrated`: see Findings.

### CalMemory and CalStore: the calibration in RAM and in flash

`CalMemory` is what the commands promise: one calibration in use, at most one
saved, each saved, kept and put in use only as a whole (`Calibrate`, `Forget`, `Save`,
`BeginLoad`, `EndLoad`, `Restart`).  One thing weaker than that is part of the promise, because the
code does no better: between `BeginLoad` and `EndLoad` the calibration in use is `Torn`, a
mixture that a sample taken then is reported with.  While it is, nothing can be calibrated,
saved or lost; only the end of the load or a restart ends it.  `CalStore` is how the firmware does it: the frame in RAM as three
floats, the sector as ten half-words, programmed one at a time (`Program`) after an
erase (`Erase`), from the live frame; `cal_load` reads and checks the sector
(`LoadRead`, `LoadFails`) and then copies float by float (`CopyNeg`, `CopyPos`,
`CopyOffset`); an error of the driver (`WriteFails`) and a `Restart` (the command
`reset` or a loss of power) may come between any two steps.  The value of a float
is the number of the calibration it was computed in, so that a mixture of two shows.

- `FlashWhole`: whatever passes the check of the markers is one calibration, saved as
  a whole.
- `AckedIsDurable`: after "Flash written" of `cal_save` the sector holds that
  calibration, through every restart, until it is erased again.
- `UsedWhole`: whatever the sensor thread computes a report from is one calibration, but
  for the moments between the copies of `cal_load`, when it may be a mixture.
- `KeepsMemory`: CalStore implements CalMemory.  In the refinement mapping what is in use is
  the frame itself, and `Torn` whenever its three floats are not of one calibration; a save
  takes place with the last half-word, a load begins with the first copy that differs and
  ends with the last one.

`CalStore` takes `SensorInTime` as a constant: true where two samples fit into the
sleep of `cal`, as CalSession shows.

### HidReport: from a sample to the host

`transmit` stores the four fields of `hid_in_data` one at a time (`Store`, in any
order, since nothing stops the compiler from changing it) and starts a transfer
(`HidTransmit`); the interrupt clears the same fields (`GetReport`) and the host takes
the packet whenever it likes (`HostPolls`).  A field's value is the number of the sample
it was computed from.  `Sensors` has more than one member after a `restart`.  What keeps
two sensor threads apart is that they have one priority, never wait inside
`transmit`, and do not preempt each other (`chconf.h:97`): `MayRun`.

- `ReportWhole`: no report mixes two samples; a field is cleared only when a
  GET_REPORT came between the stores.
- `FreshReport`: the report that waits is the newest one sent.
- `ReportsInOrder` (an action property): the host gets samples in order, none twice.

### ShellLife: boot and supervision

`main` (`UsbInit`, `InitDone`, `Boot`, then `SpawnShell` and `ReleaseShell` in its
loop), the shell thread as the firmware sees it (`Command`, `Restart`, `Exit`, `Reset`,
`ReadFails`, `ShellEnds`), and the events of the bus in the interrupt (`BusReset`,
`Unconfigured`, `Suspend`, `Wakeup`, `Configured`, `GetDescriptor`, which also
stands for GET_REPORT).  An event that resets the queues of the serial port ends a shell
that is waiting for a character, but not one that is busy with a command.  The heap is
a number; `restart` takes from it and gives nothing back.

- `ShellFits`: whenever `main` has no shell, there is memory for one.
- `ShellComesBack` (liveness): while the bus is active there is a shell, or will be.
- `BootsWhenAsked` (liveness): a request of the host ends `usb_init`.

### Ems22a: a chain of encoders

A device sends a dummy bit and 16 bits, the SPI receives words of 16: the bits of
device k begin k + 1 bits late.  `Convert` is one turn of the loop that shifts every
word and hands the bits that belong to the device before it over, and then puts the verdict on
the parity into bit 0; `Report` is one device in `ems22a_thread`.  A word is a
function from bit weights; `Plus` adds without a carry, and `TypeOK` shows that no
carry occurs.  The thread is one that `main` can start instead of `lsm303c_thread`
(`main.c:70`).

- `FramesCut`: after the conversion every frame has its own device's bits, the
  reference being the stream itself (`Sent`).
- `IntactOnesReported`: exactly the devices whose bits have even parity and no alarm are
  reported, each with its own heading.

### I2cBus: sensors on one bus, and what they print

A sensor thread sets its sensor up (`InitWrites` transactions, of the MLX90393 the `Mlx90393Init`) and then reads it
(`Reads` of them); `Kind` says which sensor.  `Acquire`, `TransferOk` and
`TransferFails` are `i2c_write`: the mutex with its queue, the result, the release,
and after a failure a message.  `Reported` is the caller: a set-up that failed is
reported under the system lock and ends the thread (`Exit`), a reading that failed is
ignored.  A message is put piece by piece (`Put`) into an output queue of limited
room, which the shell fills too (`ShellPuts`) and the host empties (`HostReads`) or
resets (`PortChanges`).  The lock of ChibiOS does not nest: the first piece that is put
under it, and a writer that has to wait, give it back.

- `OneTransaction`: transactions exclude one another, and the queue of the bus holds every
  waiting thread, once.
- `PrintsOffBus`: a thread that has an error to print, and may wait for the host in
  that, neither has the bus nor waits for it; a thread that has the system lock has not
  put anything yet.
- `BusComesFree` (liveness): whatever the host does, an owner releases the bus.
- `SensorsGoOn` (liveness): errors, and messages under the lock, do not stop a sensor
  thread as long as the host reads.

### Filter: from the bytes to the smoothed value

One axis of a reading of `lsm303_read` and of the average in `lsm303c_thread` and
`lsm303dlhc_thread`.  `SampleOk` gets the bytes of a value, `SampleFails` leaves `data` as
it was, at first whatever the stack holds.  `Int16` is the assignment to an `int16_t`; `Byte` is the
number of values of a byte.  The definitions that most modules call `Init`, `Next`, `Spec` and
`TypeOK` have `Filter` in their names here, since `SensorProofs` extends Filter and I2cBus.

- `SampleIsField`: after a reading that succeeded `data` is the value that was sent.
- `NoOvershoot` (an action property): a step of the average stays between its old
  value and the sample, the ends of the range included.
- `Settles` (liveness): while the sample stays the same, the average comes within 7 of it
  (division towards zero leaves up to that), whatever it was before.

### UsbRequests: the host and endpoint 0

The tables of `usbcfg.c` as sequences of records, a descriptor with the length that is written in
it and the bytes it takes; `get_descriptor`, `hidRequestsHook` with every request, and
the initialisation of the endpoints in `usb_event`.  The host asks for the configuration,
first for a beginning of any length in `FirstReads` and then for the total it found there,
walks it by the lengths in it (`Walk`), configures the device, and sends the requests that
what it found invites.  It may reset the bus at any point.  `pending` is what was set up
last for endpoint 0: a request that is accepted without a transfer is answered with it.

- `WalkMeetsAnnounced`: the walk meets a descriptor at every step and ends with the
  interfaces and endpoints that were announced.
- `OpenedIsInitialised`: an endpoint the host opens is initialised, in its direction, with
  its mode, with room for its packets.
- `OwnAnswer`: every request the descriptors invite is answered with data of its own.  The host
  sends the joystick all requests of the HID class; GET_PROTOCOL and SET_PROTOCOL, which
  `usb_hid.c:71, 79` accept without a transfer, are answered with what is left over, and
  only an interface that can boot would invite them.
- `ReportIsHidData`: the report descriptor lays out `hid_data`, and it fits into a packet.
- `SerialPortServed`: see Findings.

### MC modules and proofs

The modules `MC...` give the constants values; the modules `...Proofs` hold the
theorems.  Operators
whose names begin with `Mut` are the models' own mutants: each changes one
definition as a plausible mistake in the code would, and each property is listed in
`PROJECT.json` with one that violates it.

## Runs

| run | shows | bounds |
|---|---|---|
| `calibrate` | types, extremes, ends of the axis, monotone axis, for a calibration at any moment and a second one in whatever frame the first one left | four ranges, headings in quarters of a unit, 24.25 units apart, two calibrations |
| `session` | the hand-shake, safety and liveness | a unit of 10 ms: sleep 20, sample up to 9, or any time when it fails |
| `store` | the store, and its refinement of CalMemory | two calibrations, two restarts |
| `reports` | reports against the interrupt, with two sensor threads | four samples |
| `shell_life` | boot and supervision, safety and liveness | a heap for the shell and three sensor threads |
| `encoders` | the conversion and the reports of a chain | two devices, 208 streams |
| `i2c_bus` | the bus, who prints, and the serial port, safety and liveness | three threads, one of each kind; two pieces of room, two of a message |
| `filter` | sample and average, safety and liveness | bytes of 8 values, samples of 64 |
| `requests` | enumeration and control requests | five lengths of a first reading |
| `shifted_start`, `type_ahead`, `serial_port` | violations, see Findings | as small as they show |

Why the bounds are enough.  The arithmetic has three thresholds, at 96, at 128 and
the shift of 64; the ranges of `calibrate` lie around zero, across the wrap and beyond
each threshold, one of them with an end at the threshold itself.  The angles of a range are 97
quarters apart, so that all four fractions meet the truncation, with both signs;
145.5 units is the widest such range below the 159 that the proofs allow.  A second
calibration meets everything the first one can leave behind, and a third one nothing else.  A move is
24.25 units or none, below the 31 units per sample that the proofs allow (from 32 on
`prevent_wraparound` may be outrun); they cover every resolution, range and move within
these limits.  The store has no behaviour that depends on
more than an old and a new calibration; two restarts allow a loss of power during a
save and another one after it.  The session and the supervision have no unbounded counter: TLC explores
them without a bound, the heap of `shell_life` being small enough to be exhausted by two
`restart`s after the boot and to refuse a third one.  Four samples let each of the two
sensor threads overtake, and be overtaken by, the other one twice.  Two is
`EMS22A_CHAIN_LEN`; the streams have one or two ones (at the distance of a word and of
a device) or at most one zero, so that every bit is seen in both values with right and wrong
parity.  On the bus three threads are needed for a queue with an order; a message as long
as the room lets two writers block each other, and every longer one is blocked again at
the same points.  The filter's arithmetic is proved for every size of a byte; for `Settles`,
which is not, 64 values leave room for an average that is up to 63 from the sample, several
times the 7 it may stop at.  FirstReads are what hosts ask first: 8, the descriptor itself, 64, all of it,
255.  Proofs, where there are any, remove the bounds altogether.

Fairness.  CalSession, ShellLife, I2cBus and Filter have liveness properties.  CalSession assumes that time passes
(`Tick`), and that the sensor thread, which loops for ever (`joystick.c:176`) and has the
highest priority, and the shell go on whenever they are neither asleep nor waiting for the
host.  While the host does not read, a shell with a message and a sensor thread whose
transaction failed have no step to take, and none is assumed; its reading again, for good, is an
antecedent of both properties.  Nobody is assumed to type, and any transaction may fail.
ShellLife assumes that `main` goes round its two polling loops and that a shell whose
read has failed ends; nothing is assumed of the host, and no command has to end.
I2cBus assumes that a sensor thread goes on when it can, since it has the highest priority and the driver ends
every transfer, and that the queue wakes a writer in turn (strong fairness of
`Put`: room comes and goes).  That the host reads is
an antecedent of the properties, never an assumption.  Filter assumes that samples go
on, which I2cBus shows, and not that any of them succeeds.  UsbRequests assumes nothing.

## Proofs

TLAPS checks these for every value of the constants that satisfies the assumption
named in the module:

- `CalibrateProofs`: `TypeCorrect`, `ExtremesAlwaysTracked`, `AxisAlwaysReachesEnds` and
  `AxisAlwaysFollowsStick`, for every resolution of the heading, every set of mechanical ranges up to 159 units wide and
  every set of moves up to 31 units per sample.  The inductive invariant is
  `IInv == TypeOK /\ InArc /\ Frame /\ CalMatches`: the stick is in its range; the value
  that `prevent_wraparound` left is within 96 units and is the angle in the frame of the offset, up to
  whole turns (`Congruent`, so that the offset may wrap), and `min` and `max` are less than a unit
  from where the extremes are seen from there (`Within`); the calibration in use is the one computed
  from those.  `ExtremesTracked` alone is not inductive: that a shift by 64 does not make the extremes
  overflow needs the bound on the value and the width of the range.  A truncated extreme
  is compared and truncated anew, never added to, so that `Within` survives each sample
  (`TruncateFits`, `TrackMin`, `TrackMax`) and the shifts are whole units (`FrameShift`).
  At an end, `ShortOfEnd` bounds what an extreme that is off by less than a unit costs the axis
  and the brake.
  `TypeCorrect` says nothing about overflow of `cs`, whose fields C keeps in their type; its content is
  that `limit` bounds each cast of the report.
  The axis follows the stick because, after an aligned calibration, the normalised angle is the
  distance from the centre whatever the frame (`CentredValue`), and every operation
  from there to the report is monotone: the scaling by one of two multipliers, which meet in
  the centre, `limit`, the brakes and the cast (`ScaledOrder`, `LimitOrder`, `BrakeOrder`,
  `TruncatedOrder`, on exact fractions).
- `CalSessionProofs`: `SessionTypeCorrect`, `SensorAlwaysInTime`, `WaitingCalibrates`, the last two whenever
  `2 * SampleMax < SleepTime`, and both for a `cal` that is not `late`.  The invariant adds `Margin`:
  what is left of the sleep is more than what the sensor thread still needs, two samples in
  `JSCAL_ON` and one in `JSCAL_END`, less what has elapsed of the present one; and
  `Seen`, what a sleep that is over tells of the switch.  Without
  the condition they do not hold (see Abstractions and assumptions).
- `CalStoreProofs`: `StoreTypeCorrect`, `AcceptedFramesAreWhole`, `SavesAreDurable`,
  `CalibrationUsedWhole` and `KeepsItsPromise` (the refinement), for any number of calibrations and restarts,
  all but the first under `SensorInTime`.  The invariant adds `Quiet` (no
  calibration runs while the shell does anything else), `RamWhole`, `BufferSaved` (what
  `cal_load` copies is what the sector holds) and `Progress` (the sector is a prefix of
  what is being programmed).  `FlashWhole` alone is not inductive: a partly programmed
  sector satisfies it whatever comes next.  In the refinement the first copy that changes a float begins a
  load (`FirstCopyBeginsLoad`), the last one ends it (`LastCopyEndsLoad`), the one between them
  shows nothing (`SecondCopyStutters`), and in every other place of the shell the frame is whole
  (`QuietInUse`), so that nothing is saved or calibrated while it is torn.
- `HidReportProofs`: `ReportTypeCorrect`, `ReportsAreWhole`, `ReportsAreFresh` and
  `SamplesInOrder`, for any number of sensor threads and samples, all but the first under
  `TimeQuantum = 0`.  The invariant adds `Alone` (one thread in `transmit`), `Stored` (what
  it has stored is still there, or was cleared), `Order` and `Newest`.  `ReportWhole` alone says
  nothing about `hid_in_data`, from which the next report is made.
- `ShellLifeProofs`: `ShellTypeCorrect` and `ShellAlwaysFits`, for every heap into which a
  shell and one sensor thread fit.  The invariant adds `Fresh` (the heap before `main`
  starts anything) and `Taken` (the shell's share is missing while there is one).
- `Ems22aProofs`: `EncoderTypeCorrect`, `EveryFrameCut` and `IntactDevicesReported`, for every
  chain of up to 16 devices and every stream.  The invariant is the one of the two
  loops: `Loop` says of every word whether it is still raw, half converted or done, and
  `SoFar` which devices have been reported.
- `SensorProofs`: the way of a reading.  On the bus `BusTypeCorrect`, `TransactionsExclude` and
  `PrintersAreOffBus`, for any set of sensor threads of any kind and any size of the buffer
  and of a message.  `OneTransaction` with the types of the bus is inductive only because
  it speaks of the queue as well: the thread that the bus is handed to was waiting in it
  exactly once.  `PrintsOffBus` follows from it and `Printing`, which says where a thread is that
  has something left to print: `TransferFails` releases the bus in the step that makes
  the message, and the thread that gets the bus has none.
  In the filter `FilterTypeCorrect`, `SamplesAreTheField`, `NeverOvershoots` and
  `FilterApproaches`, for a byte of any even number of values.  `FilterTypeOK` is inductive; the work
  is in the lemmas: a remainder is unique (`Remainder`), the bytes of a value give it back with
  its sign (`RoundTrip`), and an eighth of the weighted sum, rounded towards zero, lies between
  the two (`SmoothBetween`), so that no assignment to an `int16_t` changes it.
  `FilterApproaches` is the variant behind `Settles`: the average moves towards
  the sample at every step until it is within 7 of it.
- `UsbRequestsProofs`: every safety property of UsbRequests (`TypeCorrect`, `WalkIsSound`,
  `EndpointsServeDrivers`, `AnswersAreOwn`, `ReportMatchesHidData`) and
  `SerialAlwaysRefused`, for every set of first readings of at least four bytes.  The
  invariant is a conjunction: `FoundSoFar` (the walk stands where a descriptor begins, and has found
  exactly those before it), `Sizes` and `States` (types), `EndpointsReady` and `ReportRead` (what the
  host can only have done after the whole walk), `OwnOrUninvited` and `AskedWalked` (of the last
  request).  `WalkMeetsAnnounced` alone is not inductive, since it does not say what
  has been found on the way.  The tables are evaluated once, in lemmas; a recursive function
  (`Start`, `ParsedTo`) is shown to satisfy its definition by the sequence of its values.

Only model-checked are the liveness properties, which are out of the prover's reach (fairness
and ENABLED): `KeyEndsCal`, `CalibrationEnds`, `ShellComesBack`, `BootsWhenAsked`, `BusComesFree`,
`SensorsGoOn` and `Settles`.  Every other property of a run that is expected to pass is a
theorem.

Hazards no property excludes, each with its reason in `PROJECT.json`: the cast of NaN
(`joystick.c:84`), the loss of the only copy of the calibration (`flash.c:25`), the report that a GET_REPORT
leaves half zero (`usb_hid.c:63`), the sensor thread that waits for the host with an error to print
(`i2c_util.c:20`), transmitting without an endpoint (`joystick.c:161`, `usbcfg.c:272`), and the line of
`status` that mixes two samples (`cmd.c:154`).

## Findings

Runs expected to violate a property, each against a sentence of the repository:

- `shifted_start` (`joystick.c:72`): `prevent_wraparound` also moves the frame while no
  calibration runs.  A calibration begun in a shifted frame stores the shifted angle
  in `min` and `max` and then resets the offset: one extreme is an angle the stick
  never had, and the axis does not reach that end (README.md:35).
- `type_ahead` (`cmd.c:45`): `cal` ends at the first character it finds, also one that
  arrived with the command, such as the line feed after a carriage return.  The
  sensor thread has not looked at the switch by then; "Calibration complete" is
  printed and nothing was calibrated.  The same is printed when there is no sensor.
- `serial_port` (`usb_hid.c:80`): the branch for the joystick takes every class request to any
  interface, so that the requests a serial driver sends to the communication interface are
  refused and never reach `sduRequestsHook` three lines below, although the device
  presents a serial port (README.md:10).  `SerialAlwaysRefused` proves that it is all of them.

Some things the models show by the way.  The extremes of a calibration are truncated to whole units
(`joystick.c:78-79`), so that the ends of the axis are missed by up to what a unit is worth: 4
steps of the axis and 34 of a brake for a stick that turns 30 units from its centre.  With a
centre less than a unit from an end the axis may even turn round there (a centre at 60.5 and an end at 60.9
give `max` 60 and `m_pos` -256).  A report made while `cal_load` copies may be
made with a mixture of two calibrations.  A released brake is reported as -128
(`joystick.c:145`), one below the logical minimum that the report descriptor declares
(`usbcfg.c:63`).  And there is one copy of the calibration in flash: `AckedIsDurable` ends
with the erase of the next save, and a loss of power in that save leaves none.

## Abstractions and assumptions

- A heading is one of a fixed number of steps of a unit; the runs have quarters, the proofs any
  number.  The sums, products and quotients are exact: the rounding of single precision,
  which can move a report by one step where the exact value is next to a whole number, is left out.
- The filter of the samples, the buttons, the LED and all printed text are left out of
  Calibrate; they share no state with the calibration.  The properties ask of a calibration
  that the stick was a unit or more from both ends at the sample that ended it.
- Markers are compared as four bytes each, as `strncmp(..., 4)` does for "CAL" and
  "END" with their terminating zeros.  A float is two half-words.
- An erase is all or nothing and half-words are programmed in order; power may fail
  between any two of them.  An error of the driver leaves the sector as far as it got.
- CalStore runs the three floats of `calibrate` in one step: the sensor thread has the
  higher priority and does not wait between them.  CalStore has no reports: that one may be made
  between two copies of `cal_load` shows as the state `Torn` in CalMemory.
- CalSession bounds a sample in which no transaction fails; `session` and its proofs are about such samples
  of less than half a sleep.  A sample that fails may take longer: 50 ms for a busy bus (`mcuconf.h:108`), 100
  ticks of 0.5 ms for a transfer (`i2c_util.c:13`, `chconf.h:52`) and the message about it,
  which waits for the host (`i2c_util.c:20-26`).  It is in the model without a bound, and a `cal` that
  meets one (`late`) is promised only that it ends; CalStore's properties assume that none does.
- I2cBus takes mutex, lock and queue of ChibiOS from how the code uses them, with the
  checks of the kernel off as `chconf.h:403-422` has them; all sensor threads have one priority, so that the
  queue of the mutex is in their order.  Time is left out: a transfer ends, well or badly.
- Filter has the byte order of the code for what the sensor sends; the sensor is not in the
  repository.  The third axis is read and not used.
- UsbRequests takes the driver's part in a control request (the hook first, then the
  standard requests) from how `usbcfg.c` registers them, and leaves out the text of strings, the
  power, and halting of endpoints.
- HidReport takes the packet of an endpoint for a copy that a later transfer overwrites, as
  the packet memory of the STM32F103 is.  ShellLife takes the queues of the serial port, the
  shell and the heap from how the code uses them.
- Shifts of a word by 16 and 17 places (`ems22a.c:25-26`) act on a promoted `int` whose
  lower half is kept; `ShiftLeft` and `ShiftRight` give what that leaves.

## Not modelled

- `parser.py`: a window that shows the debug lines of a sensor thread, most of which are
  commented out in the firmware (`joystick.c:182, 205, 224`).  The firmware reads nothing
  from it, and it changes nothing but what it shows.
- The commands that only print (`cal_print`, `cal_read`, `flashread`, `flashinfo`, `status`),
  but for the room they take from a sensor thread (`ShellPuts` of I2cBus).
- `dummy_thread` (`joystick.c:229-245`), a test thread that `main` does not start.
- What the bytes of an MLX90393 mean (`mlx90393.c:42-58`): with the compensation off it is the
  conversion of Filter on other positions, and which are right only the sensor can say.
- Transmitting after a reset of the bus, on an endpoint that is not initialised any more
  (`joystick.c:161`): what happens is up to the driver, and nothing in the repository says what
  should.
- The time between the request that sets `usbInitState` (`usbcfg.c:272`) and the look `usb_init` takes at it every
  50 ms (`main.c:47-50`), in UsbRequests: nothing takes the flag back when the bus is reset in between, so
  that the sensor thread can start before the endpoint is initialised again, which is the case above.
- `chconf.h`, `halconf.h`, `mcuconf.h`, `board.h`: configuration of ChibiOS without an operation;
  the `Makefile` and `plot.sh`.

## Plan

Done: every component but those above, and a proof of every property but the liveness properties.
Next:

1. A composition of `HidReport` with `CalStore` that counts the reports a load in between
   can disturb.
2. The safety part of the liveness properties that have none yet, as `FilterApproaches` is
   for `Settles`: what each waiting thread waits for, and who can give it.
