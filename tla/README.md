# pal_ts in TLA+

A verification development for the event timing system in this repository. It
models the parts of the program where several actors share state, or where
arithmetic meets a boundary, checks them with TLC on small instances, and
proves some of the results with TLAPS for every value of the constants.

Paths below are relative to `src/`. `PICO` is `driver/mps-pico-driver-1.3.2`,
`APP` is `app/timingApp/src`.

## 1. The system

An event timing unit is a single-board computer with an FPGA. Three programs
make it up:

* **mps_pico** (`PICO`), a PCI(e) Linux driver for a digitizer card. A user
  program calls `read()`; the driver arms two DMA engines, sleeps until the
  card's interrupt says they are done, and copies their buffers out.
* **ts2ip** (the Linux driver `ts2ip.c` of the FPGA's IP cores). It maps the
  IPs' registers to user space and hands their one interrupt to a thread that
  blocks in `read()`.
* **the timing IOC** (`APP`), an EPICS asyn port driver. EPICS records set and
  show registers of the FPGA's event generators and receivers; a main thread
  handles the interrupt of every second, a second thread synchronises the time,
  and the configuration is kept in an INI file on the SD card.

### Components

| component | source | state it keeps | operations | modelled in |
|---|---|---|---|---|
| mps_pico read path | `PICO/mps_pico_char.c`, `mps_pico_main.c` | `readN_in_progress`, `dmaN_irq_flag`, wait queue, its lock; FIFOs, latch and DMA buffers of the card | `char_read`, `ABORT_READ`, `amc_isr` | `PicoRead` |
| mps_pico buffer layout | `mps_pico_char.c` | `dma1_buf[]`, locals of a read | `dma1_push`, `dma2_push`, the copy loops | `PicoBufLayout` |
| mps_pico lifecycle | `mps_pico_main.c`, `mps_pico_char.c` | what probe has acquired; module references | `probe`, `remove`, `char_open`, `char_release`, module load and removal | `PicoLifecycle` (partly) |
| register ioctls, BAR access, FRIB capture | `PICO` | none of their own | single register accesses | no |
| self test, test tools | `PICO` | none | not called by the driver | no |
| ts2ip interrupt and read | `ts2ip.c` | static `flag`, wait queue, interrupt enable | `irqHandler`, `_read` | `EvrIntr` |
| ts2ip probe, open, ioctl | `ts2ip.c` | `devCount`, `isOpen`, `isCreate`, `pCl`, `devt` | `_probe`, `_remove`, `_open`, `_close` | `Ts2ipLifecycle` (partly) |
| ts2ipDrv | `APP/ts2ipDrv.cpp` | `isRunning`, `evTime` | `ip_setCommand`, `ip_intrEn`, `ip_intrClear`, `ip_getEvTime`, `ip_convEpsTime`, `ip_rd`, `ip_wr` | `EvCommand`, `CommandPulse`, `EvTime`, `EvrIntr`, `IoParams` (partly) |
| tsDev | `APP/tsDev.cpp` | the interrupt register it read | `devThread` | `EvrIntr` (partly) |
| tsDev_evx | `APP/tsDev_evx.cpp` | event times, counters of losses and of standing seconds, what the panel shows | `devProc`, `timingNet_timeSync`, `readReg`, `writeReg`, `readString`, `writeString`, `writeAppData` | `EvRound`, `EvSystem`, `IoParams`, `IocConfig` (partly) |
| configuration | `APP/timingAsynEpics.cpp`, `iniparser.hpp` | INI file, record values, registers | `userP_main`, `cfgInitFromFile`, `cfgSaveToFile`, `db_put`, `db_get`, `writeInt32`, `ParseStream` | `IocConfig` |
| parameters and waveforms | `APP/timingAsynEpics.cpp`, `tsDev.cpp` | `regmaptable`, cached texts, the tables to restore | `registerParamListFromFile`, the read and write handlers of every type, `waveformInitFromFile` | `IoParams`, `FieldStore` |
| ts2ipEvsys | `APP/ts2ipEvsys.cpp` | `cpsOut`, the board's identity, the buses' multiplexers and addresses, the panel's statics | `iic_rd`, `iic_wr`, `iic_setMux`, `init_clk`, `init_cps`, `set_cpsConfig`, boards, temperature, LCD, LED | `EvSystem`, `EvRound` (partly) |
| ts2ipEvg, ts2ipEvr, ts2ipGtp | `APP` | ports' rates, the event codes' RAM, the transceiver's counters | `cfg_portFreq`, `set_evCodeList`, status, `reset` | `IoParams`, `EvRound` (partly) |
| tsDev_zq9r, ts2ipZqsys | `APP` | registers | a second class of device | `IoParams` (partly) |
| drMpsPico | `APP/drMpsPico.cpp` | none | register access, samples of a wave | `IoParams` (partly) |
| drxiic, xadc, verMan, strToValue | `APP` | little | I/O and parsing | no |
| EPICS databases, boot scripts | `iocBoot`, `db` | none | data | only `st.cmd`'s order of `iocInit` and `dbpf SYS_P_RUN`, and sample rows of the register list |

### How they interact

```
  EPICS records --put--> writeInt32/writeReg --ioctl--> ts2ip --> FPGA registers
        ^                   (asyn port lock)               |
        | db_put, db_get                                   | interrupt
  userP_main / devThread <------read()------- flag, wait queue <-- irqHandler
        | devProc (each second)          ip_setCommand (isRunning)
  timeSync thread ------------------------------^
```

* `devThread`, called from `userP_main`, blocks in ts2ip's `read()`; the handler
  disables the interrupt, sets `flag` and wakes it (shared state without a lock).
* Records reach the driver under the asyn port's lock; `userP_main` takes the
  same lock around `devThread` during startup, but not when it restores.
* `ip_setCommand` is called by `userP_main`, by the time synchronisation thread
  and by whatever thread processes a record; `isRunning` is a static shared by
  all IPs.
* A save runs in the driver, under the port's lock, and reads records with
  `db_get`; the restore puts records with `db_put`, which calls the driver.
* `devProc` and the record of `EV_CPS_SET` use the same I2C buses; only the latter
  holds the port's lock. The multiplexer's channel and the descriptor's slave
  address are shared by them and set before each transfer.
* The registers of the list `tspv.reg` are shared by the parameters that are fields
  of them; `timingAsynEpics` owns the address of each, which array writes move.
* mps_pico is independent of the rest: the IOC only opens it and calls `read()`.

### What is hard in it

* the interrupt handlers run without the lock that the readers hold;
* early returns of `char_read` (abort, signal, failed copy, busy) leave flags
  and marks behind for the next read;
* the wait queue macros, whose guarantee depends on what the waker holds;
* the order in which a failed probe undoes its steps;
* interrupts that arrive between reading, clearing and enabling;
* read-modify-write of registers that several records share;
* a crash while the configuration file, truncated first, is being written;
* I2C transfers of two threads, any of which may fail, through one multiplexer;
* statics that remember what was shown or seen last, and what does not update them;
* local time and UTC crossing a year's or a month's end at different moments.

PROJECT.json lists each such hazard with its line and the properties that watch
it; a hazard with a note and no property is not covered yet.

## 2. The modules

Every module begins with a comment that says which functions it models and what
it leaves out. Actions carry the name of the step they model. An operator with
an underscore in its name (`Arm_Test1Only`, say) is a *mutant*: the definition
that follows it, changed as a plausible bug would change it. No specification
uses it; it documents which change of the code the properties notice.

### PicoRead: read, abort and interrupt

`lock` is `dma_queue.lock`; `inProgress`, `flag` and `waitq` are the board's
fields of those names and the wait queue. A caller is at `pc[r]`, waits for
engine `ph[r]`, and keeps `rc`, `cond` and a pending signal. `isr` is the handler,
a process of its own between whose steps other processes run: its lock is
commented out in the code. `cmd`, `fifo`, `latch` and `mem` are the card:
transfers queued, responses, latched interrupt bits, and whose samples the
buffers hold.

Actions follow `char_read` from one point where another thread can get in to the
next: `Busy1`, `Busy2` and `Arm` (the tests of the in-progress marks and the
arming), `Test`, `Queue`, `Woken` (the wait macro of interrupt mode), `Poll`,
`Timed`, `Relock` (the wait of polling mode, in which the caller runs the handler
itself), `Collect`, `Settle` (flag and marks reset under the lock), `Copy`,
`FillBuf`, `Again` (copy out and refill with 0xf0 without the lock, then engine 2).
`Abort` is `ioctl(ABORT_READ)`, `IsrEnter`..`IsrClear` is `amc_isr`, `Transfer` the
card. The byte counters, the handler's statistics and the log are left out.
A comment of the code (246-249) says that the done interrupt sometimes comes although
nothing was transferred: `Outcomes` says what a transfer that is reported may have done,
and `dry` remembers, for the properties, whose transfer of engine 1 moved nothing. The
pattern `FillBuf` leaves is there so that such a read does not deliver old samples.
Nor does it after a read that was aborted, or whose copy failed, before the
refill: both return with `read2_in_progress` still set, so that no later
read gets that far (finding 1).

### PicoBufLayout: where the bytes go

One `read()` of one count: `Refuse` and `Split` are the argument checks and the
shares of the two engines, `PushFull`/`PushLast` the loop that queues buffers,
`CopyFull`/`CopyLast`/`Copy2` the loops that copy them out. `hw` and `hw2` are what was
queued on either engine, with the flag that asks for an interrupt. Buffer size, number
of buffers, ratio of the engines (1000 in the code) and alignment are constants.

### PicoLifecycle: acquiring and releasing

The two orders in the module, `Acquisitions` and `Releases`, are the order of
`probe` and that of `remove` and of the labels at the end of `probe`; `FailTo` is the
label each step's failure jumps to. `held` and `bufs` are what is held. Module
references count what `char_open`, `char_release` and the kernel itself take and
give. A board is only unbound by removing the module (`Unbind = FALSE`):
unbinding through sysfs while a file is open frees memory in use, a hazard
listed and not checked.

### EvrIntr: the interrupt of every second

`pending` and `enabled` are the receiver's interrupt register and ts2ip's enable,
`isr` is `irqHandler`, `flag` and `queued` the driver's flag and wait queue. The main
thread cycles through `Enable` (`ip_intrEn`), `Queue`, `Test`, `Wake`, `ReadRegister`,
`Copied` (`_read`), `Clear`, `Unclear` (`ip_intrClear`, two writes) and `DevProc`.
`owed` counts alarms raised and not yet handled, capped at `MaxOwed = 2`.
Clearing wipes every cause that is pending, also one raised after the register
was read: that is what the code does, and the reason for the premise of
`SecondHandled`.

### Ts2ipLifecycle: one driver for several IPs

`Probe`, `Region`, `Irq`, `Number`, `Publish` and `Count` are the steps of `_probe`, and
the actions ending in `Fails` the way through its labels from there. Files are
opened while probes still run. `dInfo` holds of an entry whose registers it maps,
whether `cleanup` will find a class (`isCreate` is set together with `pCl` here: an
error value passes the code's test for NULL), `isOpen` and `devt`. The kernel may give
any of `Majors` that is free; `_open` and `_close` keep a node's number in a `char`, `Char(n)`, of
`CharSize` values (256 in the code; a plain `char` is unsigned on the ARM these IPs sit
in), and `Entries` is `get_idByMajor`, which compares that with the whole numbers of
`dInfo`. `Open` and `Opened` are the test and the increment of `isOpen`,
`Close` and `CloseEnd` its test and decrement: between them other callers run.
`module` becomes `"oops"` where `_remove` would follow an invalid pointer: a device
that `_probe` bound although it had no interrupt, or a class that was not made.
Devices leave with the module only; unbinding one of them is left out.

### EvCommand: commands to the FPGA

`ip_setCommand`, step by step, for any threads and IPs: the bounded wait on
`isRunning` (`Spin`, at most `MaxSpin` times, 10000 in the code), the second test,
setting it (`Claim`), the two writes to `A_setReg` (`Set`, `Reset`) and the release.

### CommandPulse and EvRound: the round of every second

`CommandPulse` is what `ip_setCommand` promises: a call is refused, and only while
another thread is in a command, or gives its command as one pulse and returns
`RET_OK`. `EvCommand` implements it (`KeepsPromise`, with `Phase` as refinement
mapping: a call is "sent" once `A_setReg` has been written). `EvRound` extends
`CommandPulse` and adds what the pulses do, so the round needs no step of
`ip_setCommand` itself.

`devProc` is `Begin` (the time is latched), `ReadTime`, `Watch` (the transceiver's status
and the count of rounds in the same second, with the reset) and `Show` (LCD and LED);
`timingNet_timeSync` is `Compare`, `Sync` and `SyncDone`. `Second`, `Stop` and `Track` are the
hardware. `dev` holds `devProc`'s statics and locals: what the panel last showed
and whether the mode is new. `field` stands for any field of the LCD but the messages: a
round reads one of `Readings` and draws it if it is not what its static, `fieldPre`,
says. `NoReading` is what the static begins with (-1.0 for a temperature, which is also
what `get_slaveTemp` returns without a slave board, 0 for a fan), and `init_system` clears
the screen without telling the statics. `doubt` is not in the code: it remembers that the
count of standing seconds took a sample that was not one.

### EvSystem: two threads on the I2C buses

A thread's `job` is a sequence of routines, each a sequence of transfers, as
`init_clk`, `set_cpsConfig` and the others name them. A transfer goes through the
steps of `iic_wr` or `iic_rd`: `MuxAddress`, `MuxSelect` or `MuxFails` (`iic_setMux`), `Address`,
then `Write`/`WriteFails`, or `Offset` and `Read` or `PollClock`. What arrives at which chip
depends on `mux` and `slave`, which the other thread may have changed. The
constructor is `StartClock`, `StartBoards`, `Started`; `devProc` is `Temperature` and `CheckMode`
(with `init_system`); a record's part is `WriteCpsOut` and `CpsSet`. `alone` is not in the
code: it tells the properties whether another thread used the bus meanwhile.
`Users` are the two threads and `stage` is where the main thread is. A routine keeps
its whole list of transfers (`todo`) and which one is `next`, so that what has been
sent so far can be stated. `NumBytes` and `NumRegs` are the sizes of a switch's map (8 in
the code) and of the clock's configuration.

### IoParams and FieldStore: parameters and their registers

`List` is the register list, `RegMap` what `registerParamListFromFile` makes of it. Each
handler of the driver is an action of that name and one step, as asyn runs one
at a time under the port's lock. A value is the set of its bits: `FieldOf` and
`Insert` are `readReg`'s and `writeReg`'s shift and mask. A row's access type is "raw" for a
register, "app" for the application, or "cfg" for the functions of the mps_pico driver
(`IOCTL_R2`, `IOCTL_W2`), which share numbers with registers but not the registers: a
version, a sampling rate. `board` says whether an IP is
open, has no device file (reads leave all ones, writes are dropped), or is no
object at all. `address` is the address `writeInt32Array` moves. `cfg_portFreq` stages a
port's rate and `set_evCodeList` writes the RAM of event codes. `waveformInitFromFile`
takes the next table of `todo`. `Restart` keeps the registers.

`FieldStore` is the promise to the records. A parameter stands for some bits of the
device, which others may stand for too, as `ZQ_MPS_ALL` does for those of `ZQ_MPS_1` to `_5`. A
put gives these bits the value that was put, cut to their number, and changes no
other; a get answers what they are, or all ones where no device answers. `said` is
the put or get at hand, so that a device that stored another value, or an answer that
is not the bits, breaks the promise. `IoParams` implements it; the mapping says in which
register each bit is (`Place`). `ListAssumption` is what that needs of the list: in a
register with fields there are only fields, and a field put as a text (whose value
`TextInForce` keeps) has its bits to itself; tables lie above the fields.

### EvTime: from the hardware clock to a date

`Convert` is `ip_getEvTime` with its search for the month, `Mktime` the C library's
`mktime` of 1 January as the code calls it. The environment is a hardware clock
that counts UTC years, days and seconds; beside it a wall calendar that only
knows the lengths of months turns its leaf at local midnight. `MktimeShifts` is
what daylight saving, which the code leaves to the library's guess, may add.

### IocConfig: restore, save, put and restart

`file` and `iniFt` are the INI file and its copy in memory, `dev` the registers,
`sent` what the crosspoint switch was last told, `val` the records' values. A put
is `ClientPut` (record lock), `CallDriver` (port lock), `ReadReg`, `WriteReg`
(`writeReg`'s read, mask, write). A save is `Save`, one `SaveKey` per key,
`Truncate`, one `StoreKey` per key, `Saved`. `userP_main` is `Try`, `DevThread`, `TestRun`,
`Load`, `RestoreKey`/`RestoreFails`, `Apply` (`EV_CPS_SET`). `IocInit` and `DbpfRun` are
`st.cmd`. `Restart` may come at any step, with or without the registers losing
their contents. The file is read by `ParseStream`, in the order of a `std::map`
(`FileOrder`): it stops at a cut-off end or at the line of an `Empty` text, and what
is behind is `Absent`, which the restore puts as -1. Three kinds of keys stand for the 289 of the
code: bit fields of one register, crosspoint entries (`cpsOut`), and the rates of ports,
`EVR1_PORTFREQ_0` to `_31`. The last two are only kept in the program's memory by a put,
and take effect when another command sends them: `Send(kind)`, which is `EV_CPS_SET` for
the crosspoints and `SET_PORT_FREQ` for the rates. Clients may put either (`ClientSends`);
the restore ends with the first of them only (`Apply`, finding 15). `EVR1_SETCTRLREG`, which
it puts after that, changes none of these and is left out.

## 3. The runs

A run has the name PROJECT.json gives it. CHECK_DEADLOCK is FALSE in five of
them, because the modelled system stops there: `pico_buf_layout` (the read ends),
`ts2ip_lifecycle` (nothing more is said of a driver after an oops),
`ev_time` (the clock stops at `LastYear`), `ioc_config` (clients stop after
`MaxCalls` calls; a deadlock would show as a violation of `CallsReturn`) and
`io_params` (puts stop after `MaxOps`).

| run | instance | what it shows |
|---|---|---|
| pico_read_irq | 2 callers (symmetric), interrupt mode, transfers reported with and without data | Two reads never have the engines armed at once (`OneArmedRead`); nothing overwrites an engine 1 buffer while it is copied (`Buffer1Stable`); a read that succeeds has its own engine 1 samples, or the pattern if its transfer moved nothing, never another's (`OwnEngine1Data`); an abort leaves nobody queued (`AbortSeen`). |
| pico_read_poll | 2 callers, polling mode, handler may report an error, transfers move their data | After an abort a read returns (`AbortedReadReturns`), and without one too (`ReadReturns`), though nobody but the callers runs the handler. |
| pico_lifecycle | 2 files, 3 DMA buffers, all interrupt modes | Whatever step of probe fails nothing leaks (`NothingLeaked`) or is released twice (`ReleasedOnce`); the handler (`HandlerHasBoard`) and open files (`OpenFileHasBoard`) never lose what they use. |
| ts2ip_lifecycle | 3 devices, 2 files, 4 entries of `dInfo`, `isOpen` modulo 8, major numbers 1, 2 and 5 in a char of 4 values | A bound device's handler disables that device only (`HandlerIsOwn`), an open file has the registers of its own device, if that one's number fits a char, and keeps them (`OpenFileHasDevice`); `isOpen` is exact as long as no open or close overlaps another on its device (`SerialOpens`). |
| evr_intr | 2 causes | The thread never sleeps with nobody to wake it (`SleeperIsWoken`), no second is handled twice (`NoPhantomSecond`), and an alarm that is the only cause is handled (`SecondHandled`). |
| ev_command | 3 threads, 2 IPs, 1 command, `MaxSpin` 2 | Command registers are always given back (`CommandIsPulse`), calls return (`CallReturns`) and are pulses or justified refusals (`KeepsPromise`), though commands overlap. |
| ev_round | minute of 3 seconds, `SameMax` 1, 2 readings, 1 trouble | The transceiver is reset when the generator's clock stands still (`StopIsReset`) and only then (`NoFalseReset`); LED and LCD show what the last round found although only changes are drawn, but for readings a static begins with (`LedShowsStatus`, `LcdShowsRound`), and no loss of the network goes unshown (`LossShown`). |
| ev_system | map of 2 bytes with 2 values, 2 clock registers, 1 failed transfer, 1 `EV_CPS_SET`, any slave board or none | A switch never runs half a map (`SwitchedWhole`), a setting counted as done is in force (`DoneMeansInForce`), the clock is switched on whole and locked (`ClockOnWhenLocked`). |
| io_params | both classes; 3 fields of one register, 3 overlapping ones of another, a driver function beside a register, 2 tables of 2 words, 1 port of two receivers; registers of 4 bits; 3 puts, restores or restarts | A put gives a parameter's bits the value put and changes no others, a get answers them (`FieldsAreTheirOwn`); texts (`TextInForce`), port rates (`PortsFollowRecords`) and tables (`TablesHold`) are what was put. |
| pico_buf_layout | buffers of 8 bytes, 4 of them, ratio 4, alignment 2; every count up to twice the maximum | Buffers stay inside the array (`BufferInRange`); copies fill the user's buffer exactly and match the transfers (`UserBufferFilled`). |
| ev_time | 2019 to 2021, five times of day around the local and the UTC midnight, UTC+9 | The epoch runs evenly (`EpochIsLinear`) and the clock shows local time (`ClockFaceIsLocal`) across year ends and a leap year; the date is right on every day but the first of a month (`DateRightAfterTheFirst`). |
| ioc_config | 2 fields, 1 crosspoint entry, 1 port rate, 1 client with 2 calls, 1 restart, 2 rounds of the startup loop | No put undoes another in the same register (`RecordShowsField`); an undisturbed start restores what the file says to the records, the registers and the crosspoint switch, but leaves the event code RAM empty (`RestoredFromFile`); a save stores what the records show (`SavedAsShown`); nothing waits for ever (`CallsReturn`). |

The modules also state, without a run of their own, each module's type invariant
(EvTime's is `ClockOK` and `CalOK` in its proofs),
`NeverWedged`, `Engine2Fits`, `InterruptEndsShare` and `RefsBalanced`, which hold and are proved, and
`RefusedOnlyWhenBusy` and `MutexControl`, which do not: they say what the
documentation promises, see findings 1 and 3.

**Why these bounds suffice.** The conflicts in PicoRead, EvCommand, EvrIntr and EvSystem
are between two actors and an environment: a read refused because of another, a
wake-up between another's two steps. A third thread in EvCommand is there so
that a waiter can see two others overlap. One engine has at most the transfers
of the callers in progress, and aborted callers leave theirs queued, so that
late interrupts occur with two callers. A transfer that moved nothing matters for what is
delivered, not for whether a read returns: the polling run does without. `pico_read_irq`
tells states apart by `Engine1Only`, a view without the contents of engine 2's buffer and of
its copies: no guard reads them, they are only copied to one another, and no property is
about them, so that states that agree under it have the same future. In PicoBufLayout the loops have no state
but a remainder and an index; four buffers give first, middle and last
iterations, and counts include 0, one byte more and less than every boundary,
and counts that are refused. In Ts2ipLifecycle a failed probe can lie before and after
one that succeeds, and two can lie before it; two files suffice for an overlap.
`Devices` are offered once per load; a second load finds what the first one
leaked. Of the numbers two fit a char, and the third has the low bits of one of them.
Three years contain the change into and out of a
leap year. IocConfig needs two fields in one register, one key of each other kind, one client against
`userP_main`, and one restart to leave a cut-off file that the second start
reads; the file's order differs from the restore's, and two rounds of the loop
stand for 100 as only the first, a middle and the last test differ.
EvRound's minute of three
seconds is the shortest in which the next second differs from the one before; the
count of standing seconds goes past `SameMax`, and a trouble (a stop, a loss, a clock
that is set, a failed write) may come at any point of a round. EvSystem has one
fault because the routines end or go on after each transfer on its own, and two
bytes because a mixture needs two. IoParams has a field in each position of
a register and beside a field of another kind, a table that is full after one
restore, so that the second put reaches the next one, and registers wider than
any field of the first register; its list also holds a field that is a whole register
and two that are bits of it, a row that is repeated and one that is incomplete. Of the
readings only the static's first value differs from the others; the field's way to
another one counts as a trouble, so that one may come at any point.

**Fairness, and why the code justifies it.**

* PicoRead: `SF` on the steps of a caller inside `read()`, because it takes a spin
  lock others take again and again, which the kernel gives it in the end; `WF` on
  entering and running the handler and on the card's transfers. Calls, aborts
  and signals need never happen.
* EvrIntr: `WF` on taking the interrupt, on the handler and on the main thread.
  `SF` on `Copied`: a copy into the thread's own variable does not fail every time.
* EvCommand: `WF` on each thread that is inside; the wait is bounded in the code.
* EvRound: `WF` on both threads and on the receiver's clock; stops, losses and
  setting the time need never happen.
* IocConfig: `SF` on the driver's steps (they contend for the port's lock) and on
  `userP_main`: it waits for an interrupt that comes every second, and for a port's
  lock that is always given back. `WF` on a save. Clients and `st.cmd` may stop.

EvSystem, IoParams, EvTime and the lifecycles state no fairness: their
properties are about what a step may do.

## 4. Findings

Statements of the documentation or the comments that do not hold, and defects
of the code met while modelling. The models do what the code does; where a
property excepts such a case, the finding says which. No run is kept for them.

1. **An aborted read can wedge the driver** (`PICO/mps_pico_char.c:130`).
   `PICO/README.md:118-119` says that after a read returned ECANCELED later reads
   "will block as normal". A read aborted while it waits for engine 1 clears only
   `read1_in_progress`. The next read sets that mark, finds `read2_in_progress` and
   returns EIO with both set; every later one returns EIO. `RefusedOnlyWhenBusy`,
   put into `PicoReadIrq.cfg`, shows it.
2. **A wake-up can be lost** (`mps_pico_char.c:173`). The wait macro with
   `_locked_irq` expects the waker to hold the queue's lock; in `amc_isr` the lock
   is commented out. On another CPU the handler can set the flag and wake the queue
   between the caller's test and its queueing. `ReadReturns` fails so in interrupt
   mode; in polling mode, where the wait times out, it holds.
3. **isRunning is no mutex** (`APP/ts2ipDrv.cpp:287`), though its comment calls it
   "mutex control" (`MutexControl`). What survives is proved: it is never left set,
   commands remain pulses, and a refusal has its reason.
4. **The first of a month** (`APP/ts2ipDrv.cpp:421`). The month
   search uses `<=` on a day that counts from 0 and stops a month early:
   `dayOfMonth` is then 31, beyond the "(0 ~ 30)" of its comment, and the date
   shown is the 31st of the month before. `DateRightAfterTheFirst` excepts that day.
5. **A device can be opened twice** (`ts2ip.c:258`). The comment says "if the
   device is already open, return with an error", but `isOpen` is tested and counted
   without a lock: two overlapping opens succeed, and an open and a close that
   overlap can leave it set for ever. `SerialOpens` excepts overlapping calls.
6. **Port rates of EVR0 go to EVR1** (`APP/tsDev_evx.cpp:202`): both receivers'
   records have the same address, and `writeAppData` stages all in `evrMain`.
   `PortsFollowRecords` says that *one* of a port's records is followed.
7. **A second table is written behind the first** (`APP/timingAsynEpics.cpp:1418`):
   the address in the register map moves with each element and is never put back.
   `TablesHold` speaks of tables that were not given more than their length.
8. **An empty text cuts the configuration** (`APP/iniparser.hpp:1283`): the line
   "KEY = " ends `ParseStream`, and every key behind it is restored as -1.
   `RestoredFromFile` speaks of what `ParseStream` returns.
9. **The tick is 12 ns, not 12.3** (`APP/timingAsynEpics.cpp:68`): the text of
   `tickPeriod` is divided as an int. No property is about it.
10. **One element too many** (`APP/timingAsynEpics.cpp:976`): `waveformInitFromFile`
    sets `nord` beyond the record's array when an index in the file is too large,
    and writes through the record's address before testing it was found. In
    `IoParams`, `Array` has arbitrary contents there.
11. **A failed multiplexer counts as set** (`APP/ts2ipEvsys.cpp:1651`): the transfer
    goes to whatever is behind the channel. On a slave board's bus, with `devProc`
    reading the temperature meanwhile, a map can be incomplete and the setting
    reported as done; `SwitchedWhole` and `DoneMeansInForce` except that.
12. **A change of mode leaves the slave boards' switches reset** (`APP/tsDev_evx.cpp:607`):
    `init_system` resets them and nobody sets their maps again.
13. **A failed write of the LED is never repeated** (`APP/ts2ipEvsys.cpp:963`): the
    static remembers the new state. `LedShowsStatus` excepts it.

14. **Major numbers are cut to a char** (`ts2ip.c:237`). `_open` and `_close` keep
    `imajor()` in a `char`, and `get_idByMajor` (548-555) compares that with the whole number
    of an entry. A device with number 256 or more, which the kernel gives once
    those below are taken, cannot be opened, or its file finds another device.
    `OpenFileHasDevice` speaks of files on devices whose own number fits.
15. **Restored port rates are not applied** (`APP/timingAsynEpics.cpp:598`). The restore
    puts `EVR1_PORTFREQ_0` to `_31`, which `cfg_portFreq` stages, but never `SET_PORT_FREQ`,
    which writes the event code RAM. After a restart the records show rates that no
    port has; `RestoredFromFile` says so.
16. **Some readings are never drawn** (`APP/ts2ipEvsys.cpp:901`). The static of the
    temperature begins with -1.0, what `get_slaveTemp` returns without a slave board, a
    fan's with 0: such a field stays blank until it has had another value.
    `LcdShowsRound` excepts it.
17. **The version line is lost** (`APP/ts2ipEvsys.cpp:710`). The first round of a unit that
    runs in another mode calls `init_system`, which clears the LCD; `updateLCD_Ver` is not
    called again. `LcdShowsRound` is about what a round draws.

Two more without a property of their own: engine 2's buffer has no counterpart
of `Buffer1Stable` and `OwnEngine1Data`, as `read2_in_progress` is cleared before the copy
(`mps_pico_char.c:347`); and a save that begins before the restore has finished
stores boot values over the file (`timingAsynEpics.cpp:609`), which
`SavedAsShown` excepts.

## 5. The proofs

TLAPS checks eight modules of proofs. The results hold for all values of the
constants that satisfy the named ASSUMEs of the modules; TLC evaluates those
in every run. Every safety property that a run checks, invariant or action
property, and every refinement is a theorem; PROJECT.json lists them. The inductive
invariants were checked by TLC on the run's instance before they were proved.

| module of proofs | about | a run's properties that it proves |
|---|---|---|
| `PicoReadProofs` | `PicoRead` | `OneArmedRead`, `Buffer1Stable`, `OwnEngine1Data`, `AbortSeen` |
| `PicoBufLayoutProofs` | `PicoBufLayout` | `BufferInRange`, `UserBufferFilled` |
| `PicoLifecycleProofs` | `PicoLifecycle` | `NothingLeaked`, `ReleasedOnce`, `HandlerHasBoard`, `OpenFileHasBoard` |
| `Ts2ipLifecycleProofs` | `Ts2ipLifecycle` | `HandlerIsOwn`, `OpenFileHasDevice`, `SerialOpens` |
| `EvUnitProofs` | `EvrIntr`, `EvRound`, `EvSystem` | `SleeperIsWoken`, `NoPhantomSecond`; `NoFalseReset`, `LedShowsStatus`, `LcdShowsRound`; `SwitchedWhole`, `DoneMeansInForce`, `ClockOnWhenLocked` |
| `Ts2ipDrvProofs` | `EvCommand`, `EvTime` | `CommandIsPulse`, `KeepsPromise`; `EpochIsLinear`, `ClockFaceIsLocal`, `DateRightAfterTheFirst` |
| `IoParamsProofs` | `IoParams` | `TextInForce`, `PortsFollowRecords`, `TablesHold`, `FieldsAreTheirOwn` |
| `IocConfigProofs` | `IocConfig` | `RecordShowsField`, `RestoredFromFile`, `SavedAsShown` |

**PicoReadProofs** (any callers, either mode, any outcome of the handler).
`TypeCorrect`. `MutualExclusion`: `OneArmedRead` is not inductive, since it
says nothing of the marks. The strengthening, `ArmedInv`, says that a caller which has
armed the engines and not yet ended its wait for engine 2 keeps `inProgress[2]` set,
whatever became of `inProgress[1]`, so that the second test of `char_read` turns
others away; and that the handler, run by a polling caller, sends back only that
caller. `AbortNotLost` (for a handler that reports no runaway FIFO, `Ops = {1}`): the
steps from a caller's test of its flag to its sleep are taken by the owner of the
lock (`WaitInv`), `ABORT_READ` takes the lock, and the handler, which does not,
never writes the value for "aborted". `BufferStable` and `OwnSamples`: the steps
under the lock are the holder's (`HolderInv`), and `Engine1Inv` follows one transfer
of engine 1 from its command through the FIFO and the flag to the buffer: at any
time one of them holds it, and it is the armed caller's. While nothing is in the buffer
for a caller it is blank, as every read that ends engine 1 refills it, and those that
do not leave `inProgress[2]` set for good; so a transfer that moved nothing leaves it blank.

**EvUnitProofs, EvrIntr** (any causes). `TypeCorrect`; `NeverStranded`: `SleeperIsWoken`
needs to know that while the thread is anywhere between enabling the interrupt and
sleeping, either the interrupt is still enabled, or the handler is running, or
`flag` is already set; `OneProcPerAlarm`: an alarm that is pending, or was read
and not yet handled, is still owed.

**EvUnitProofs, EvRound** (any minute of three seconds or more, any `SameMax` and number
of troubles). `RoundTypeCorrect`. `NeverFalseReset`: `NoFalseReset` says nothing of the
samples that are counted, so `WatchInv` follows them. A latched time is `Fresh` while it
is used: of the clock's second, or of the one before an alarm still pending.
The last round's sample is behind the clock by as many seconds as alarms were
raised since it was taken, or by one less (`Counted`), in which case the count of equal
seconds is 0: a running clock cannot be seen standing twice in a row, and one round
is suffered whatever `SameMax` is. That needs a minute of three seconds: in one
of two, the second after the next is the same again. `LedRight` and `LcdRight`: `Shown` says
what the statics stand for. `fpPre` is what the LED shows, unless it is 255 or the LED's
last write failed; a field shows its `fieldPre`, or is blank while that is still the
static's first value (`Drawn`), which is where the clear of the screen in the first round
finds it; and before that round nothing has been drawn that a clear could wipe.

**EvUnitProofs, EvSystem** (maps and configurations of any length, any maps, boards,
faults, polls and settings). `SystemTypeCorrect`. The three properties speak of the
moment of one transfer; `SysInv` says how far each routine has come. `JobsOK`: a
queued routine is `Script`, the text of its function, from `next` on, made from
the map wanted, which no record can change meanwhile. `Places`: which routines which
thread may have at which stage; from it, one thread at a time uses the on-board
bus, whatever the slave board's does (`OwnBus`), and a thread that is alone on its
bus talks to the chip it means. `MapSent`: a `set_cpsConfig` at transfer n that has been
alone has the bytes before n in the switch's registers, and after the update the map
is in force; after `init_cps`'s first transfer they are those of a reset.
`ClockSent`: `init_clk` at transfer n has written the registers of the configuration
before n, and past the poll the loop is locked, or a transfer has failed.
`MapsGoWhole`, `DoneIsDone` and `ClockOnLate` then look at the one transfer that
can break each: the update, the readback and the write of `oeb`.
An earlier form of `Take` chose between cases whose guards overlapped (a register
named "reset" of either chip); the proof could not be completed, because such a choice is
not determined, and the definition now tests the chip first.

**Ts2ipDrvProofs, EvCommand** (any threads, IPs, commands). `TypeCorrect`; `NotWedged` and
`PulseOnly`: the property itself is inductive with the types, one step per action.
`PromiseKept` is a refinement: the initial states map to those of `CommandPulse`, and
each step of `ip_setCommand` to one of its actions or a stutter. The step that needs
an argument is the refusal: `isRunning` is set, so (`NeverWedged`) somebody is inside.

**Ts2ipDrvProofs, EvTime** (any years of 2000 to 2037, any time zone up to UTC+14 in whole
minutes, any stops of the clock that contain both midnights, anything `mktime` may
add). `TimeInv` relates the hardware's clock to the calendar on the wall: both
count the same day of the year, or the calendar is at next year's first in the
last local hours of the clock's year (`CalFollows`), and a leaf's number is its distance
from the first in `mktime`'s days (`Numbered`). `LeafTurned` shows that a leaf keeps
this, `Converted` and `MonthFound` what the conversion and the search compute.
`EpochRunsEvenly`, `FaceShowsLocalTime` and `DateRight` follow. The years
end with those that a `time_t` of 32 bits can count, as the ARM's C library has.

**PicoBufLayoutProofs** (any count, size and number of buffers). `TypeCorrect`.
`BuffersInRange`: while queueing or copying (`Walk`), the remainder is
`dma1 - i * BufSize`, and `dma1` bounded by what fits in the buffers.
`OneBufferForEngine2` uses `RatioAssumption`, that there are no more
buffers than `Ratio`: the numbers in the source satisfy it, but nothing there ties
one to the other. `CopiedAsQueued` compares the two loops: `Lists` says what each has
written after i rounds, and `SameEnd` that they end at the same buffer, since the
remainders agree there. `WaitsForTheShare`, from the same invariant: what is queued on an
engine up to the one transfer that asks for an interrupt is its whole share, and the two
shares are the count, so that the first interrupt is the right one to wait for.

**IocConfigProofs** (any keys, values, clients and bounds). `TypeCorrect`;
`LocksHeld`: a put holds its record's lock from start to end, and at most one
thread, the holder of the port's lock, is in the driver; `FieldsKept`
(`RecordShowsField`): from these, the copy a driver call read is still what the
register holds when it writes, so only the put field changes, and a record that
is not being put shows its field. `StoredAsShown` (`SavedAsShown`): `SaveInv` says of a
save at key n that the keys before n which nobody put are in `iniFt` as shown, and
of one that writes, that they are in the file up to where it is. `BackFromFile`
(`RestoredFromFile`): `BootInv` says that before `iocInit` no call is under way and no rate
is staged; `StartInv` how far an undisturbed start has come: `iniFt` is what can be read of
the file, the records of the keys before `pos` show it, and the crosspoint
switch was told at the end. `TextInv` says of the records of crosspoints and rates what
`RecordShowsField` says of the fields', and `RamInv` that in an undisturbed start nothing has
written the event code RAM.

**IoParamsProofs** (any list, boards, values, tables and files that satisfy
`ListAssumption`, `CodeAssumption`, `ValueAssumption`, `PortAssumption` and
`TableAssumption`). The lemmas on `Insert` and `FieldOf` say that a put gives its span
the low bits of the value and leaves all other bits alone, whether or not another field's
span overlaps it (`InsertPlaces`). `OwnFields` is the refinement of `FieldStore`: a place of the
store is a bit of a register, so fields that overlap in one overlap in the other. An
array's puts stay out of fields because its address only moves up (`TypeCorrect`) and
fields lie below.
`TextsInForce` follows the text record's own field. `PortsFollow`: `PortInv` says that the
rate staged for a port is that of the text of one of its records (`Staged`). `TablesFollow`:
while no table got more than its length, `TableInv` says its address is its start
plus what it was given, and the words in between are that; tables do not overlap.

**PicoLifecycleProofs** (any files and number of buffers). `TypeCorrect`. Each resource has a
`Rank` in the order of acquisition, and `Inv` says that what is held is exactly what has
a rank below the step at hand (`Upto`): from it follow `NoLeak`, `NoDoubleRelease` and
`HandlerSafe`. `References` counts `refs` as the files used plus those open;
`OpenFileSafe`, for boards that are not unbound, needs it, as no module with
references is removed.

**Ts2ipLifecycleProofs** (any devices, files, numbers and size of `dInfo` and of a char). `TypeCorrect`: `devCount`
stays inside `dInfo` as every probe counts at most one device that was offered
(`CountInv`). `HandlerOwn` and `OpenFileSafe`: a bound device's entry is never taken again
(`IrqInv`), and a number that fits a char leads to one entry, its own: no two entries in
use have the same number, and an entry is compared whole, so that one beyond a char is
never found (`NumberInv`, `NodeInv`, `FileInv`).
`SerialExact`: from `Serial`, a device has one file at most between the test of its
open and the end of its close (`Excl`), and the value it saw is the one it counts from.

Not proved, only model-checked, are the seven liveness properties:
`AbortedReadReturns` and `ReadReturns` (PicoRead), `SecondHandled` (EvrIntr), `CallReturns`
(EvCommand), `StopIsReset` and `LossShown` (EvRound) and `CallsReturn` (IocConfig). Each
needs to know that a fair action is enabled, and the prover has no rules for
ENABLED. Their bounds are argued in section 3.

## 6. Not modelled, and what is left

Not modelled for good: pure I/O and parsing (registers of single access, LCD
formatting, log, version files, string conversion, drxiic, xadc), code that is
compiled out or never called (FRIB capture, the self test, `readData`, most
setters of the generators and pulse outputs), data (databases, scripts).

Left out of components that are partly modelled:

* mps_pico's probe: the interrupt enable at its end, the sysfs attributes,
  `pico_wait_for_op`; unbinding a board with files open (`Unbind = TRUE` is an
  instance of PicoLifecycle in which `OpenFileHasBoard` does not hold).
* ts2ip: the mapping of registers, devices without memory, unbinding of one
  device, the register ioctls, and that all devices share `flag` and wait queue.
* ts2ipDrv: opening the device files, `ip_getInfo`, `ip_intrMask`.
* tsDev_evx and ts2ipEvsys: `bist`, `delayCheck_Proc`, the FMC's LEDs, the second
  slave board, fans' speed, equalizers, the backplane's configuration.
* ts2ipEvg, ts2ipEvr, ts2ipGtp: status words that are only printed, and the test of the IP's
  version in `ts2ipGtp::getStat`; its words are read in one step of EvRound.
* tsDev_zq9r: `devProc`, `bist` and a constructor that leaves pointers unset.

What would come next, most important first:

1. PicoRead and PicoLifecycle composed: the interrupt enable at the end of
   `probe`, `remove` against callers in `read()`, unbinding with open files.
2. Ts2ipLifecycle extended by unbinding and probing single devices, and composed
   with EvrIntr: several devices share one flag and one wait queue.
3. EvRound over EvSystem: the front panel's bus and the slave boards in one model,
   with the reads of a time as two steps.
4. What makes the liveness properties true and needs no ENABLED, as theorems: a
   measure of a call's or a round's way that no other thread's step puts back.
