# Verification of the drivers in hard_driver

The repository collects an ARM9 (S3C2440) course: the lecturer's own programs and
drivers under `src/hard_driver`, beside the vendored `linux-2.6.22.6`,
`u-boot-1.1.6` and `busybox-1.7.0` they run on or with. This project models the
parts of `hard_driver` in which several actors share state: interrupt handlers
against a main program without an operating system, and interrupts, timers and
processes inside a Linux driver. Each module is translated from the C files named
below; the kernel and the hardware appear only as far as that code uses them.

## 1. Inventory

`src/hard_driver` has four trees.

* `first_hard/NNN_*`: one bare-metal program in 25 growing stages. The models use
  the last stage that changes a part: `022_i2c_019/005th_i2c_ok_019_007` for I2C
  and `025_sensors_022/007_irda_nec_ok_022_009` for the rest.
* `drivers_and_test/*`: Linux 2.6.22 driver lessons (`7th_buttons_all` is the last
  of six versions of the key driver).
* `friendlyArm/*`: exercises on another board; `chapter4_wait/memdev_poll` is the one
  with blocking reads and writes.
* `hard/*`: older, simpler versions of the bare-metal lessons.

The bare-metal program is compiled without optimisation and runs `main` with IRQs
on. `handle_irq_c` (`interrupt.c:112-132`) runs one handler at a time with IRQs
masked and clears the source's pending bit after the handler. The Linux kernel is
configured without SMP and without preemption (`linux-2.6.22.6/config_ok`): a process
in the kernel is interrupted by interrupts and timers only, until it sleeps.

| component | state | operations | what is hard |
|---|---|---|---|
| I2C master and EEPROM (`i2c/`) | `p_cur_msg`, the message with `cnt_transferred` and `err`, controller registers | `at24cxx_write`, `at24cxx_read`, `do_master_tx/rx`, `i2c_interrupt_func` | main spins on what the handler writes and then reuses the stack; three off-by-one comparisons with `len`; NACK of the last byte; a device that does not answer |
| infrared event ring (`circle_buffer.c`) | `g_events`, `g_r`, `g_w` | `ir_event_put` (interrupt), `ir_event_get`, `ir_event_get_timeout` (main) | no lock: the interrupt comes between any two memory accesses of a get; the ring is full |
| system time (`timer.c`, `irda_raw.c`) | `TCNTO0`, `g_system_time_10ms_cnt`, `g_last_time` | `timer_irq`, `get_system_time_us`, `udelay`, `irda_irq` | counter and count are read one after the other while the counter wraps |
| touchscreen (`touchscreen.c`, `tslib.c`) | controller mode, sample counter and sums, timer flag, mailbox of one report | `Isr_Tc`, `Isr_Adc`, `touchscreen_timer_irq`, `ts_read_raw`, `get_calibrate_point_data` | three handlers switch the mode under each other; the mailbox is read word by word |
| key driver (`7th_buttons_all/buttons.c`) | `ev_press`, `key_val`, `irq_pd`, timer, semaphore, wait queue | open, read, release, `buttons_irq`, `buttons_timer_function`, module exit | interrupt, timer and readers share a flag; signals; fork; restart of the timer |
| memory device (`memdev_poll.c`) | `have_data`, per device data, semaphore, two wait queues; per file its position | `mem_open`, `mem_llseek`, `mem_read`, `mem_write`, `mem_poll` | condition synchronisation with sleeping; failing copies; one flag for two devices |
| NEC decoder (`irda_nec.c`) | position in a frame, bits collected | `irda_nec_read`, `irda_nec_test` | finding the next frame after a spoilt, truncated or half-dropped one |
| sound driver, playback (`21th_sound/driver/s3c-wm8976.c`) | ring of fragments with fill level and semaphore each, current fragment, DMA queue | open, write, sync, poll, release, ioctls, DMA completion | process and interrupt hand fragments to and fro; partial fragments; failing enqueues |
| DM9000C network driver (`17th_dm9000c`) | `tx_pkt_cnt`, queue state, `Speed`, `cont_rx_pkt_cnt`, index register and mask of the chip | `dmfe_start_xmit`, `dmfe_interrupt`, `dmfe_timeout`, `dmfe_timer`, open, stop | a counter changed on both sides without a lock; an index register shared with the handler; edge-triggered interrupt |
| timer callback table (`timer.c:18-61`) | `timer_array` | `register_timer`, `unregister_timer`, `timer_irq` | the table changes while the interrupt walks it |
| boot loader (`32th_my_bootloader`) | NAND address, buffer position | `nand_read` with bad blocks | block and page boundaries |
| Linux touchscreen (`11th_ts/8th`) | mode, sample arrays, kernel timer | two interrupts, timer | as the touchscreen, with other mode rules |
| virtual network card (`16th_virt_net/4th`) | transmit queue, statistics | `virt_net_send_packet` | ownership of the packet |

How they interact: `timer_irq` is the time base of `udelay` and so of
`ir_event_get_timeout`, calls `touchscreen_timer_irq` every 10 ms through the callback
table, and supplies the time stamps `irda_irq` puts into the ring; the NEC decoder is
the ring's reader. The I2C code is a program of its own stage. The Linux drivers
interact with processes, the kernel and their hardware only.

The models are composed through what one shows of another: `CircleBuffer` implements
`EventFifo`, and `IrdaNec` reads an `EventFifo`; that a get with timeout cannot expire
inside a frame rests on `SystemTimer`'s `NeverEarly`.

What makes each part correct: main never touches or leaves a message that the handler
is still working on, and bytes land where they should (I2C); events come out whole, in
order and once (ring); time is monotone up to a known error and delays are never short
(time); reads are whole, the controller never sticks, averages contain touches only
(touchscreen); no key action is returned twice, no sleeper is forgotten, the settled
level is reported (keys); copies are whole, the semaphore is given back and no sleeper
of a device is forgotten (memory device); a frame that arrives whole is decoded once whatever came before it (NEC); a
fragment has one owner and what was written is played once and in order (sound); never a
third packet in the chip, the queue restarts, packets are fetched (network).

## 2. Modules

| module | models | uses |
|---|---|---|
| `I2cMaster` | I2C controller driver, `at24cxx.c`, menu | |
| `EventFifo` | abstract: a bounded FIFO with one reader | |
| `CircleBuffer` | `circle_buffer.c`, implements `EventFifo` | `EventFifo` |
| `SystemTimer` | timer0, interrupt dispatch, time, `udelay`, `irda_irq` | |
| `Touchscreen` | touchscreen driver and calibration point loop | |
| `ButtonsDrv` | the key driver | |
| `MemdevPoll` | the memory device | |
| `IrdaNec` | NEC decoder, fed by a remote through the ring | `EventFifo` |
| `AudioOut` | playback half of the sound driver | |
| `Dm9000` | the network driver and its chip | |
| `MC...` | constants for TLC | the module of that name |
| `...Proofs` | theorems | the module of that name |
| `InfraredProofs` | theorems | `CircleBuffer` and `IrdaNec` |

Variables and actions keep the C names. An action is a whole handler where the code
runs with IRQs masked (bare metal) or cannot be interrupted by what the model contains;
code that can be interrupted is one action per access to shared memory. In the Linux
models a process step ends where the process can sleep or where an interrupt or timer
between two accesses makes a difference. Definitions whose names end in a word like
`Late`, `Not`, `Never` and whose comment begins with "mutant of" are deliberately wrong
variants of the definition after them; `PROJECT.json` says which property notices each.

### I2cMaster
`pc` says where main is (menu, write loop, `s3c2440_master_xfer`, busy wait); `msgs`,
`i`, `p_cur_msg` are the message array, loop counter and pointer of the code. The
controller shifts one byte (`ByteShifted`, external), which raises the interrupt and
moves the EEPROM's own state; `i2c_interrupt_func` is one action made of the address
case, the transmit case and the receive case. Assumptions: a byte on the wire takes far
longer than the end of the handler, so handler and clearing of the pending bit are one
step; the EEPROM may ignore its address (busy) but acknowledges data once selected;
lengths are not negative; strings are not empty (they include the NUL).

### CircleBuffer
A get is the test, two copies (`pol`, `duration`) and the index update, with an
`ir_event_put` possible between any two. `ir_event_get` is `ir_event_get_timeout`'s
first round. The refinement maps the ring to the sequence from `g_r` to `g_w`.

### SystemTimer
`Tick` moves the counter, also while a handler runs. `TakeIrq`, the handler steps and
`ClearIrq` follow `handle_irq_c`. The order of two pending sources is left open. External
assumption `LatencyBound`: IRQs are never masked for a whole period of 10 ms. Main runs
when nothing is pending. Pulses are longer than a handler. History fields hold the true
time at which a reading was made.

### Touchscreen
`ts` is a record of the mode register and the driver's statics; the driver's functions
are functions on that record, composed as the code calls them. A handler is one step,
since what it starts ends 5 ms later (`ADCDLY`). Bit 15 of `ADCDAT0` is the pen in the two
waiting modes and an arbitrary value in automatic mode. History: `taken` holds the samples
taken since a handler last saw the pen up, counted without looking at the driver's own
count and sums; `lifted`, whether the pen was up since a touch was last stored.

### ButtonsDrv
A process opens (blocking or not), forks, reads and closes; `file[p]` names the open file
it shares. `Wait` is `wait_event_interruptible`, whose test and sleep are one step;
`Interrupted` is its return after a signal. The copy and the clearing of `ev_press` are
two steps because the timer softirq can run between them. `TimerExpires` and
`buttons_timer_function` are two steps because an edge can come between. History
variables: `unread` (an action was reported and not returned), `moved` (the key that
moved last), `missed` (keys that moved while nobody listened). `button_async` is not
modelled; `poll` has no state. Unloading the module leaves a pending timer pending, as the
code does.

### MemdevPoll
`mem_read` and `mem_write` differ in the condition and the copy and share their actions:
`Call` (the position is tested and the length clipped), `Down`, `Test` or `NotReady`, `Wait`,
`CopyCell` or `CopyFault`, `Finish`, `WakeUp`. The driver protects itself with a semaphore, so
the model interleaves processes freely, also between two cells of a copy. `dev`, `pos` and
`count` are the code's `private_data`, `f_pos` and `count`; `mem_open` sets the position to 0 and
`mem_llseek` moves it anywhere from 0 to the size. A failing copy stops at any cell, and a
failing write zeroes the rest, as `copy_from_user` does; both leave the position, call `up`
a second time and go on. `PollDown` and `mem_poll` are the two halves of `mem_poll`, with the
system call around it: it returns if the mask has what it asked for, sleeps on both queues
otherwise, and asks again when woken. Every process has one file open that it shares with
nobody. History: `faults[d]` counts the copies that failed on `d`, `setter` is the device whose
call set `have_data` last.

### IrdaNec
The remote ends one pulse after the other (`StartFrame`, `EndPulse`), each with its nominal
width plus the error of the remote's clock, a disturbed width, or not at all (`CutOff`);
`irda_irq` puts it into the ring or, when the ring is full, drops it. Durations are the
code's own, in microseconds. `irda_nec_read` has one action per place where it takes an
event (`WaitHead`, `SecondPulse`, `DataLow`, `DataHigh`) or times out (`SecondTimeout`, which
goes round the loop without returning, and `DataTimeout`). `at` is where it waits and `taken`
the event it got last; the specification is `NecSpec`, so that one module can extend this one
and `CircleBuffer` and prove about both. A return and the next call by
`irda_nec_test` are one step. Events carry the frame and pulse they came from as history.

### AudioOut
`frags`, `fragsize`, `buf_idx` and per fragment `size`, `sem`, `mem` are the output stream;
`chain` is the queue that `s3c2410_dma_enqueue` keeps (`plat-s3c24xx/dma.c`). A call is a
sequence of steps between which the DMA interrupt may come: `Down`, `Fill`, `Enqueue` for
write, `SyncStart`, `SyncFlush`, `SyncWait` for sync and close. Each failure is an action or
a disjunct: a failing copy (for mono every copy), an enqueue without memory, an enqueue that
queues and then reports an error, signals, `O_NONBLOCK`. A unit of data is one stereo
sample; units are numbered, so `played` can be compared with what was accepted. Poll sleeps
on the queue of the current fragment, which the completion of that fragment wakes
(`Wakes`, `PollAgain`). One process has the device open.

### Dm9000
The chip sends, receives and changes its link at any time, also while the handler runs. Its
interrupt line is edge triggered (`IRQF_TRIGGER_RISING`): `Line` computes the level from
status and mask and keeps an edge in `pend`. `dmfe_start_xmit` is cut where the handler can
make a difference: load and store of `tx_pkt_cnt++`, stopping the queue, masking the chip,
selecting the packet memory, writing, unmasking. `dmfe_interrupt` is cut at its parts and at
each round of the receive loop, because the chip goes on. `dmfe_start_xmit`, the watchdog and
the timer exclude each other by the networking layer's lock and bottom halves. The watchdog
wakes the queue at any look that finds the chip idle, except the last one: then `i` is 100
and it resets as if the chip were still sending. `crossed` and
`squeezed` are history: the two situations the properties except.

## 3. Runs

Passing runs:

| run | instance | shows |
|---|---|---|
| `i2c_master` | 3 cells, strings of 1 or 2, reads of 1 to 3 | `TransferInv` and `WaitCoversTransfer`: main waits exactly as long as the handler works; `WriteOutcome` (`WriteStored`, `WriteConfined`): complete and failed writes; `ReadDelivers`: no byte from a wrong cell, all before the last stored; `SlaveReleasedAtStop`: the last byte is not acknowledged; `CallReturns` |
| `circle_buffer` | 4 slots, timeout up to 2 | `CopyStable`: nothing overwrites the event under the reader; `FifoSpec`: refinement; `GetReturns` |
| `system_timer` | counter 4..0, 3 periods | `PeriodsCounted`; `TimeInv` (types, `MainTime`, `IrdaTime`): the exact error of a reading; `PulseWidth`: the exact error of a pulse width, modulo the width of the integer; `NeverEarly` for `udelay` |
| `buttons` | 2 processes, 2 keys, 3 edges | `OneOpenFile`, `NoRepeat`, `SleepersTold`, `Debounced`, `EdgeIsRead` |
| `touchscreen` | 2 samples, 2 reports, 4 pen movements | `NoTornRead`, `ModeInv` (types, `ConversionUnderWay`), `PointInRange`, `ReleaseIsReal`, `ReportOfOneTouch`: a report averages the samples of one touch and no others; `TouchRead` |
| `memdev_poll` | 2 processes, 2 devices of 2 cells, 1 failing copy | `SemAccount`: the semaphore is off by exactly the failing copies; `CopyWhole`: nothing changes under a copy, unless one failed before on that device; `SleeperServed`, polls included |
| `irda_nec` | bytes of 1 bit, 2 frames, a ring of 1 event, 1 misread pulse, any pulse dropped or cut off | `DecoderInv` (types, `FrameOnce`): a frame that arrives whole is returned once, whatever came before; `DataIntact`: one fault never gives wrong data; `BackToHead` |
| `audio_out` | 2x2, 3x1 and 3x2 fragments, 9 units | `OwnerInv` (types, `OneOwner`), `PlayedInOrder`, `SyncComplete`, `CallReturns` |
| `dm9000` | RX memory of 2 packets, receive limit 2 | `CountInv` (types, `CountWithinOne`), `AtMostTwo`, `WritesToSram`, `QueueRestarts`, `RxServed` |

The types of `I2cMaster`, `CircleBuffer`, `ButtonsDrv` and `MemdevPoll` are part of the
invariants proved in section 4 and have no run of their own.

Runs in which TLC refutes what a comment or a kernel document says (section 5):
`i2c_read_complete` on the instance of `i2c_master`, `buttons_sleeps_only_idle` on that of
`buttons`, and `audio_poll_wakes` on that of `audio_out` with 5 units.

Why the bounds are enough. I2C: every comparison with `len` distinguishes the first, a
middle and the last byte, which three bytes have; three cells make addresses wrap.
Ring: four slots are empty, full, wrapped and neither. Time: a reading or a delay spans
at most one handled wrap plus one pending one; three periods allow a second. The width W
of a duration is no multiple or divisor of a period, so that an error of a period cannot
hide in the modulus.
Touchscreen: two samples give a first and a last conversion, two reports fill and exceed
the averaging limit, four movements are two touches. Keys: two keys and three edges give
a bounce and a second key inside the debounce time; two processes give a fork and a
competing open. Memory device: of the two processes one keeps to a device and gets signals,
the other moves between both devices, so that the shared flag is set from either; two cells
make a copy that can be interrupted and fail halfway, and positions at the start, inside and
at the end; one copy fails, on the device both use, and the other device has none, so that
both sides of the condition of `CopyWhole` occur.
NEC: four bits have a first, middle and last one and all four bytes; a ring of one drops
pulses as soon as main is late; the second frame follows every way the first can fail.
Sound: nine units go more than once round every ring and leave a partial fragment; two and
three fragments separate "previous" from "next". Network: two packets fill the transmit
memory, and three stand for any overrun; the receive limit is reached with two.

`CHECK_DEADLOCK FALSE` is set where the instance really stops: when the bounded clock
(`system_timer`), the bounded edges and a removed module (key driver), the bounded pen
movements (`touchscreen`) or the bounded frames (`irda_nec`) are used up and everybody
waits; and in `audio_out`, where a close after a failed enqueue sleeps for ever without
being interruptible (`s3c-wm8976.c:426`).

### Fairness
* `I2cMaster`: main runs, a pending interrupt is taken, a started byte ends. No fairness
  on calls.
* `CircleBuffer`: main goes on with a get it has started; puts owe nothing. With WF the
  reader is not kept out by interrupts since a handler is short against the pulses.
* `ButtonsDrv`: the pending timer expires, its function runs, a runnable process in a
  system call goes on. Not assumed: calls, edges, signals.
* `Touchscreen`: the controller and the 10 ms timer work, pending interrupts are taken;
  main has strong fairness because interrupts interrupt it again and again but leave it
  most of the time (a conversion takes 5 ms).
* `MemdevPoll`: the scheduler runs every process that can run; strong fairness on taking
  the semaphore, also in poll, whose waiters the kernel queues. Not assumed: calls and
  signals.
* `IrdaNec`: main runs the decoder; a frame under way goes on or is cut off. Not assumed:
  that the remote sends anything.
* `AudioOut`: the process goes on with a call when it can, a queued transfer ends. Not
  assumed: signals, so the calls return without them.
* `Dm9000`: the chip sends what it was given, the handler runs, the periodic timer expires;
  strong fairness on finishing a call, which interrupts suspend again and again. Nothing is
  assumed of the watchdog: the queue restarts without it. `QueueRestarts` also has a
  premise, that interrupts leave the processor from time to time (section 5).

## 4. Proofs

TLAPS checks these for every value of the constants that satisfies the named `ASSUME`s of
the module (sizes and bounds are natural numbers, positive where the code needs it); what
a theorem assumes beyond them is said here. Each inductive invariant was first checked by
TLC on the run's instance. Every safety property of the passing runs is a theorem.

Of most liveness properties the safety half is a theorem too: what a waiting actor waits for
is under way, so that only fairness is left to TLC. These statements are defined in the proof
modules, next to their proofs.

**I2cMasterProofs**, for every device size and messages of any length, under
`ReadsNonEmpty` (0 is not in `ReadLens`; see section 5).
* `TransferInvariant`, `WaitIsLongEnough`, `StopIsSeen`. The inductive invariant is
  `TypeOK /\ TransferInv` (`IInv`). `WaitCoversTransfer` is not inductive: whether the wait
  may end depends on `cnt_transferred`, and that on which byte the bus is shifting, so
  `TransferInv` has one part per bus phase (`AddrInv`, `TxInv`, `RxInv`) that ties counter,
  ACK bit, data register and EEPROM phase together.
* `WritesLand`, `ReadsDeliver`, from `IInv /\ DataInv` (`DataInvariant`). `DataInv`
  follows the bytes: the message of a write is the one for the byte before the loop counter
  (`WriteMsg`), the byte in the data register and the EEPROM's pointer are those of the
  message (`TxData`, `RxData`), the string is stored up to the loop counter, and one further
  exactly between the moments the last byte is shifted and the loop moves on (`WritePrefix`,
  `ByteStored`), the receive buffer holds the cells up to `cnt_transferred`, never the last
  (`ReadMsgs`). Addresses wrap at the device size; the lemmas `CellsDiffer` and `NextCell`
  are about that.
* `WaitEndsInTime` (half of `CallReturns`): while main spins, the bus is idle exactly when the
  condition of the loop lets main go. Either main waits for a byte on the wire or its
  interrupt, or the handler has sent STOP and left a count or an error that ends the wait.

**InfraredProofs**, in two parts.
* `CircleBuffer` (`Safety`, `Refinement`), for every ring size of at least 2. The
  invariant is `TypeOK /\ CopyStable`. The refinement rests on lemmas about `Contents`, the
  sequence between two indices of a ring: a put appends to it, a get takes its tail, and
  neither touches the rest (`ContentsPut`, `ContentsGet`), proved from the two cases of the
  modulo (`ModSmall`, `ModWrap`).
* `IrdaNec` on that FIFO (`WholeFramesReturned`), for any number of bits in a byte, any ring,
  any number of frames and of disturbed, dropped or cut off pulses, under
  `ClocksInMargin`: the clock of each remote is off by less than `DURATION_DELTA`, outside of
  which the decoder means to reject its pulses. `FrameOnce` is not inductive:
  it says nothing of events still in the ring. `NecInv` says that of a frame without a fault
  no event is missing between the one at hand and the newest (`RingInv`), that the decoder
  waits where the event at hand leads, with the bits so far (`ReadInv`), and that it
  returned nothing of later frames (`GotInv`). The silence before a frame is what brings a
  decoder caught in the middle back to the head.
* `DataIntact` on the same model (`NoWrongData`), under the same margin. If the one fault
  is in the frame before, the frame is whole and `FrameOnce` applies. Otherwise the invariant
  `FaultInv` names the pulse `x` that the one fault struck, a pulse beyond the frame as long as
  nothing happened: every other event is exact, and only `x` can be missing between two
  neighbours (`FrameOK`, `NewestOK`). After each event the decoder is where its pulse leads
  with at most the bit of `x` wrong, or back at the head with nothing left in the frame that
  looks like one (`Placed`). The frame before is whole, so the decoder is at the head when the
  frame begins. At the end `OneWrongBit`: a data byte and its inverse that agree differ from
  what was sent in no bit or in two, so the one wrong bit is caught.

**SystemTimerProofs** (`NoPeriodLost`, `TimesRight`, `DurationRight`, `DelayNeverEarly`), for
every reload value, counter frequency, width of the integer and set of delays, from
`LatencyBound`, which is part of the model (section 2). The invariant adds what is known
between the two reads of a time: in the interrupt the count stands still and the sum is
right or one period behind (`IsrReading`), in main the count only grows (`MainReading`); and
that `udelay` has never subtracted more than has gone by and would not if it read now
(`DelayInv`), which needs the counter read last to be less than a period old.

**ButtonsDrvProofs** (`ExclusiveOpen`, `ReadOnce`, `NoSleeperForgotten`, `Debouncing`), for
any processes, keys and number of edges. Strengthenings: one process
at a time is between the wait and the return (`OneInside`, from the kernel's scheduling);
`ev_press` implies an unread action unless a reader is between copy and clear; `irq_pd` and the key the timer
function has picked are the key that moved last.

**TouchscreenProofs** (`ModesConsistent`, `ReadsNotTorn`, `PointOnPanel`, `ReleasesReal`,
`ReportsOfOneTouch`), for any number of samples and reports and any panel. `ReadInv`: while main copies the mailbox it
is full, so no handler writes it. `LiftInv`, for `ReleaseIsReal`: everything that can lead
to a pen-up report - the panel, the mode that waits for the pen, a pen interrupt pending, a
report in the mailbox - implies that the pen went up, so that the invalid bit 15 cannot
produce a false one. `SampleInv`: every sum of `c` coordinates lies between `c` times one and
`c` times another, so the averages do. `TakenInv`, for `ReportOfOneTouch`: the driver's count and
sums are those of `taken`, and while they are not zero the controller measures and no pen
interrupt is pending, so that `Isr_Tc` and the timer, which see a lifted pen and do not reset
the sums, never see it in the middle of a report. `NeverBlind` (half of `TouchRead`): each mode has
something that ends it, the pen interrupt, a conversion under way or, in the mode that waits
for pen-up, the timer, which no handler switches off there.

**MemdevPollProofs**, for any processes, devices, positions, lengths and failing copies.
`SemaphoreGivenBack`: the semaphore is 1 minus its holders, plus the failing copies; the
invariant (`AccountInv`) adds that the holders of a device are finitely many. `CopiesWhole`:
on a device without a failed copy the account leaves room for one holder, so nobody else
copies there, and what a call has moved stays as it was; the invariant says so of every
process that copies, and that its cells lie inside the device. `NoWakeupLost` (half of
`SleeperServed`): a process that sleeps although a call on its device has set the flag as it
wants it has a waker: that call is still before its `wake_up`, which is for the queue the
process is on.

**AudioOutProofs** (`OneOwnerAlways`, `SyncIsComplete`, `PlayedInOrderAlways`), for every set of
geometries and any amount of data. `OneOwner` needs to know that only the current fragment
holds data that is not queued (`FillLevels`); `SyncComplete`, that sync waits for the fragment
before the current one, needs that this is the one queued last (`LastQueued`). For the
order, `QueueInOrder` and `RestInOrder` say where in the stream the units of each queued
fragment and of the current one begin. `Queued` is a recursive function; its value is
obtained from a solution constructed by induction over the queue. `SleepersServed` (half of
`CallReturns`): the fragment a process sleeps on in write, sync or poll is in the DMA queue or
was lost by a failed enqueue; of polls this holds while the first fragment is the current one,
as the finding in section 5 says.

**Dm9000Proofs** (`CountInRange`, `NoThirdPacket`, `DataToSram`), for both revisions of the
chip, every RX memory and receive limit. The heart is `NoneUncounted`: the packets in the
chip and the one on its way are counted, or the handler has just drained the chip and set
the count to 0 and will read the completions before anything is sent. That needs the chain
from a completion to the handler that reads it: a completion is announced in the status
register or in the handler's copy (`Announced`), a raised line leaves an edge (`EdgeKept`), and
the chip is masked only by the sender (`MaskedBySender`). `SramKept`: the handler saves and
restores the index register of the call it interrupts. `QueueIsWoken` and `PacketsFetched`
(halves of `QueueRestarts` and `RxServed`) say that a quiet driver, with no call, handler or edge
under way, is not stuck. If its queue is stopped, a packet is in the chip and its completion
raises the line, which is down. If a packet was received and not fetched, it is announced
behind the mask that the next `dmfe_timer` opens. `WaitInv` follows both from the step that stops
the queue or clears the status to the step that makes up for it; the receive limit leaves
nothing behind because what the loop has fetched and what is left fitted into the RX memory
together, unless a packet came later and is announced (`LoopSeesAll`).

Only model-checked:
* every liveness property (`CallReturns`, `GetReturns`, `EdgeIsRead`, `TouchRead`,
  `SleeperServed`, `BackToHead`, `QueueRestarts`, `RxServed`): fairness and `ENABLED` are outside
  the prover.

The library's induction theorems cannot be used, since they take an operator as a parameter.
Where a proof needs induction (`AudioOutProofs`), it is done for a set of numbers, from the
well-foundedness of the natural numbers (`SetInduction`).

## 5. Where the code and its comments disagree

With a run:

1. `buttons.c:116`: an action reported between `copy_to_user` and `ev_press = 0` is lost
   (`buttons_sleeps_only_idle`).
2. `s3c-wm8976.c:660`: poll waits on the current fragment and tests the first one, so a
   process can sleep while every fragment is free (`audio_poll_wakes`).
3. `s3c2440_i2c_controller.c:118`: at the interrupt of the last byte of a read the handler
   stops the bus without storing the byte, although the comment at `:115-117` says that
   every new byte is read from `IICDS` and stored (`i2c_read_complete`). `ReadDelivers` says
   what reads do deliver, with or without that byte.

Seen while modelling, without a run of their own; the models contain the behaviour:

* a wrap just before the time is read makes a pulse 10 ms off, and a time that runs
  backwards becomes a huge duration (`irda_raw.c:47`): `PulseWidth` states the exact error;
* `buttons.c:213`: the module can be unloaded with its timer pending, although
  `kernel-hacking.tmpl:773` says everything must be cleaned up by then;
* `memdev_poll.c:37`: the flag that tells "whether the device has data to read" is one for
  two devices: a write on one lets a reader through to the other, which nobody has written,
  and a read on one takes the flag from the other. `wake_up` goes to the queue of one device
  (`:108`, `:161`), so a process on the other sleeps on although the flag is as it wants it;
  without `setter = dev[p]`, `SleeperServed` fails on the instance of `memdev_poll`;
* a reader need not read the cells that were written: both calls work at the position of
  their own file and share only the flag;
* `s3c-wm8976.c:445`: the test of `access_ok` is inverted, so every mono write fails, and so
  does `SNDCTL_DSP_GETOSPACE` (`:889`);
* `s3c-wm8976.c:542-545`: when the DMA core has no memory, the fragment is neither queued
  nor given back and a later write or close waits for it for ever; when it reports an error
  after queueing, the fragment is played twice; an error in a later fragment hides how much
  was written (`:517`);
* `dm9dev9000c.c:768`: a completion that interrupts `tx_pkt_cnt++` is lost and the count stays
  one too high (`CountWithinOne`: never more). At 100 Mbit this halves the transmit memory;
  after a change to 10 Mbit `dmfe_start_xmit` refuses everything with the queue awake;
* `dm9dev9000c.c:1276`: bad packets do not count towards `CONT_RX_PKT_CNT`, so a flood of them
  keeps the handler in its loop; hence the premise of `QueueRestarts`;
* `dm9dev9000c.c:1286`: a packet left in the chip for lack of memory waits for the next
  arrival (`squeezed`);
* `dm9dev9000c.c:910`, `:1202`: the handler may set the count to 0 under a packet that is being
  written (`crossed`), after which a third packet is possible;
* a read of length 0 leaves the wait while the controller receives
  (`s3c2440_i2c_controller.c:217`): add 0 to `ReadLens` and `WaitCoversTransfer` fails;
* a signal makes the key driver's `read` return an old key value as a new one
  (`buttons.c:111`): this is why `NoRepeat` speaks of uninterrupted reads;
* `Isr_Tc` can use bit 15 in automatic mode when the timer function ran first
  (`touchscreen.c:69`); `ReleaseIsReal` shows that no false release reaches main;
* a failing copy gives the semaphore back twice (`memdev_poll.c:97`, `:149`): afterwards two
  processes may be inside, and without `faults[dev[p]] = 0`, `CopyWhole` fails; and a failed
  write still announces data (`:158`);
* a signalled reader of the memory device goes round its loop without sleeping and
  without leaving (`memdev_poll.c:87`);
* two keys that move within 10 ms share `irq_pd` and the timer (`buttons.c:62`): only the one
  that moved last is reported, and `Debounced` promises no more;
* a pen-up report that finds the mailbox full is dropped (`touchscreen.c:107`), and the
  calibration loop runs on into the next touch;
* the complement of the NEC address is computed and not compared (`irda_nec.c:116`, on
  purpose, as `:118` says): `DataIntact` speaks of the data byte.

## 6. Not modelled

Vendored code; drawing, fonts, console and string formatting; register set-up,
assembly start-up and MMU tables; polled sensors, flash commands and the boot loader (one
actor, timing only); drivers that mainly register with a kernel framework (LCD, NAND, NOR,
platform LEDs); variants of what is modelled (the Linux touchscreen and input-layer key
drivers, the simpler memory devices, the older bare-metal lessons); the timer callback
table, whose interrupt reads single words that nothing removes. `PROJECT.json` lists each
with its reason.

Inside modelled parts: calibration arithmetic in `double` (`tslib.c:103-203`); a file of
the memory device shared by processes; the `fasync` list of the key driver; data bytes not acknowledged by the
EEPROM; recording, the mixer and the codec of the sound driver, and two processes sharing
one open sound file; probing, ethtool, multicast and PHY access of the network driver, and
the steps inside its reset.

## 7. What is left

The safety properties are proved and so are the safety halves of the liveness properties named
in section 4. `GetReturns`, `EdgeIsRead` and `BackToHead` have no such half: each rests on the
fairness of a loop that makes progress by itself. What could be added is breadth: the parts of
section 6 whose state is shared between actors, the Linux touchscreen driver first.
