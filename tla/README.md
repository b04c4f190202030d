# Counter_Tech_IR_CPU: a TLA+ model of the counting board

The repository is the firmware of an STM32F103 board that counts small pieces
falling through twelve infrared beams. Twelve ADC channels are sampled by DMA;
one interrupt filters each block of samples and runs a step machine per channel;
several tasks of uC/OS-II serve Modbus masters on two serial ports, a console, a
set of inputs and the LEDs, and keep parameters in a flash page.

This directory models the parts that carry the program's own logic, checks them
with TLC on small instances and proves their central invariants with TLAPS for
every value of the constants.

## 1. Inventory

| Component | State | Operations | Interacts with |
|---|---|---|---|
| **Piece detector** (`AD_Sample/AD_Sample.c`, `HARDWARE/TIMER/timer.c`) | `g_counter.ch[]`: step, wave flags, baseline `std_v`, averaged baseline `old_std_v`, thresholds, count; `process_rdy`, `process_rdy_old`, `system_status`, totals | `DMA1_Channel1_IRQHandler`, `detect_ad_value_process`, `GET_STD_AD_V`, `TIM2_IRQHandler`, `re_calibration_detect`, `counter_data_clear` | started by `debug_task`, recalibrated and cleared by `io_task`; registers read and written by the Modbus task |
| **IR calibration** (`calibrate_IR`, `calibrate_IR_1`) | `view_IR_DA_value`, LED converter words | passes that step each LED until its channel is in range | shares the LED words and the pins of the AD8804 with the interrupt |
| **Sample filter** (`adj_pos_ad_value`) | DMA double buffer, moving sums | average of a block of samples | input of the detector |
| **Wave capture** (`debug_task`, `Detect_Buf`) | `dma_state`, `debug_msg` (one place) | interrupt fills the buffer, task streams it over uart1 | transmit interrupt of uart1, tty |
| **Serial links and Modbus task** (`driver/usart.c`, `user/main.c`, dispatch in `Protocol/ModbusRTU.c`) | receive and transmit DMA of each port, `modbusRTU_msg` (3 places), `cmd_msg` (1), `my_env.tty`, `HMI_RS485_TX_EN` | idle and transmit interrupts, `cmd_task`, `modbusRTU_msg_task`, end of `handle_task` | everything that talks to the board |
| **Register and coil handlers** (`Protocol/ModbusRTU.c`) | `Modbus_HoldReg[]`, `Modbus_OutputIO[]`, `RS485_tx_buf` | functions 1, 2, 3, 5, 6, 15, 16 | detector registers, parameter store, virtual inputs |
| **Parameter store** (`save_para`, `check_para_flag`, `driver/stm32flash.c`) | registers 30..99 and 512..543, `data_change_flag`, flash page with `para_flag` | save, load at start, defaults, page write | functions 6 and 16, reset command |
| **Virtual inputs** (`io_task`) | `virtual_input[]`, `io_msg` (32 places) | 10 ms filter, recalibrate, reset, clear | coil writes, detector, reset |
| **Console** (`Cmd/my_cmd.c`) | command table, receive buffer of uart1 | parse, run | tty, uart1 |
| **Registration** (`Cmd/MD5.c`, `check_reg_info`) | a flash page with a hash | compare | gates saving, loading and `io_task` |
| **AD8804 driver**, **LED and alarm**, peripheral drivers, logging | device registers | pure output | |
| **Kernel** (`UCOSII`) | vendored | queues, delays, priorities | |
| `Counter_system`, `Fill_bottle_system`, `FATFS`, `sdio_sdcard` | not listed in the project file, so not in the firmware | | |

### What is hard here

* **Interrupts against tasks.** The detector state is written by an interrupt every
  2 ms, by the 100 ms tick and by two tasks. Static variables of the interrupt survive
  a recalibration.
* **One queue for requests and completions.** `modbusRTU_msg` carries the requests of
  both ports and the completions of both transmissions, has three places, and drops
  what does not fit.
* **Mode by shared variable.** The completion interrupt of uart1 decides by
  `my_env.tty` who is told, and `cmd_task` changes it for every burst, telling a Modbus frame
  from console text by the bytes that have accumulated.
* **Unlocked sharing with the interrupt.** The capture buffer, the LED words, the pins of the
  AD8804 and the registers are read and written by tasks and the interrupt without a lock.
* **Two waits on a queue of one.** `debug_task` waits for a start and then for an end, and
  drops whatever else it finds, while the settings it reads may change at any time.
* **Stopped ports.** A port is stopped while a request is served; its idle interrupt
  stays pending; every path must re-arm it.
* **Crash in the middle of a save.** The page is erased and rewritten in place.
* **16-bit arithmetic** of thresholds, division by a sample count.
* **Liveness.** Calibration must end, the piece output must be released, a
  port must not stay deaf, the bus must be given back.

PROJECT.json lists each hazard at its line with the properties that cover it.

### What makes each component correct

* Detector: a finished baseline is complete; only a window of dim samples, or of none, puts a
  threshold out of reach, and a calibration brings it back; a piece counts once; the total
  covers the counts; a fault stays reported; a calibration ends; the output is released.
* Links: a port is stopped and the bus held only while it is served, and not for ever; a
  reply is driven to its end, and one master sees an exchange of requests and whole replies
  and is always answered, as long as nothing on uart1 is taken for a request.
* Store: the page is a whole record or a prefix of one; no programmed half-word is
  refused; what differs from the flash is owed a save, or was changed by the
  detector or the console since the last one.
* Virtual inputs: a request is neither lost nor taken without being done, whatever the
  queue drops and the filter discards; all are served once the host pauses.
* Capture: what is sent is one whole wave that no interrupt overwrites; an undisturbed
  capture ends; a disturbed one is released by the captures of the other mode.
* LED drive: the average is that of its buffer; a calibration ends with the LED driven as
  its register shows, and it does end once the interrupt leaves the word alone.
* Registers: a total is never read ahead of the count; a register being written never shows
  more than the value it is to have.

## 2. Modules

| Module | What it is |
|---|---|
| `PieceCounter` | abstract: a piece enters a beam, leaves it, is counted once |
| `Detector` | the detector; refines `PieceCounter` (`CountsPieces`) |
| `Detector_proofs` | its theorems |
| `MCDetector` | instances and the view for TLC |
| `RequestReply` | abstract: a request, one answer under which the bus is driven, the bus given back |
| `ModbusLink` | the two serial ports and the tasks that serve them; with one master and a patient console it refines `RequestReply` (`AnswersRequests`) |
| `ModbusLink_proofs` | its theorems |
| `ParamStore` | parameters, save, load, flash page |
| `ParamStore_proofs` | its theorems |
| `IoTask` | coil writes, the queue of `io_task` and its filter |
| `IoTask_proofs` | its theorems |
| `SavedParameters` | abstract: a memory that holds a record or a beginning of one; `ParamStore` refines it (`SavesParameters`) |
| `Capture`, `Capture_proofs` | the wave capture: interrupt, `debug_task`, transmission on uart1; its theorems |
| `LedDrive`, `LedDrive_proofs` | the loop through the light: calibrations, AD8804, moving average; its theorems |
| `Registers`, `Registers_proofs` | registers read and written byte by byte; its theorems |
| `SumFacts` | lemmas on sums over finite sets and sequences, for the proofs of `Detector` and `LedDrive` |
| `MCModbusLink`, `MCParamStore`, `MCIoTask`, `MCCapture`, `MCLedDrive`, `MCRegisters` | instances for TLC |

### Detector

State: one record per channel (`ch`, the fields of `s_chanel_info` the step machine uses),
`process_rdy` and its static copy `process_rdy_old`, the total, the status, and a program
counter for each task that recalibrates. `sampled` says that an interrupt ran since the
last tick; `samples`, `since`, `fault` and, of each channel, `dark` (the window it averages had
a sample below `STD_V_OFFSET`, or was skipped) are history.

| Action | Code |
|---|---|
| `DmaCalibrate`, `DmaDetect` | `DMA1_Channel1_IRQHandler` below and from `PROCESS_RDY` |
| `StartStep`, `WatchStep`, `TroughStep`, `RecoverStep` | steps 0, 6, 16, 31 of `detect_ad_value_process` |
| `Tick` | `TIM2_IRQHandler`; a tick needs an interrupt before it, as 50 come between two ticks |
| `RecalStart`, `CalPass`, `RecalReset` | `re_calibration_detect` up to its loop, one pass, its last critical section |
| `ClearCounts` | `counter_data_clear` |

The two interrupts share a preemption group, so each is one step. What a task does inside
`OS_ENTER_CRITICAL` is one step.

Abstractions: the filtered value of a channel is any member of `AdValue`; a pass of the
calibration may find a saturated LED and may need another pass; registers 42, 44 and 46
(`STD_V_OFFSET`, `WAVE_DOWN`, ...), which a host may rewrite while the board runs, are
constants, and so are not changed under a wave; host writes to the working registers of
the detector and the saved `std_v` are left out (the first calibration clears `std_v` before
anything reads it). A sample may be below `STD_V_OFFSET`, and a cycle longer than the averaging
window: both wrap a threshold, as in the code (`Rebase`, `Sub16`, `Udiv`). `WAVE_UP` is the same register as `WAVE_DOWN` in the code and here.

### ModbusLink

State: what each receive DMA holds (`buf`), whether the port listens (`on`) and has a
pending idle interrupt (`idle`), the queues, the places of `cmd_task` and
`modbusRTU_msg_task`, the tty, what each transmit DMA sends, the direction of the
transceiver, and the masters that wait (`asked`).

`cmd_task` takes what has accumulated on uart1 for console text if every byte before the last is
printable, and posts it as a request if not. `Content` keeps just that apart: printable
`text`, text that ends in a key that is not (`control` alone, `edited` behind text), a `line`,
and `other`, which has such a byte before its last: an arrow key, a line with CR LF, a key after
a backspace. `Joined` says what a burst on top of another makes. Between the count and the scan
the Modbus task may clear the buffer (`scanning` = "cleared"), so that zeros or later bytes are
scanned (`Looks`).

| Action | Code |
|---|---|
| `Arrive` (in `Ask`, `Overhear`, `Type`) | bytes, idle line, `USART1_IRQHandler` / `USART3_IRQHandler` |
| `Uart1Sent`, `Uart3Sent` | `DMA1_Channel4_IRQHandler`, `DMA1_Channel2_IRQHandler` |
| `CmdTake`, `CmdModbus`, `CmdText` | `cmd_task`: the count and the Ctrl-C, then its two branches after the scan of the buffer |
| `Type` | a burst of the console; without `TypeAhead` only once the last one is echoed or its command done |
| `ShellDone` | `handle_task` after a command |
| `StreamStart` | `debug_task` starting a transmission |
| `Serve`, `Refuse`, `DropDone`, `WaitMessage`, `WaitTimeout`, `RearmUart3` | `modbusRTU_msg_task` between two blocking calls |

Task priorities (Modbus 5, debug 6, cmd 7, handle 16) are guards: a lower task steps only
when the Modbus task is blocked (`ModbusBlocked`). Interrupts come anywhere.

Abstractions: a frame is a query, a request with an unknown function or something else;
the reply and its last character end together; the greeting `led1_task` sends at start-up,
uart2 and uart4 are left out. What is typed never starts with the board's address and is
shorter than 256 printable characters (behind those the scan never ends: its index is a byte).
A wait times out only if the reply it waits for is no longer
being sent: the longest reply takes 22 ms at 115200 baud and the wait is 20 ticks of 5 ms.

### RequestReply

`ModbusLink` maps what the master of uart3 sees to it: `exchange` is "replying" while its reply
is sent, else "asked" while the master waits, else "free"; `driving` is `tx_en`. `Ask` and
`GiveUp` are the master's, `Serve` of a query is `Answer`, `Uart3Sent` is `Complete`, the
re-arming that turns the transceiver round (`RearmUart3`) is `Release`; everything else the board
does stutters. A request
that the board refuses or drops, and one with an unknown function, ends in `GiveUp`.
With a second master, other stations, or keys on the console that are not printable the mapping
fails: `link_cut` is a `Release` during a reply.

### ParamStore

State: the cells behind the registers (`regs`; unmapped registers share
`Modbus_HoldReg_NULL`), `data_change_flag`, the registration, the flash page, and the
buffer and position of the write that runs. `stored`, `cut` and `behind` are history: the record
the page was last written with, whether a restart came before its last half-word, and the
registers that were changed since without the flag.

| Action | Code |
|---|---|
| `Fc06`, `Fc06Other`, `Fc16` | `Modbus_06_Handle`, `Modbus_16_Handle` |
| `Save`, `Done` | `save_para(1)` before and after the write |
| `BootUnregistered`, `BootLoad`, `BootDefaults` | `save_para(0)`, `check_para_flag` |
| `Erase`, `Program` | `STMFLASH_Write`, `STMFLASH_Write_NoCheck` |
| `Measure` | the interrupts and calibrations that write saved registers |
| `SetWatch` | the command `set watch` of the console, which writes saved register 47 |
| `Restart`, `Register` | power or `do_reset`; the tool that writes the registration |

Abstractions: an erase and a half-word are atomic once started; a request 16 writes one
value to its registers; the registers outside the record are one; the two `malloc` of
`save_para` never fail (they are the only ones, and freed); the board starts with interrupts
disabled, so nothing is measured while defaults are written; the registration page is
written while the board is off.

### IoTask

State: the virtual inputs considered, the number of messages in `io_msg`, where `io_task`
is (`io`: it pends, filters or adjusts), and the coil write the Modbus task is in
(`handler`, `todo`, `off`).

| Action | Code |
|---|---|
| `WriteCoils`, `WriteCoil`, `Reply` | `Modbus_05_Handle`, `Modbus_15_Handle`: the check, one pass of the loop, the answer |
| `RefuseCoils` | the address out of range; `modbus_analyze` posts all the same |
| `Post` | the posts of `modbus_analyze` (`Protocol/ModbusRTU.c:410` to `423`) |
| `Pend`, `Skip`, `Scan` | `io_task`: a message taken; a newer one behind it; the filter's end |
| `Adjusted`, `Restart` | `re_calibration_detect` returns and the pass goes on; `do_reset` |

`io_task` has priority 4 and the Modbus task 5, so a pass of `io_task` between two blocking
calls is one step, and the Modbus task steps only while `io_task` has nothing to take
(`IoRuns`).

Abstractions: a message is a unit of the count, as its value does not matter: the code
knows 0x55 (sample the external inputs) and 0xaa (a coil write), but nothing in the
repository posts 0x55, so the external inputs are never sampled. The registration is
constant between two starts. A calibration takes any time; what it does is in `Detector`
and `LedDrive`.

### SavedParameters

`ParamStore` maps its page to `saved`, the record it was last given to `record`, and to `state`
whether a half-word is still to be programmed and whether a restart came before the last. The
erase, or the step that finds the page erased already (`NeedsErase`), is `Replace`; a
programmed half-word is `Put`; a restart in a save is `Stop`; everything else stutters.

### Capture

State: of the watched channel its step, its `sample_index` and whether it has a
`sample_size`; `AD_buff`; `print`, `cir` and the tty; `dma_state`, `debug_msg`, where
`debug_task` is, and what the transmit DMA of uart1 sends. `whole` and `disturbed` are history:
whether what is stored is of one wave, and whether something came into the capture: a changed
setting, a completion that is not its own, or the end of a next wave before `debug_task` has
read the size of the first.

| Action | Code |
|---|---|
| `DmaInterrupt` | the interrupt from `PROCESS_RDY` on: `save_detect_data` (`Stores`, `IndexAfter`), the step machine (`Moves`, `Sampled`), the hand-over of a wave (`HandOver`) and of `AD_buff` (`Fills`) |
| `Recalibrate` | the critical section of `re_calibration_detect` |
| `PendStart`, `Stream`, `PendEnd`, `Release` | `debug_task` at and after its two waits |
| `Sent` | `DMA1_Channel4_IRQHandler` |
| `SetWatch`, `SetPrint`, `Trig`, `SetCir`, `SetTty`, `Reply` | host and console: the settings, `set trig`, `set run`, the tty, a reply on uart1 |

Abstractions: the steps last any number of samples; the values of samples are left out;
`set_watch_ch` is the identity of the one channel kept, so that a change of it puts any
other record in its place. `debug_task` may be as late as it likes: a request that saves parameters
erases and writes a flash page in the Modbus task above it, some 25 interrupts long.

What the model shows beyond its properties: a completion that the tty sends to the Modbus
task, one of a Modbus reply or a stream that is not this capture's, and a change of `print`,
the watch or a `trig` under way leave `debug_task`'s two waits out of step. A wave of a
channel without a `sample_size`, or one whose size the next wave has set back to 0 while
`debug_task` was late, starts the DMA with nothing to send: it never completes, and
uart1 sends nothing more, replies included. With `print` = 1 a lost completion leaves
`dma_state` at 1 and no wave is captured again; `TrigRecovers` says what frees it.

### LedDrive

State: the LED word of one channel (`led`), what the AD8804 holds (`dac`), the moving average
(`buff`, `sum`, `filtered`, the phase `rdy` of `process_rdy`), and for each of the two tasks
that calibrate the place in its pass, its step, the word it has loaded and whether its
transfer was cut.

| Action | Code |
|---|---|
| `Block` | a DMA interrupt: `AD_PRE_FITTER` (`Filter`) and the raise of a dark channel (`Raise`) |
| `Tick` | `TIM2_IRQHandler` |
| `Start` | `re_calibration_detect` up to its loop |
| `Test`, `Load`, `Store` | one channel of `calibrate_IR_1`: the comparison, and the word read again, changed and stored |
| `Send`, `Latch` | `send_IR_value`, `ad8804_write_ch` up to and at the rise of the chip select |
| `Reset` | the critical section of `re_calibration_detect` |

Two writers of the AD8804 share its pins. One that comes in (`Cuts`) is whole, since the
converter keeps the last twelve bits, and its chip select rises inside the transfer it cut,
the rest of which is not taken. Light is measured in steps of the LED, and a dead LED
(`alight`) gives none.

Observed while modelling: a calibration may end on an average that is passing through the
window, so that the beam need not be in range at the end, a property that TLC refutes and the
code does not promise; a decrement that races the raise of the interrupt can take the word to
65535, and an increment to 256, of which the converter takes eight bits (0 to 255).

### Registers

State: the registers as two bytes each, the handler that runs with its loop and the byte it
is at, the reply, and what a `|=` has loaded.

| Action | Code |
|---|---|
| `Accept`, `Answer` | the range check and the end of `Modbus_03_Handle`, `Modbus_06_Handle`, `Modbus_16_Handle` |
| `ReadByte` | the two loads of a register in `Modbus_03_Handle` |
| `WriteHigh`, `LoadLow`, `StoreLow` | `= hi << 8`, and the load and the store of `\|= lo` |
| `Count`, `Clear`, `Set` | the interrupt counting, `counter_data_clear`, the interrupt setting another register |

`NeverAhead` excludes a clear during the read and `WriteLands` another writer of the same
register (`meddled`). Without that they are false: a total may be torn by a clear, and `|=` on
the total may take back counts. A total read across a carry may be behind the count, never
ahead. The range check is the code's signed one, so a count of 0 passes.

## 3. Runs

| Run | States | Shows |
|---|---|---|
| `baseline` | one channel, three levels, one below the offset, two tasks; 752,701 states | baselines complete, thresholds lost only with a dark window and found again, faults kept, no double count |
| `counts` | two channels; 317,673 states | the refinement `CountsPieces`, the total covers the counts |
| `live` | one channel, fair; 457,770 states | a calibration ends, the output is released |
| `link_both` | two masters, a shared bus, a console used in any way; 1,300,418 states | no port stays deaf, the bus is released |
| `link_single` | one master, a patient console, streams; 468 states | the refinement `AnswersRequests`, it is answered |
| `link_cut` | one master, a terminal with arrow keys | **violation**: a reply is cut (section 5) |
| `link_unknown` | one master | **violation**: a served request is not answered (section 5) |
| `store` | two and two registers, one spare, one measured, one set by the console, one with a default; 105,446 states | page, flag and owed save under restarts; the refinement `SavesParameters` |
| `capture` | buffers of three and one, both modes; 167,292 states, fair | a capture sends one stable wave and ends; how a lost one is freed |
| `led` | five light levels, three taps, two tasks; 216,214 states, fair | the LED is driven as shown, the average is right, calibrations end |
| `registers` | three registers of two bytes of base 2; 322,608 states | totals never ahead, writes land |
| `io` | three requests, one other input, a queue of two; 16,163 states | no request is lost or taken unserved, all are served once the host pauses |

Bounds and why they suffice:

* *Channels.* Channels interact only through the total, so two show every interaction and
  one every step machine. The theorems cover any number.
* *Levels.* A dark beam, a shallow dip and a clear one: below the threshold, between it
  and the baseline, at the baseline. A value above it acts as the last. The dark one is below
  `STD_V_OFFSET`, so that its average wraps.
* *Calibration.* `PROCESS_RDY = 6`, `START_DATA = 2` leave three samples; every tick can
  meet a recalibration.
* *Cycle* 1 and 3 against `ADJ_PERIOD = 4`, `ADJ_WINDOW = 2`: an interrupt may fall on
  every point of the averaging window, jump over its edge, and skip it. `CYCLE_LIMIT` is as long
  as the longest, so that no `ADC_TIME_ERROR` is written, which `FaultKept` assumes.
* *MaxTotal* is the only bound that the model adds: it stops the detector from counting
  further. `OutputReleased` excludes states at that bound.
* *Messages.* `QueueLen = 3` is the code's. The queue fills with two masters, a shared bus
  and both completions. `link_both` types every kind of key, in any rhythm; `link_single` what
  the refinement allows.
* *Inputs.* The three the task acts on and one it ignores; a queue of two fills, as the 32
  places of the code do, while the task adjusts.
* *Page.* Seven half-words for a record of five leave a sector longer than its record, so
  both ways of writing happen. `Value` has the erased value, the flag's and the factory's.

* *Capture.* A buffer of three fits a wave of three interrupts and overflows with a longer one,
  so that both hand-overs and losses happen; `AD_buff` of one place posts with every sample,
  the shortest time between two messages.
* *LedDrive.* Five levels and a window of two put the light below, in and above it; three taps
  against delays of two blocks make the average lag behind a pass, as in the code (it follows
  in more blocks than a delay has). `WordMod` 10 keeps words beyond the converter's eight bits
  apart from those in range.
* *Registers.* Two registers of the total and one other; bytes of base 2 carry and fill up
  quickly, and the theorem has every base.

`MCDetector` checks safety under a `VIEW` that drops fields no step reads before writing
them (`low` outside step 16, the averages before the idle time is reached, and so on). It
drops no field that a checked property reads in a state where it matters: thresholds and
the baseline are kept wherever they are in force. The liveness run uses no view.

Deadlock checking is on in every run.

### Fairness

* Detector: the DMA and tick interrupts are periodic; `debug_task` calibrates unasked;
  a task in its calibration goes on, as nothing of a higher priority blocks for ever.
  No fairness is assumed for a host that asks for recalibrations.
* Links: transmissions end (DMA), a task that is ready runs, a master that got no reply
  retries. Nothing is assumed of the console, the streams or other stations.
* Inputs: both tasks run when they can, and a calibration ends. The last is an
  assumption: `calibrate_IR_1` loops until a pass changes no LED, which `LedDrive` shows of
  one LED once the interrupt writes no more (`CalibrationEnds`). Nothing is assumed of the host: `RequestsServed` says what happens once it
  pauses, as a stream of coil writes closer than 10 ms restarts the filter for ever.
* Capture: the converter interrupts for ever, `debug_task` runs when it is ready, and a
  transmission ends, except one with nothing to send.
* LedDrive: both interrupts are periodic. `io_task` goes on when it can; `debug_task`, of lower
  priority, runs in the delays of `io_task`, each of which is ten times as long as a pass: it is
  enabled again and again and not continuously, hence strong fairness.
* Store, registers: none.

## 4. Proofs

`Detector_proofs`, for any channels, calibration length and thresholds:

* The inductive invariant is `SystemType /\ ClockInv /\ ChannelsInv /\ CalibrationInv`.
  Types alone are not inductive: that no counter outgrows its threshold needs the phase of
  the step machine, and that a baseline is a converter value needs the number of samples it
  has. `CalibrationInv` ties the samples of every channel to `process_rdy` and
  `process_rdy_old`, which is why a static that no reset touches does no harm.
* `TypeCorrect`, `BaselineIsComplete`, `NeverCountedTwice` follow from it.
* `TotalCoversCounts` is about a sum over the channels, which the code never computes and the
  model takes with a fold. `SumFacts` makes it a number of items, `f[x]` of every `x`: that
  number satisfies the fold's equation, so the fold exists, and it is the only solution since
  the subsets of a finite set are well-founded. The channels that count in one interrupt are
  then so many more items at most, and the total grows by as many.
* `AdjustmentIsUnderWay` and `OutputFollowsWave` are what `CalibrationCompletes` and
  `OutputReleased` rest on besides fairness: the adjustment status never stands with nothing
  to end it, and an output is held only by a wave, or until the first interrupt after a restart.
* `DetectorCounts` is the refinement `Spec => CountsPieces`: a detecting interrupt maps to a
  `Pass`, in which the pieces of some channels arrive, those of others are counted, and
  channels begin again; the reset of a recalibration maps to `Abort`, `counter_data_clear` to
  `Clear`, and a calibrating interrupt, a tick and a pass of the LEDs to a stutter.
* `FaultIsKept` assumes that no cycle exceeds `CYCLE_LIMIT`: a late interrupt writes
  `ADC_TIME_ERROR` over the fault, and the end of the calibration then reports
  `RUNNING_OK`.
* `ThresholdsStayReachable` assumes nothing of beams or cycles. A window all of whose samples
  reach `STD_V_OFFSET` has an average that does (the sum is at least that many times the offset),
  a skipped one divides by zero, and a recalibration sends the channel back to step 0, which
  begins a new idle time before any window is taken over.

`ModbusLink_proofs`, for any length of the queue and any masters, bus, console and streams:

* The invariant is `TypeOK /\ HeldOnlyWhileServed /\ RearmsUart3`; from it
  `LinkTypeCorrect` and `NeverStoppedUnserved`.
* `SingleMasterReplies` assumes `Alone`: no master on uart1, no other station on uart3, and a
  console on which printable text and lines are typed, each after the echo of the last. Its
  invariant adds that uart1 only holds such text (`OnlyText`), so that `cmd_task` never takes it
  for a frame, and that the queue holds at most one message (`OneAtATime`), the request of a
  master that waits or the completion the task waits for. None of the three can be dropped: an
  arrow key (`link_cut`) or a request on uart1 ends the wait, and two overheard frames leave a
  second message that ends the next one.
* `SingleMasterServed` is the refinement `Spec => AnswersRequests` under the same assumption and
  invariant: the port of a master that waits or is free does not drive the bus, and only the
  end of a wait whose reply is sent turns it round.
* `GivenUpIsReady`, also under `Alone`: a master that may give up finds uart3 listening to an
  empty buffer on a free bus. It needs `Announced`: what a listening port holds is on its way
  to the task, or the task is about to clear it.

`ParamStore_proofs`, for any size of the record and of the sector:

* The invariant describes a save that was started: the flag in the buffer, an erased
  page behind the position, and the written beginning. From it `StoreTypeCorrect`,
  `ProgramsOnlyErased`, `RecordIsWhole`, `PageIsARecord`, `FlagComesFirst`,
  `DifferenceIsOwed`. The last leaves out the registers in `behind`: a baseline measured or a
  `set watch` typed since the last record is in no save that is owed.
* `StoreImplements` is the refinement `Spec => SavesParameters`. It rests on the invariant for
  one thing: a page that is not erased before a save must look erased, so that the first
  step of either kind leaves the empty beginning of the new record.

`IoTask_proofs`, for any queue and any inputs:

* The invariant is `TypeOK /\ NoLostWakeup`, inductive as it stands: a message may be dropped
  or discarded only when another one or a running filter is left behind it. From it
  `IoTypeCorrect`, `WakeupsKept` and `TakenIsServed`.

`Capture_proofs`, for any size of the buffers, any modes and however late `debug_task` runs:

* The types are inductive by themselves; the other two properties need, of a capture that
  nobody disturbed, the order of the messages (`Ordered`), that every send is behind
  `dma_state` or `buffer_en` (`Guarded`), that the size of a wave that waits for `debug_task`
  still stands (`Waiting`), and that the samples so far are of one wave (`Growing`). From it
  `CaptureTypeCorrect`, `SentWhole`, `SentStable`.
* `CaptureAdvances` counts how far an undisturbed capture is from its end (`Stage`): it is always
  in one of five stages, no step takes it back, and each step of `debug_task` or of the
  transmission leads on. With fairness that is `CaptureEnds`.

`LedDrive_proofs`, for any words, window, taps and cadence:

* `TypeCorrect` and `SumIsOfBuffer` are about the moving average: the sum is that of the buffer
  from the first block of its second phase on (`Summed`), so that it neither leaves its range
  nor goes below zero when the oldest value is taken off. The sum is again counted as items
  (`SumFacts`), which a shift of the buffer moves by one place.
* `ShownIsDriven` needs the types of the drive (`DriveTypeCorrect`), the bookkeeping of a pass
  (`Passes`), and, while the interrupt did not write in a transfer, what the priorities give
  (`Preempts`): io_task's transfer is never cut by debug_task and holds the word it will send,
  and a cut of debug_task's is followed by a transfer of its own or by io_task's.

`Registers_proofs`, for any base and any number of registers:

* A word is never compared as a number but byte by byte, as the code moves it. The invariant
  says of every byte already copied how it stands to the count (`Copied`), that without a
  carry the higher bytes are unchanged (`Uncarried`), and of a register in the making that its low byte
  is 0 (`Writes`). From it `RegistersTypeCorrect`, `TotalNeverAhead`, `WritesLand`.

Only model-checked: all liveness (`CalibrationCompletes`, `OutputReleased`, `NeverDeaf`,
`BusReleased`, `Answered`, `RequestsServed`, `CaptureEnds`, `TrigRecovers`, `CalibrationEnds`),
which is out of the prover's reach. Every other property that a passing run checks is a theorem.
The proofs assume only the named assumptions of the modules and what the theorems above name
(`Alone`, no cycle above `CYCLE_LIMIT`).

## 5. Findings

* **A reply is cut** (`link_cut`). `modbusRTU_msg_task` takes any message as the end of its
  wait for the completion (`user/main.c:240`). A message for uart1 during a reply on uart3
  makes it turn the transceiver to receive under the DMA. One master is enough: `cmd_task` posts
  that message for console keys too, whenever a byte before the last is not printable
  (`user/main.c:268` to `302`), as an arrow key, CR LF, a key after a backspace and keys typed
  ahead all have. With a second master on uart1 it is a request, and lost.
* **An unknown function gets no answer** (`link_unknown`). `modbus_analyze` builds the
  exception while `modbus_ch` is 0, so `RS485_SendData` starts no DMA
  (`Protocol/ModbusRTU.c:452`); the port stays stopped for the 100 ms of the wait.

With both masters `Answered` is false as well: each can lose the other's request for ever.

## 6. Not modelled

The components marked `not_modelled` in PROJECT.json, with their reasons. Much the larger part
of the repository is not the program: `FATFS`, `sdio_sdcard`, `Counter_system` and
`Fill_bottle_system` are not in the project file of the firmware, `UCOSII`, `RTE` and the
peripheral drivers are vendored or set registers once, `Cmd/MD5.c` is a fixed hash, and the
console is text processing. Their lines are most of the repository's, so that the part of
all lines that is modelled is small while that of the board's own logic is not.

Of the modelled components:

* Detector: `adj_pos_ad_value`, the `ad_min`/`ad_max` monitors, host writes to the detector's
  own registers and to its parameters during a wave.
* Links: the bytes of frames and replies, the shared `RS485_tx_buf`, a receive buffer that
  runs full, and the microseconds between a DMA's completion and its last character.
* LedDrive: host writes to the LED registers (524 to 535), `ir_sub`, the values in `AD_buff`.
* Registers: counts of 126 registers or more, for which the reply has no room; from 256 on the
  loop counter of a byte never reaches the count.

## 7. Plan

Done, in this order: `Detector` with `PieceCounter`, `ModbusLink`, `ParamStore` with
`SavedParameters`, `IoTask`, `Capture`, `LedDrive`, `Registers`, their runs and proofs,
`RequestReply`, and all three refinements as theorems.

What could be added next:

* `Capture` composed with the tty and the tasks of `ModbusLink`, so that the exact bursts that
  disturb a capture become part of the model instead of `SetTty` and `Reply`.
* Host writes to the LED registers in `LedDrive`, and to the thresholds in `Detector`.
* The reception of a burst longer than the buffer of a port.
