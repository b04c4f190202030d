------------------------------ MODULE Detector ------------------------------
(***************************************************************************)
(* The pill detector of AD_Sample/AD_Sample.c: the DMA interrupt that      *)
(* filters one block of samples and runs the step machine of every         *)
(* channel, the 100 ms tick of TIM2 that times the calibration, and the    *)
(* tasks that recalibrate (debug_task at start-up, io_task on a host       *)
(* command) or clear the counts while the interrupts keep running.         *)
(*                                                                         *)
(* The DMA and TIM2 interrupts share a preemption group, so neither        *)
(* interrupts the other: each is one action.  The tasks touch the shared   *)
(* state inside critical sections, which are one action too; between them  *)
(* the interrupts run.                                                     *)
(*                                                                         *)
(* Abstracted: the moving average (a filtered value is any AdValue), the   *)
(* LED drive of calibrate_IR (a pass may find a saturated channel and may  *)
(* need another pass), the ad_min/ad_max monitors, the wave capture.       *)
(***************************************************************************)
EXTENDS Integers, FiniteSets, FiniteSetsExt

CONSTANTS
  Channel,       \* the detector channels (0..11 in the code)
  Calibrator,    \* the tasks that call re_calibration_detect
  BootTask,      \* the one that does so when it starts (debug_task)
  PROCESS_RDY,   \* 100 ms ticks of a calibration (15)
  START_DATA,    \* ticks ignored before sampling starts (5)
  AD_MAX_V,      \* greater than every filtered value (4096 * 8)
  AdValue,       \* the filtered values the beam can produce
  STD_V_OFFSET,  \* depth below the baseline that starts a wave
  WAVE_DOWN,     \* samples that confirm a wave; WAVE_UP is the same register
  BootWaveUp,    \* the values wave_up_value may be loaded with at start-up
  ADJ_PERIOD,    \* idle time before the baseline is averaged again
  ADJ_WINDOW,    \* length of that averaging window
  Cycle,         \* the values dma_irq_cycle may take
  CYCLE_LIMIT,   \* longest cycle the interrupt tolerates (2100 us)
  Saturation,    \* whether a calibration pass may find a LED at its limit
  MaxTotal       \* bound of the model on total_count_sum

U16 == 65536
WAVE_UP == WAVE_DOWN
NO_MIN  == AD_MAX_V    \* stands for 0xFFFF too: no sample is above either
Shares  == PROCESS_RDY - START_DATA - 1    \* samples that make a baseline

ASSUME CalibrationAssumption ==
  /\ START_DATA \in Nat \ {0}
  /\ PROCESS_RDY \in Nat
  /\ START_DATA + 1 < PROCESS_RDY

ASSUME SampleAssumption ==
  /\ AD_MAX_V \in 1 .. U16 \div 2
  /\ AdValue \subseteq 0 .. AD_MAX_V - 1
  /\ STD_V_OFFSET \in 0 .. U16 - 1
  /\ WAVE_DOWN \in Nat
  /\ BootWaveUp \subseteq Nat

ASSUME TimingAssumption ==
  /\ ADJ_PERIOD \in Nat \ {0}
  /\ ADJ_WINDOW \in Nat
  /\ ADJ_WINDOW <= ADJ_PERIOD
  /\ Cycle \subseteq 1 .. ADJ_PERIOD - 1   \* a 16-bit count against 200000
  /\ CYCLE_LIMIT \in Nat

ASSUME SystemAssumption ==
  /\ IsFiniteSet(Channel)
  /\ BootTask \in Calibrator
  /\ Saturation \subseteq BOOLEAN
  /\ MaxTotal \in Nat

VARIABLES
  process_rdy,      \* calibration clock; PROCESS_RDY or more: detecting
  process_rdy_old,  \* its value at the previous sampling interrupt
  sampled,          \* an interrupt has run since the last 100 ms tick
  ch,               \* g_counter.ch: one record per channel
  wave_up_value,    \* g_counter.set_wave_up_value
  total,            \* g_counter.total_count_sum
  status,           \* g_counter.system_status
  fault,            \* history: the calibration found a saturated channel
  pc                \* where each calibrating task is

vars == <<process_rdy, process_rdy_old, sampled, ch, wave_up_value, total,
          status, fault, pc>>

Status == {"RUNNING_OK", "IR_ADJ", "ADC_TIME_ERROR", "DETECTOR_ERROR"}

(***************************************************************************)
(* A channel: s_chanel_info.  "samples", "since" and "dark" are history:   *)
(* the shares added to std_v since the last reset, the interrupts since    *)
(* the last piece was counted (saturating at PieceTime), and whether the   *)
(* averaging window had a sample dimmer than a wave is deep, or none.      *)
(***************************************************************************)
PieceTime == WAVE_DOWN + 1 + 2 * (WAVE_UP + 1)

ChannelState ==
  [step : {0, 6, 16, 31},
   down : 0 .. WAVE_DOWN,
   up : 0 .. WAVE_UP,
   low : 0 .. U16 - 1,
   idle : Nat,
   oldSum : Nat,
   oldIdx : Nat,
   stdV : 0 .. AD_MAX_V - 1,
   stdUp : 0 .. U16 - 1,
   stdDown : 0 .. U16 - 1,
   pieceIn : {0, 1},
   count : Nat,
   state : {"CH_IDLE", "CH_BUSY", "CH_DATA_RDY"},
   samples : Nat,
   since : 0 .. PieceTime,
   dark : BOOLEAN]

\* g_counter at start-up.  The saved std_v is loaded over its zero, but nothing reads
\* it before the first calibration clears it.
BootChannel ==
  [step |-> 0, down |-> 0, up |-> 0, low |-> 0, idle |-> 0, oldSum |-> 0,
   oldIdx |-> 0, stdV |-> 0, stdUp |-> 0, stdDown |-> 0, pieceIn |-> 0,
   count |-> 0, state |-> "CH_IDLE", samples |-> 0, since |-> PieceTime,
   dark |-> FALSE]

Init ==
  /\ process_rdy = PROCESS_RDY + PROCESS_RDY
  /\ process_rdy_old = 0
  /\ sampled = FALSE
  /\ ch = [c \in Channel |-> BootChannel]
  /\ wave_up_value \in BootWaveUp
  /\ total = 0
  /\ status = "RUNNING_OK"
  /\ fault = FALSE
  /\ pc = [t \in Calibrator |-> IF t = BootTask THEN "boot" ELSE "idle"]

-----------------------------------------------------------------------------
(* The step machine: detect_ad_value_process.                              *)

Lower(a, b) == IF a < b THEN a ELSE b
Sub16(a, b) == (a - b) % U16
\* UDIV of the Cortex-M3: a zero divisor gives zero.
Udiv(a, b) == IF b = 0 THEN 0 ELSE a \div b

\* Plausible bug: the restart forgets the piece output.
StartStepStaleOutput(c) ==
  [c EXCEPT !.step = 6, !.down = 0, !.up = 0, !.low = NO_MIN, !.count = 0,
            !.state = "CH_IDLE"]

StartStep(c) ==
  [c EXCEPT !.step = 6, !.down = 0, !.up = 0, !.low = NO_MIN, !.count = 0,
            !.pieceIn = 1, !.state = "CH_IDLE"]

\* Plausible bug: the counter is compared before it is incremented.
DipLate(c, ad) ==
  LET d == [c EXCEPT !.idle = 0, !.state = "CH_BUSY"]
  IN IF c.down > WAVE_DOWN
     THEN [d EXCEPT !.pieceIn = 0, !.down = 0, !.low = ad, !.step = 16]
     ELSE [d EXCEPT !.down = @ + 1, !.low = Lower(@, ad)]

\* The beam is below the threshold: a wave may be starting.
Dip(c, ad) ==
  LET d == [c EXCEPT !.idle = 0, !.state = "CH_BUSY"]
  IN IF c.down + 1 > WAVE_DOWN
     THEN [d EXCEPT !.pieceIn = 0, !.down = 0, !.low = ad, !.step = 16]
     ELSE [d EXCEPT !.down = @ + 1, !.low = Lower(@, ad)]

\* Twice the period without a piece: the averaged baseline is taken over.
Rebase(c) ==
  LET v == Udiv(c.oldSum, c.oldIdx)
  IN [c EXCEPT !.idle = 0, !.stdV = v, !.stdUp = Sub16(v, STD_V_OFFSET),
               !.stdDown = Sub16(v, STD_V_OFFSET)]

\* History: the window has had a dim sample, or was passed over in one interrupt.
DarkAfter(c, ad, t) ==
  /\ t >= ADJ_PERIOD
  /\ \/ c.idle >= ADJ_PERIOD /\ c.dark
     \/ t < ADJ_PERIOD + ADJ_WINDOW /\ ad < STD_V_OFFSET
     \/ t >= ADJ_PERIOD + ADJ_WINDOW /\ c.idle < ADJ_PERIOD

Quiet(c, ad, cycle) ==
  LET t == c.idle + cycle
      q == [c EXCEPT !.idle = t, !.down = 0, !.state = "CH_IDLE",
                     !.low = NO_MIN, !.dark = DarkAfter(c, ad, t)]
  IN CASE t < ADJ_PERIOD -> [q EXCEPT !.oldSum = 0, !.oldIdx = 0]
       [] t >= ADJ_PERIOD /\ t < ADJ_PERIOD + ADJ_WINDOW ->
            [q EXCEPT !.oldSum = @ + ad, !.oldIdx = @ + 1]
       [] t > 2 * ADJ_PERIOD -> Rebase(q)
       [] OTHER -> q

WatchStep(c, ad, cycle) ==
  IF ad < c.stdDown THEN Dip(c, ad) ELSE Quiet(c, ad, cycle)

\* Plausible bug: wave_up_flag is not cleared between the two rising phases.
TroughStepKeepsUp(c, ad, rise) ==
  LET up == IF ad > c.low + rise THEN c.up + 1 ELSE 0
  IN IF up > WAVE_UP
     THEN [c EXCEPT !.low = NO_MIN, !.step = 31]
     ELSE [c EXCEPT !.low = Lower(@, ad), !.up = up]

\* Counting samples that climb out of the trough.
TroughStep(c, ad, rise) ==
  LET up == IF ad > c.low + rise THEN c.up + 1 ELSE 0
  IN IF up > WAVE_UP
     THEN [c EXCEPT !.low = NO_MIN, !.up = 0, !.step = 31]
     ELSE [c EXCEPT !.low = Lower(@, ad), !.up = up]

Recovered(c, ad) == c.step = 31 /\ ad >= c.stdUp /\ c.up + 1 > WAVE_UP

RecoverStep(c, ad) ==
  IF Recovered(c, ad)
  THEN [c EXCEPT !.step = 6, !.state = "CH_DATA_RDY", !.up = 0,
                 !.pieceIn = 1, !.count = @ + 1]
  ELSE [c EXCEPT !.up = IF ad >= c.stdUp THEN @ + 1 ELSE 0]

Detect(c, ad, cycle, rise) ==
  LET d == CASE c.step = 0  -> StartStep(c)
             [] c.step = 6  -> WatchStep(c, ad, cycle)
             [] c.step = 16 -> TroughStep(c, ad, rise)
             [] c.step = 31 -> RecoverStep(c, ad)
  IN [d EXCEPT !.since = IF Recovered(c, ad) THEN 0
                         ELSE Lower(@ + 1, PieceTime)]

-----------------------------------------------------------------------------
(* The interrupts.                                                         *)

\* Plausible bug: sampling starts one tick early.
SamplingEarly == process_rdy >= START_DATA /\ process_rdy # process_rdy_old

\* GET_STD_AD_V: a share of the sample is added once per tick.
Sampling == process_rdy > START_DATA /\ process_rdy # process_rdy_old

AddShare(c, ad) ==
  IF Sampling
  THEN [c EXCEPT !.stdV = @ + (ad \div Shares), !.samples = @ + 1]
  ELSE c

SetThresholds(c) ==
  LET v == IF c.stdV > STD_V_OFFSET THEN c.stdV - STD_V_OFFSET ELSE c.stdV
  IN [c EXCEPT !.stdUp = v, !.stdDown = v]

\* Plausible bugs: the end of a calibration hides an error, or is not reported.
CalibratedStatusAlways == "RUNNING_OK"
CalibratedStatusNever == status

\* The end of a calibration reports it, unless a detector is saturated.
CalibratedStatus ==
  IF status = "DETECTOR_ERROR" THEN status ELSE "RUNNING_OK"

TimeError(cycle) == cycle > CYCLE_LIMIT /\ process_rdy = PROCESS_RDY

\* DMA1_Channel1_IRQHandler while the baseline is being measured.
DmaCalibrate ==
  /\ process_rdy < PROCESS_RDY
  /\ sampled' = TRUE
  /\ \E ad \in [Channel -> AdValue] :
       /\ IF process_rdy + 1 = PROCESS_RDY
          THEN /\ ch' = [c \in Channel |-> SetThresholds(AddShare(ch[c], ad[c]))]
               /\ wave_up_value' = STD_V_OFFSET \div 2
               /\ process_rdy' = PROCESS_RDY
               /\ status' = CalibratedStatus
               /\ UNCHANGED process_rdy_old
          ELSE /\ ch' = [c \in Channel |-> AddShare(ch[c], ad[c])]
               /\ process_rdy_old' = process_rdy
               /\ UNCHANGED <<process_rdy, status, wave_up_value>>
  /\ UNCHANGED <<total, fault, pc>>

\* Plausible bug: the total grows by one whenever some channel counts.
CountedOnce(ad) == {1 : c \in {d \in Channel : Recovered(ch[d], ad[d])}}

Counted(ad) == {c \in Channel : Recovered(ch[c], ad[c])}

\* The same handler once the baseline is ready (and at start-up before the
\* first calibration, when process_rdy is still twice PROCESS_RDY).
DetectOn(ad, cycle) ==
  /\ process_rdy >= PROCESS_RDY
  /\ total + Cardinality(Counted(ad)) <= MaxTotal
  /\ sampled' = TRUE
  /\ ch' = [c \in Channel |-> Detect(ch[c], ad[c], cycle, wave_up_value)]
  /\ total' = total + Cardinality(Counted(ad))
  /\ status' = IF TimeError(cycle) THEN "ADC_TIME_ERROR" ELSE status
  /\ UNCHANGED <<process_rdy, process_rdy_old, wave_up_value, fault, pc>>

DmaDetect ==
  \E ad \in [Channel -> AdValue], cycle \in Cycle : DetectOn(ad, cycle)

\* TIM2_IRQHandler, once every 100 ms.  The DMA interrupt comes every 2 ms, so
\* it runs between any two ticks.
Tick ==
  /\ sampled
  /\ process_rdy < PROCESS_RDY - 1
  /\ process_rdy' = process_rdy + 1
  /\ sampled' = FALSE
  /\ UNCHANGED <<process_rdy_old, ch, wave_up_value, total,
                 status, fault, pc>>

-----------------------------------------------------------------------------
(* The tasks.                                                              *)

\* re_calibration_detect up to the loop of calibrate_IR.
RecalStart(t) ==
  /\ pc[t] \in {"boot", "idle"}
  /\ pc' = [pc EXCEPT ![t] = "adjust"]
  /\ status' = "IR_ADJ"
  /\ fault' = FALSE
  /\ UNCHANGED <<process_rdy, process_rdy_old, sampled, ch,
                 wave_up_value, total>>

\* One pass of calibrate_IR_1: a channel whose LED is at its limit is an error;
\* the loop ends with the first pass that changes no LED.
CalPass(t) ==
  /\ pc[t] = "adjust"
  /\ \E saturated \in Saturation, updated \in BOOLEAN :
       /\ status' = IF saturated THEN "DETECTOR_ERROR" ELSE status
       /\ fault' = (fault \/ saturated)
       /\ pc' = [pc EXCEPT ![t] = IF updated THEN "adjust" ELSE "reset"]
  /\ UNCHANGED <<process_rdy, process_rdy_old, sampled, ch,
                 wave_up_value, total>>

\* Plausible bug: a reset that clears the average but not the idle time.
ResetChannelAverage(c) ==
  [c EXCEPT !.step = 0, !.stdV = 0, !.stdDown = 0, !.samples = 0,
            !.oldSum = 0, !.oldIdx = 0]

ResetChannel(c) ==
  [c EXCEPT !.step = 0, !.stdV = 0, !.stdDown = 0, !.samples = 0]

\* The critical section that ends re_calibration_detect.
RecalReset(t) ==
  /\ pc[t] = "reset"
  /\ ch' = [c \in Channel |-> ResetChannel(ch[c])]
  /\ process_rdy' = 0
  /\ pc' = [pc EXCEPT ![t] = IF t = BootTask THEN "done" ELSE "idle"]
  /\ UNCHANGED <<process_rdy_old, sampled, wave_up_value, total,
                 status, fault>>

\* Plausible bug: only the total is cleared.
ClearChannelKept(c) == c

ClearChannel(c) == [c EXCEPT !.count = 0]

\* counter_data_clear, by io_task between two commands.
ClearCounts(t) ==
  /\ pc[t] = "idle"
  /\ ch' = [c \in Channel |-> ClearChannel(ch[c])]
  /\ total' = 0
  /\ UNCHANGED <<process_rdy, process_rdy_old, sampled, 
                 wave_up_value, status, fault, pc>>

Next ==
  \/ DmaCalibrate
  \/ DmaDetect
  \/ Tick
  \/ \E t \in Calibrator :
       RecalStart(t) \/ CalPass(t) \/ RecalReset(t) \/ ClearCounts(t)

Spec == Init /\ [][Next]_vars

\* The interrupts and ticks never stop, and a task that was started runs; io_task
\* need not be asked to recalibrate, debug_task does so unasked.
Fairness ==
  /\ WF_vars(DmaCalibrate)
  /\ WF_vars(DmaDetect)
  /\ WF_vars(Tick)
  /\ WF_vars(pc[BootTask] = "boot" /\ RecalStart(BootTask))
  /\ \A t \in Calibrator : WF_vars(CalPass(t)) /\ WF_vars(RecalReset(t))

FairSpec == Spec /\ Fairness

-----------------------------------------------------------------------------
(* Properties.                                                             *)

\* The types of the variables.
TypeOK ==
  /\ process_rdy \in 0 .. PROCESS_RDY \cup {PROCESS_RDY + PROCESS_RDY}
  /\ process_rdy_old \in 0 .. PROCESS_RDY
  /\ sampled \in BOOLEAN
  /\ ch \in [Channel -> ChannelState]
  /\ wave_up_value \in Nat
  /\ total \in Nat
  /\ status \in Status
  /\ fault \in BOOLEAN
  /\ pc \in [Calibrator -> {"boot", "idle", "adjust", "reset", "done"}]

\* A calibration that ends has added exactly Shares samples, one per tick, to the
\* baseline of every channel, whatever calibrations were cut short before it and
\* whenever the ticks fell between the interrupts (GET_STD_AD_V compares
\* process_rdy with a static that no reset touches).
BaselineComplete ==
  process_rdy = PROCESS_RDY => \A c \in Channel : ch[c].samples = Shares

\* No sample reaches the threshold a wave has to return to.
OutOfReach(c) == c.stdUp >= AD_MAX_V

\* The baseline a channel averages for itself, whose quotient and difference
\* detect_ad_value_process does not guard, puts its thresholds out of reach only when
\* its window was dark.  No recalibration that falls into or behind the window does, for
\* the average outlives it, and the end of a calibration brings the thresholds back.
ThresholdsReachable ==
  [][\A c \in Channel : OutOfReach(ch'[c])
       => /\ OutOfReach(ch[c]) \/ ch[c].dark
          /\ process_rdy' = PROCESS_RDY => process_rdy = PROCESS_RDY]_vars

\* One piece is never counted twice: between two counts of a channel the
\* confirmations of the falling edge, of the rising edge and of the return to
\* the baseline have all been sampled again.
NoDoubleCount ==
  [][\A c \in Channel :
       ch'[c].count > ch[c].count => ch[c].since >= PieceTime - 1]_vars

\* No piece of the total is lost when several channels complete one in the same
\* interrupt or while the counts are cleared or a calibration restarts them.
CountsCovered ==
  MapThenSumSet(LAMBDA c : ch[c].count, Channel) <= total

\* A saturated detector found by calibration is never reported as running well:
\* the end of the calibration does not replace the error.
FaultKept == fault => status # "RUNNING_OK"

\* The detector counts pieces the way a counting board promises to.
Pieces == INSTANCE PieceCounter WITH
            present <- {c \in Channel : ch[c].step \in {16, 31}},
            count <- [c \in Channel |-> ch[c].count]
CountsPieces == Pieces!Spec

NoneCalibrating == \A t \in Calibrator : pc[t] \in {"idle", "done"}

\* When the recalibrations stop, the board ends up detecting, on a complete
\* baseline and out of the adjustment status.
CalibrationCompletes ==
  <>[]NoneCalibrating
    => <>[](process_rdy = PROCESS_RDY /\ status # "IR_ADJ")

\* A detecting interrupt that finds every beam at or above its baseline.
ClearInterrupt ==
  \E ad \in [Channel -> AdValue], cycle \in Cycle :
    (\A c \in Channel : ad[c] >= ch[c].stdV) /\ DetectOn(ad, cycle)

\* When the recalibrations stop and every beam stays at its baseline, no piece
\* output stays active: neither a cut-off passage nor a shallow one holds it, unless
\* the channel took over a dark baseline, which holds it for ever.
\* (At MaxTotal the model has no room to count, so it is left out.)
OutputReleased ==
  <>[](NoneCalibrating /\ total < MaxTotal) /\ <>[][DmaDetect => ClearInterrupt]_vars
    => <>[](\A c \in Channel : ch[c].pieceIn = 1 \/ OutOfReach(ch[c]))
=============================================================================
