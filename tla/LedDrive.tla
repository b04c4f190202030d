------------------------------- MODULE LedDrive -------------------------------
(***************************************************************************)
(* The loop through the light of one channel: calibrate_IR_1 steps the     *)
(* word of its LED, the AD8804 turns the word into light, the converter    *)
(* and the moving average of AD_PRE_FITTER turn the light into the value   *)
(* that the next pass of calibrate_IR_1 looks at.  debug_task calibrates   *)
(* at start-up and io_task on request, at the same time if need be, and    *)
(* the interrupt raises the LED of a channel that is too dark while no     *)
(* piece falls.                                                            *)
(*                                                                         *)
(* None of the three excludes the others from the word or from the pins of *)
(* the AD8804.  A write is cut when another one raises its chip select:    *)
(* the other word is whole, as the converter takes the last twelve bits,   *)
(* and the rest of the cut one is shifted unselected.                      *)
(*                                                                         *)
(* Light is measured in steps of an LED that works, and a dead one gives   *)
(* none.  The other channels are there only to cut writes, and the status  *)
(* DETECTOR_ERROR of an LED at its limit is a matter of Detector.          *)
(***************************************************************************)
EXTENDS Integers, SequencesExt

CONSTANTS
  LedMax,    \* 255, the largest word of the AD8804
  WordMod,   \* 2^16: view_IR_DA_value is a half-word
  Low, High, \* STD_REF_VALUE_L, STD_REF_VALUE_H
  Taps,      \* AD_FITTER_BUFF_SIZE
  Blocks,    \* the blocks of samples in a delay_ms(10), at least: 5 ms of 2 ms each
  Idle       \* bound: the blocks between two writes of the interrupt, at least

ASSUME LedAssumption ==
  /\ LedMax \in Nat \ {0} /\ WordMod \in Nat /\ WordMod > LedMax + 1
  /\ Low \in 1..LedMax /\ High \in Low..LedMax
  /\ Taps \in Nat \ {0} /\ Blocks \in Nat \ {0, 1} /\ Idle \in Nat \ {0}

Task == {"debug", "io"}
Word == 0..(WordMod - 1)

VARIABLES
  led,       \* view_IR_DA_value
  dac,       \* the word the AD8804 holds
  alight,    \* whether the LED gives light
  buff,      \* ad_fitter_buff, the oldest value first
  sum,       \* ad_averaged_value
  filtered,  \* After_filter
  rdy,       \* process_rdy: 0 below START_DATA, 1 there, 2 above
  fed,       \* bound: a block came since the last tick
  quiet,     \* bound: blocks since the interrupt wrote, like ch_idle_time
  at,        \* where each task is in calibrate_IR_1
  step,      \* what it is to do with the word in this pass, 0 between passes
  got,       \* the word it has loaded, 0 when it has none
  cut,       \* its transfer has been cut
  waited,    \* bound: blocks since its pass ended, or began
  touched    \* history: the interrupt wrote during the last transfer of a task

filter == <<buff, sum, filtered, rdy, fed, quiet>>
vars == <<led, dac, alight, buff, sum, filtered, rdy, fed, quiet, at, step,
          got, cut, waited, touched>>

Total(s) == FoldSeq(LAMBDA x, y : x + y, 0, s)

Init ==
  /\ led \in 0..LedMax /\ dac = 0 /\ alight \in BOOLEAN
  /\ buff = [i \in 1..Taps |-> 0] /\ sum = 0 /\ filtered = 0
  /\ rdy = 2 /\ fed = FALSE /\ quiet = 0
  /\ at = [t \in Task |-> IF t = "debug" THEN "delay" ELSE "off"]
  /\ step = [t \in Task |-> 0] /\ got = [t \in Task |-> 0]
  /\ cut = [t \in Task |-> FALSE] /\ waited = [t \in Task |-> 0]
  /\ touched = FALSE

-----------------------------------------------------------------------------
(* The converters.                                                         *)

\* Plausible bug: the word goes out as it is.
ToDacWord(w) == w

\* The AD8804 takes eight bits of the word.
ToDac(w) == w % (LedMax + 1)

Light == IF alight THEN dac ELSE 0

\* A write of the pins cuts what a task is shifting out, unless that has not yet
\* selected the chip.
Cuts(c) ==
  /\ c \in [Task -> BOOLEAN]
  /\ \A t \in Task : (cut[t] => c[t]) /\ (c[t] => at[t] = "shift")

\* A pass takes less than a millisecond, so at most one block comes while it runs.
InPass(t) == at[t] \notin {"off", "delay"}

Shifting == \E t \in Task : at[t] = "shift"

-----------------------------------------------------------------------------
(* The interrupt.                                                          *)

\* Plausible bug: the sum is started one phase too early.
FilterEarly(v) ==
  /\ buff' = Append(Tail(buff), v)
  /\ sum' = CASE rdy = 2 -> sum + v - Head(buff)
              [] rdy = 1 -> sum
              [] rdy = 0 -> Total(buff')
  /\ filtered' = IF rdy = 2 THEN sum' \div Taps ELSE v

\* AD_PRE_FITTER: the raw value while the buffer fills, then the moving average.
Filter(v) ==
  /\ buff' = Append(Tail(buff), v)
  /\ sum' = CASE rdy = 2 -> sum + v - Head(buff)
              [] rdy = 1 -> Total(buff')
              [] rdy = 0 -> sum
  /\ filtered' = IF rdy = 2 THEN sum' \div Taps ELSE v

\* The interrupt finds this channel too dark after a time without pieces.
TooDark == rdy = 2 /\ filtered' < Low /\ led < LedMax

\* It writes the converter, for this channel or for another.
Raise(own) ==
  /\ quiet = Idle /\ quiet' = 0
  /\ own => TooDark
  /\ led' = IF own THEN led + 1 ELSE led
  /\ dac' = IF own THEN ToDac(led') ELSE dac
  /\ Cuts(cut')
  /\ touched' = (touched \/ Shifting)

\* A block of samples: DMA1_Channel1_IRQHandler.
Block ==
  /\ \A t \in Task : InPass(t) => waited[t] = 0
  /\ Filter(Light)
  /\ fed' = TRUE
  /\ waited' = [t \in Task |-> IF at[t] = "off" \/ waited[t] = Blocks THEN waited[t]
                                ELSE waited[t] + 1]
  /\ \/ \E own \in BOOLEAN : Raise(own)
     \/ /\ quiet' = IF quiet = Idle THEN quiet ELSE quiet + 1
        /\ UNCHANGED <<led, dac, cut, touched>>
  /\ UNCHANGED <<alight, rdy, at, step, got>>

\* TIM2_IRQHandler: many blocks come between two ticks.
Tick ==
  /\ rdy < 2 /\ fed
  /\ rdy' = rdy + 1 /\ fed' = FALSE
  /\ UNCHANGED <<led, dac, alight, buff, sum, filtered, quiet, at, step, got,
                 cut, waited, touched>>

-----------------------------------------------------------------------------
(* A pass of calibrate_IR_1.                                               *)

\* debug_task has the lower priority of the two.
Runs(t) == t = "debug" => at["io"] \in {"off", "delay"}

Goto(t, p) == at' = [at EXCEPT ![t] = p]

\* io_task is asked to calibrate.
Start ==
  /\ at["io"] = "off"
  /\ Goto("io", "delay")
  /\ waited' = [waited EXCEPT !["io"] = 0]
  /\ UNCHANGED <<led, dac, alight, filter, step, got, cut, touched>>

\* Plausible bug: the word has no limits.
TestUnlimited(t) ==
  /\ Runs(t) /\ at[t] = "delay" /\ waited[t] = Blocks
  /\ step' = [step EXCEPT ![t] = IF filtered < Low THEN 1 ELSE IF filtered > High THEN -1 ELSE 0]
  /\ Goto(t, IF step'[t] = 0 THEN "send" ELSE "load")
  /\ waited' = [waited EXCEPT ![t] = 0]
  /\ UNCHANGED <<led, dac, alight, filter, got, cut, touched>>

\* The delay is over: the value is compared, and the word with its limits.
Test(t) ==
  /\ Runs(t) /\ at[t] = "delay" /\ waited[t] = Blocks
  /\ step' = [step EXCEPT ![t] = IF filtered < Low /\ led < LedMax THEN 1
                                 ELSE IF filtered > High /\ led > 0 THEN -1
                                 ELSE 0]
  /\ Goto(t, IF step'[t] = 0 THEN "send" ELSE "load")
  /\ waited' = [waited EXCEPT ![t] = 0]
  /\ UNCHANGED <<led, dac, alight, filter, got, cut, touched>>

\* view_IR_DA_value is loaded once more, changed and stored.
Load(t) ==
  /\ Runs(t) /\ at[t] = "load"
  /\ got' = [got EXCEPT ![t] = led]
  /\ Goto(t, "store")
  /\ UNCHANGED <<led, dac, alight, filter, step, cut, waited, touched>>

Store(t) ==
  /\ Runs(t) /\ at[t] = "store"
  /\ led' = (got[t] + step[t]) % WordMod
  /\ got' = [got EXCEPT ![t] = 0]
  /\ Goto(t, "send")
  /\ UNCHANGED <<dac, alight, filter, step, cut, waited, touched>>

\* Plausible bug: only a word that was changed is sent.
SendChanged(t) ==
  /\ Runs(t) /\ at[t] = "send"
  /\ got' = [got EXCEPT ![t] = led]
  /\ cut' = [cut EXCEPT ![t] = step[t] = 0]
  /\ touched' = (touched /\ Shifting)
  /\ Goto(t, "shift")
  /\ UNCHANGED <<led, dac, alight, filter, step, waited>>

\* send_IR_value: the word becomes the argument of ad8804_write_ch.
Send(t) ==
  /\ Runs(t) /\ at[t] = "send"
  /\ got' = [got EXCEPT ![t] = led]
  /\ cut' = [cut EXCEPT ![t] = FALSE]
  /\ touched' = (touched /\ Shifting)
  /\ Goto(t, "shift")
  /\ UNCHANGED <<led, dac, alight, filter, step, waited>>

\* Its end: the converter takes the word, unless the transfer was cut.  A pass that
\* changed nothing was the last.
Latch(t) ==
  /\ Runs(t) /\ at[t] = "shift"
  /\ dac' = IF cut[t] THEN dac ELSE ToDac(got[t])
  /\ cut' \in {c \in [Task -> BOOLEAN] :
                 ~c[t] /\ \A u \in Task \ {t} : (cut[u] => c[u]) /\ (c[u] => at[u] = "shift")}
  /\ Goto(t, IF step[t] = 0 THEN "reset" ELSE "delay")
  /\ waited' = [waited EXCEPT ![t] = 0]
  /\ step' = [step EXCEPT ![t] = 0] /\ got' = [got EXCEPT ![t] = 0]
  /\ UNCHANGED <<led, alight, filter, touched>>

\* The critical section of re_calibration_detect: the filter starts again.
Reset(t) ==
  /\ Runs(t) /\ at[t] = "reset"
  /\ buff' = [i \in 1..Taps |-> 0] /\ sum' = 0
  /\ rdy' = 0 /\ fed' = FALSE
  /\ Goto(t, "off")
  /\ UNCHANGED <<led, dac, alight, filtered, quiet, step, got, cut, waited,
                 touched>>

TaskStep(t) ==
  Test(t) \/ Load(t) \/ Store(t) \/ Send(t) \/ Latch(t) \/ Reset(t)

Next ==
  \/ Block \/ Tick \/ Start
  \/ \E t \in Task : TaskStep(t)

Spec == Init /\ [][Next]_vars

\* The interrupts are periodic, io_task goes on when it can, and debug_task in the delays
\* of io_task, each of which is longer than its pass.
FairSpec ==
  /\ Spec
  /\ WF_vars(Block) /\ WF_vars(Tick)
  /\ WF_vars(TaskStep("io")) /\ SF_vars(TaskStep("debug"))

-----------------------------------------------------------------------------
(* Properties.                                                             *)

\* The types of what drives the LED.
DriveOK ==
  /\ led \in Word /\ dac \in 0..LedMax
  /\ at \in [Task -> {"off", "delay", "load", "store", "send", "shift", "reset"}]
  /\ step \in [Task -> {-1, 0, 1}] /\ got \in [Task -> Word]
  /\ cut \in [Task -> BOOLEAN] /\ waited \in [Task -> 0..Blocks]
  /\ touched \in BOOLEAN

\* The types of the variables: an address of the AD8804 takes no more than its bits,
\* whatever the word has become, and the sum never exceeds a buffer of the largest values.
TypeOK ==
  /\ DriveOK
  /\ alight \in BOOLEAN
  /\ buff \in [1..Taps -> 0..LedMax] /\ sum \in 0..(Taps * LedMax)
  /\ filtered \in 0..LedMax
  /\ rdy \in 0..2 /\ fed \in BOOLEAN /\ quiet \in 0..Idle

\* In the moving phase the sum is that of the buffer, whenever the filter was started
\* again and whatever phase it was in.
SumOfBuffer == rdy = 2 => sum = Total(buff)

AllOff == \A t \in Task : at[t] = "off"

\* When no task calibrates, the LED is driven with the word that the registers show,
\* unless an interrupt wrote during the last transfer: a transfer that was cut before is
\* made good by the next pass.
DrivenAsShown == AllOff /\ dac # ToDac(led) => touched

\* From some time on the interrupt writes no word.
Undisturbed == <>[][quiet' = 0 => quiet = 0]_vars

\* The calibration ends, of whichever task and beside the other, once the interrupt no
\* longer writes: a pass steps by one, and the average follows within the window.
CalibrationEnds == Undisturbed => \A t \in Task : (at[t] # "off" ~> at[t] = "off")
=============================================================================
