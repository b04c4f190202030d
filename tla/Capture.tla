------------------------------- MODULE Capture -------------------------------
(***************************************************************************)
(* The capture of waves: the interrupt of the converter stores the samples *)
(* of the watched channel in Detect_Buf (or, in the other mode, of any     *)
(* channel in AD_buff), tells debug_task through a queue of one place, and *)
(* debug_task hands the buffer to the transmit DMA of uart1.  The          *)
(* completion of that DMA comes back through the same queue, unless the    *)
(* tty says that it belongs to the Modbus task.  my_env.dma_state keeps    *)
(* the interrupt out of Detect_Buf meanwhile.                              *)
(*                                                                         *)
(* The step machine of a channel is the one of Detector; here each step    *)
(* lasts any number of samples. Only the watched channel is kept: a change *)
(* of the watch puts the record of another one in its place, in any step,  *)
(* its index 0 unless a channel was left in the middle of a wave. The      *)
(* console, the Modbus task and its replies are those of ModbusLink; here  *)
(* they change the settings and the tty and use the transmit DMA at any    *)
(* time.                                                                   *)
(***************************************************************************)
EXTENDS Naturals

CONSTANTS
  Size,      \* DETECTG_BUF_SIZE
  AdSize,    \* AD_BUFF_SIZE
  Modes      \* the values of my_env.print, register 26

ASSUME CaptureAssumption ==
  /\ Size \in Nat \ {0} /\ AdSize \in Nat \ {0}
  /\ Modes \subseteq 0..2 /\ 0 \in Modes

Steps == {0, 6, 16, 31}

VARIABLES
  step,       \* of the watched channel: process_step,
  index,      \* sample_index
  sized,      \* and whether its sample_size is other than 0
  left,       \* a channel that is watched no more has a sample_index other than 0
  whole,      \* the stored samples, or the wave that ended, are of one wave of this channel
  buffer_en,  \* AD_buff: being filled
  buffer_index,
  cir,        \* filled again when it was sent
  print,      \* my_env.print
  dma_state,  \* my_env.dma_state
  debug_msg,  \* the queue of debug_task: 0x55, 0xaa or nothing
  debug,      \* where debug_task is
  uart1,      \* what its transmit DMA sends
  tty,        \* my_env.tty; idle and console act alike here
  disturbed   \* history: of the capture under way, a hand in it or a wave come too soon

wave == <<step, index, sized, left, whole>>
ad == <<buffer_en, buffer_index>>
settings == <<cir, print>>
vars == <<step, index, sized, left, whole, buffer_en, buffer_index, cir, print,
          dma_state, debug_msg, debug, uart1, tty, disturbed>>

Init ==
  /\ step = 0 /\ index = 0 /\ sized = FALSE /\ left = FALSE /\ whole = FALSE
  /\ buffer_en = 0 /\ buffer_index = 0 /\ cir = 0
  /\ print = 0
  /\ dma_state = 0 /\ debug_msg = "none" /\ debug = "first"
  /\ uart1 = "idle" /\ tty = "CONSOLE"
  /\ disturbed = FALSE

-----------------------------------------------------------------------------
(* History.                                                                *)

\* A capture is somewhere between the interrupt and the end of its transmission.
UnderWay ==
  \/ buffer_en = 1 \/ dma_state = 1
  \/ debug_msg # "none" \/ debug # "first"
  \/ uart1 \in {"wave", "ad", "empty"}

\* Nothing is under way and no sample of a wave is stored.
AtRest == ~UnderWay /\ index = 0 /\ ~left

\* A completion of uart1 is the Modbus task's, or will be taken for its own.
Elsewhere == tty = "MODBUS" \/ uart1 = "reply"

Note(change) ==
  disturbed' = (~AtRest' /\ (disturbed \/ change \/ Elsewhere \/ Elsewhere'))

\* A start is posted or taken, and the size of its wave is not yet read.
Starting == debug_msg = "start" \/ debug = "start"

\* debug_task is ready to run.
Pending == debug_msg # "none" \/ debug \in {"start", "end"}

-----------------------------------------------------------------------------
(* The interrupt of the converter.                                         *)

\* The watched channel is over its threshold (step 6 only), in the same step or moved on.
Moves == {m \in {"quiet", "stay", "next"} : m = "quiet" => step \in {0, 6}}

\* Plausible bug: the interrupt does not look whether the buffer is being sent.
StoresAlways(move) == step # 0 /\ move # "quiet"

\* save_detect_data: a sample below the threshold, or in a wave.
Stores(move) == dma_state = 0 /\ step # 0 /\ move # "quiet"

\* Its r_code: no place is left.
Overflows(move) == Stores(move) /\ index >= Size

\* Plausible bug: one place more than there is.
IndexPast(move) == IF Stores(move) /\ index <= Size THEN index + 1 ELSE index

IndexAfter(move) == IF Stores(move) /\ index < Size THEN index + 1 ELSE index

\* CH_DATA_RDY: the sample ends a wave.  The next one, of step 6, takes it back.
Ends(move) == step = 31 /\ move = "next"

\* The first sample of a wave overwrites the wave before.
WholeAfter(move) ==
  IF Stores(move) THEN index = 0 \/ (whole /\ index < Size) ELSE dma_state = 1 /\ whole

\* detect_ad_value_process, as far as it stores a wave.
Sampled(move) ==
  /\ index' = IF Ends(move) \/ step = 0 \/ move = "quiet" THEN 0 ELSE IndexAfter(move)
  /\ sized' = IF Ends(move) THEN IndexAfter(move) # 0 ELSE sized
  /\ whole' = WholeAfter(move)
  /\ step' = IF step = 0 \/ Ends(move) THEN 6
             ELSE IF move # "next" THEN step ELSE IF step = 6 THEN 16 ELSE 31
  /\ left' \in {left, FALSE}

\* OSQPost: a second message is dropped.
Post(m) == debug_msg' = IF debug_msg = "none" THEN m ELSE debug_msg

\* Plausible bug: r_code is not looked at.
HandOverCut(move) == print = 1 /\ dma_state = 0 /\ Ends(move)

\* A wave of the watched channel ended and there was room for all of it.
HandOver(move) == print = 1 /\ dma_state = 0 /\ Ends(move) /\ ~Overflows(move)

\* The buffer of the other mode takes a sample of every interrupt.
Fills == print # 1 /\ buffer_en = 1

\* DMA1_Channel1_IRQHandler from PROCESS_RDY on.
DmaInterrupt ==
  /\ UNCHANGED <<settings, debug, uart1, tty>>
  /\ \E move \in Moves :
       /\ Sampled(move)
       /\ \/ /\ HandOver(move)
             /\ dma_state' = 1 /\ Post("start")
             /\ UNCHANGED ad
          \/ /\ Fills
             /\ buffer_index' = (buffer_index + 1) % AdSize
             /\ IF buffer_index + 1 = AdSize
                THEN buffer_en' = 0 /\ Post("start")
                ELSE UNCHANGED <<buffer_en, debug_msg>>
             /\ UNCHANGED dma_state
          \/ /\ ~HandOver(move) /\ ~Fills
             /\ UNCHANGED <<ad, dma_state, debug_msg>>
       \* The next wave resets the size of one that waits for debug_task.
       /\ Note(Ends(move) /\ dma_state = 1 /\ Starting)

\* re_calibration_detect sends every channel back to step 0, in a critical section.
Recalibrate ==
  /\ step' = 0
  /\ UNCHANGED <<index, sized, left, whole, ad, settings, dma_state, debug_msg, debug,
                 uart1, tty>>
  /\ Note(FALSE)

-----------------------------------------------------------------------------
(* debug_task and the transmit interrupt.                                  *)

\* The first of its two waits: anything but a start is dropped.
PendStart ==
  /\ debug = "first" /\ debug_msg # "none"
  /\ debug' = IF debug_msg = "start" THEN "start" ELSE "second"
  /\ debug_msg' = "none"
  /\ UNCHANGED <<wave, ad, settings, dma_state, uart1, tty>>
  /\ Note(FALSE)

\* start_uart1_dma with the settings of now; a busy DMA ignores it, and one started
\* with nothing to send neither ends nor can be started again.
Stream ==
  /\ debug = "start"
  /\ debug' = "second"
  /\ uart1' = CASE uart1 # "idle" \/ print \notin {0, 1} -> uart1
              [] uart1 = "idle" /\ print = 0 -> "ad"
              [] uart1 = "idle" /\ print = 1 -> IF sized THEN "wave" ELSE "empty"
  /\ UNCHANGED <<wave, ad, settings, dma_state, debug_msg, tty>>
  /\ Note(FALSE)

\* The second wait: anything but an end is dropped, and with it the wait.
PendEnd ==
  /\ debug = "second" /\ debug_msg # "none"
  /\ debug' = IF debug_msg = "end" THEN "end" ELSE "first"
  /\ debug_msg' = "none"
  /\ UNCHANGED <<wave, ad, settings, dma_state, uart1, tty>>
  /\ Note(FALSE)

\* Plausible bug: the interrupt is let in again only in the mode of waves.
ReleaseWaves ==
  /\ debug = "end"
  /\ debug' = "first"
  /\ dma_state' = IF print = 1 THEN 0 ELSE dma_state
  /\ buffer_en' = IF print = 0 THEN cir ELSE 0
  /\ UNCHANGED <<wave, buffer_index, settings, debug_msg, uart1, tty>>
  /\ Note(FALSE)

\* The interrupt may store again.
Release ==
  /\ debug = "end"
  /\ debug' = "first"
  /\ dma_state' = 0
  /\ buffer_en' = IF print = 0 THEN cir ELSE 0
  /\ UNCHANGED <<wave, buffer_index, settings, debug_msg, uart1, tty>>
  /\ Note(FALSE)

\* Plausible bug: the completion is lost to the wrong tty.
SentToModbus ==
  /\ uart1 \in {"reply", "wave", "ad"}
  /\ uart1' = "idle"
  /\ IF tty = "CONSOLE" THEN UNCHANGED debug_msg ELSE Post("end")
  /\ UNCHANGED <<wave, ad, settings, dma_state, debug, tty>>
  /\ Note(FALSE)

\* DMA1_Channel4_IRQHandler: the tty says whose completion it is.
Sent ==
  /\ uart1 \in {"reply", "wave", "ad"}
  /\ uart1' = "idle"
  /\ IF tty = "MODBUS" THEN UNCHANGED debug_msg ELSE Post("end")
  /\ UNCHANGED <<wave, ad, settings, dma_state, debug, tty>>
  /\ Note(FALSE)

-----------------------------------------------------------------------------
(* The users of the board.                                                 *)

\* A host writes the register of the watched channel, or the console sets it.
SetWatch ==
  /\ step' \in IF step = 0 THEN {0} ELSE Steps \ {0}
  /\ index' \in IF left THEN 0..Size ELSE {0}
  /\ sized' \in BOOLEAN
  /\ left' \in IF index # 0 THEN {TRUE} ELSE {left, FALSE}
  /\ whole' = FALSE
  /\ UNCHANGED <<ad, settings, dma_state, debug_msg, debug, uart1, tty>>
  /\ Note(~AtRest)

SetPrint(p) ==
  /\ print' = p /\ p # print
  /\ UNCHANGED <<wave, ad, cir, dma_state, debug_msg, debug, uart1,
                 tty>>
  /\ Note(~AtRest)

\* set trig, set run.
Trig(again) ==
  /\ buffer_en' = 1
  /\ cir' = IF again THEN 1 ELSE cir
  /\ UNCHANGED <<wave, buffer_index, print, dma_state, debug_msg, debug, uart1,
                 tty>>
  /\ Note(UnderWay)

SetCir(b) ==
  /\ cir' = b /\ b # cir
  /\ UNCHANGED <<wave, ad, print, dma_state, debug_msg, debug, uart1,
                 tty>>
  /\ Note(FALSE)

\* cmd_task takes a burst for text or for a frame; a command or a reply ends.
SetTty(t) ==
  /\ tty' = t /\ t # tty
  /\ UNCHANGED <<wave, ad, settings, dma_state, debug_msg, debug, uart1>>
  /\ Note(FALSE)

\* The Modbus task answers on uart1; a busy DMA ignores it.
Reply ==
  /\ tty = "MODBUS" /\ uart1 = "idle"
  /\ uart1' = "reply"
  /\ UNCHANGED <<wave, ad, settings, dma_state, debug_msg, debug, tty>>
  /\ Note(FALSE)

DebugStep == PendStart \/ Stream \/ PendEnd \/ Release

Next ==
  \/ DmaInterrupt \/ Recalibrate
  \/ DebugStep \/ Sent
  \/ SetWatch
  \/ \E p \in Modes : SetPrint(p)
  \/ \E again \in BOOLEAN : Trig(again)
  \/ \E b \in 0..1 : SetCir(b)
  \/ \E t \in {"CONSOLE", "MODBUS"} : SetTty(t)
  \/ Reply

Spec == Init /\ [][Next]_vars

\* The converter interrupts for ever, a ready task runs, a transmission ends.
FairSpec == Spec /\ WF_vars(DmaInterrupt) /\ WF_vars(DebugStep) /\ WF_vars(Sent)

-----------------------------------------------------------------------------
(* Properties.                                                             *)

\* The types of the variables.
TypeOK ==
  /\ step \in Steps /\ index \in 0..Size /\ sized \in BOOLEAN
  /\ left \in BOOLEAN /\ whole \in BOOLEAN
  /\ buffer_en \in 0..1 /\ buffer_index \in 0..(AdSize - 1) /\ cir \in 0..1
  /\ print \in Modes /\ dma_state \in 0..1
  /\ debug_msg \in {"none", "start", "end"}
  /\ debug \in {"first", "start", "second", "end"}
  /\ uart1 \in {"idle", "reply", "wave", "ad", "empty"}
  /\ tty \in {"CONSOLE", "MODBUS"}
  /\ disturbed \in BOOLEAN

\* A capture is disturbed by a setting, the tty or a reply under it, and by the end of
\* the next wave before debug_task has read the size of this one: a request that saves
\* parameters holds debug_task off for longer than a wave takes.

\* No interrupt stores into a buffer of an undisturbed capture while the DMA sends it.
SentIsStable ==
  [][ /\ uart1 = "wave" /\ ~disturbed' => ~(index' > index)
      /\ uart1 = "ad" /\ ~disturbed' => UNCHANGED buffer_index ]_vars

\* What is sent undisturbed is not empty and is one wave of the watched channel from
\* where its capture began: no sample was dropped for want of a place, and no place
\* holds what another wave, another channel or an earlier watch left there.  The
\* disturbances are all the ways to a transmission of nothing, which never ends.
SentIsOneWave ==
  /\ uart1 = "wave" /\ ~disturbed => whole
  /\ uart1 = "empty" => disturbed

\* An undisturbed capture ends, and the interrupt may store again.
CaptureEnds == dma_state = 1 ~> (dma_state = 0 \/ disturbed)

\* The user keeps to one thing: the mode of AD_buff, no Modbus on uart1, and no new
\* capture before the last is through.
LeftAlone ==
  /\ print = 0 /\ tty # "MODBUS" /\ uart1 \notin {"reply", "empty"}
  /\ buffer_en = 1 => ~Pending /\ uart1 = "idle"

\* A capture that was disturbed and holds dma_state for ever is released by captures of
\* the other mode: however debug_task's two waits got out of step with what it is
\* sent, they fall into step again.
TrigRecovers ==
  <>[]LeftAlone /\ []<>(buffer_en = 1) => []<>(dma_state = 0)
=============================================================================
