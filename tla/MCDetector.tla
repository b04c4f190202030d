----------------------------- MODULE MCDetector -----------------------------
(* Instances of Detector for TLC.                                          *)
EXTENDS Detector
CONSTANTS c1, c2, debug_task, io_task

OneChannel == {c1}
TwoChannels == {c1, c2}
Tasks == {debug_task, io_task}

\* A beam dimmer than a wave is deep, a shallow dip and a clear one.
Dark == 2
Levels == {Dark, 8, 12}
Coarse == {Dark, 12}
WaveUps == {0, 2}

\* The state without what no step reads again before writing it.
LiveChannel(c) ==
  [c EXCEPT !.low = IF c.step = 16 THEN @ ELSE 0,
            !.down = IF c.step = 0 THEN 0 ELSE @,
            !.up = IF c.step = 0 THEN 0 ELSE @,
            !.oldSum = IF c.idle < ADJ_PERIOD THEN 0 ELSE @,
            !.oldIdx = IF c.idle < ADJ_PERIOD THEN 0 ELSE @,
            !.stdUp = IF process_rdy < PROCESS_RDY THEN 0 ELSE @,
            !.stdV = IF process_rdy < PROCESS_RDY THEN @ ELSE 0,
            !.dark = @ /\ c.idle >= ADJ_PERIOD,
            !.state = "CH_IDLE"]
LiveState ==
  <<process_rdy, process_rdy_old, sampled, [c \in Channel |-> LiveChannel(ch[c])],
    wave_up_value, total, status, fault, pc>>
=============================================================================
