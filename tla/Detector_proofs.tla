--------------------------- MODULE Detector_proofs ---------------------------
(***************************************************************************)
(* Proofs about Detector for every number of channels and tasks, every     *)
(* length of the calibration and every threshold: the types, the complete  *)
(* baseline, no double count, the kept fault, the adjustment that is under *)
(* way, the piece output, the reachable thresholds, the refinement of      *)
(* PieceCounter and the total.                                             *)
(*                                                                         *)
(* Each operator that changes a channel has one lemma that says what it    *)
(* preserves; the steps of the specification only lift them to ch.         *)
(***************************************************************************)
EXTENDS Detector, SumFacts, FiniteSetTheorems, TLAPS

K == AD_MAX_V - 1        \* the largest filtered value
Share == K \div Shares   \* the largest share of one sample

-----------------------------------------------------------------------------
(* Arithmetic.                                                             *)

\* Division by a positive number is monotone.
LEMMA DivMonotone ==
  ASSUME NEW a \in Nat, NEW b \in Nat, NEW n \in Nat \ {0}, a <= b
  PROVE  a \div n \in Nat /\ a \div n <= b \div n
OBVIOUS

\* The quotient of at most n * k by n is at most k.
LEMMA DivBound ==
  ASSUME NEW a \in Nat, NEW k \in Nat, NEW n \in Nat \ {0}, a <= n * k
  PROVE  a \div n \in Nat /\ a \div n <= k
<1>1. (n * k) \div n = k
  OBVIOUS
<1>2. n * k \in Nat
  OBVIOUS
<1>. QED BY <1>1, <1>2, DivMonotone

\* The quotient of at least n * k by n is at least k.
LEMMA DivBelow ==
  ASSUME NEW a \in Nat, NEW k \in Nat, NEW n \in Nat \ {0}, n * k <= a
  PROVE  k <= a \div n
<1>1. (n * k) \div n = k
  OBVIOUS
<1>2. n * k \in Nat
  OBVIOUS
<1>. QED BY <1>1, <1>2, DivMonotone

\* One more term of a product.
LEMMA MulSucc ==
  ASSUME NEW s \in Nat, NEW k \in Nat
  PROVE  (s + 1) * k = s * k + k /\ s * k \in Nat
OBVIOUS

\* Products are monotone.
LEMMA MulMono ==
  ASSUME NEW s \in Nat, NEW t \in Nat, NEW k \in Nat, s <= t
  PROVE  s * k <= t * k
OBVIOUS

\* Shares of a value never add up to more than the value.
LEMMA ShareTotal ==
  ASSUME NEW k \in Nat, NEW n \in Nat \ {0}
  PROVE  k \div n \in Nat /\ n * (k \div n) <= k
OBVIOUS

\* The constants as the proofs use them: the converter,
LEMMA SampleFacts ==
  /\ AD_MAX_V \in Nat /\ K \in Nat /\ K = AD_MAX_V - 1
  /\ U16 \in Nat /\ AD_MAX_V < U16 /\ NO_MIN = AD_MAX_V
  /\ STD_V_OFFSET \in 0 .. U16 - 1
  /\ AdValue \subseteq 0 .. K
<1>1. /\ AD_MAX_V \in Nat /\ K \in Nat /\ K = AD_MAX_V - 1
      /\ AdValue \subseteq 0 .. K
  BY SampleAssumption, SMT DEF K, U16
<1>2. U16 \in Nat /\ AD_MAX_V < U16
  BY SampleAssumption, SMT DEF U16
<1>. QED BY <1>1, <1>2, SampleAssumption DEF NO_MIN

\* the lengths of the step machine,
LEMMA WaveFacts ==
  /\ WAVE_DOWN \in Nat /\ WAVE_UP = WAVE_DOWN
  /\ PieceTime \in Nat /\ PieceTime = WAVE_DOWN + 1 + 2 * (WAVE_UP + 1)
BY SampleAssumption, SMT DEF WAVE_UP, PieceTime

\* the clock of the calibration,
LEMMA ClockFacts ==
  /\ START_DATA \in Nat \ {0} /\ PROCESS_RDY \in Nat
  /\ START_DATA + 1 < PROCESS_RDY
  /\ Shares \in Nat \ {0} /\ Shares = PROCESS_RDY - START_DATA - 1
BY CalibrationAssumption, SMT DEF Shares

\* and its shares.
LEMMA ShareFacts == Share \in Nat /\ Shares * Share <= K
BY SampleFacts, ClockFacts, ShareTotal DEF Share

-----------------------------------------------------------------------------
(* One channel.                                                            *)


\* The sum that will become a baseline is a sum of oldIdx filtered values.
AverageInv(c) == c.oldSum <= c.oldIdx * K

\* A piece has been sampled for as long as its step says, "since" interrupts
\* after the last one that was counted.
PieceInv(c, since) ==
  /\ c.step = 6 => since >= c.down /\ c.up = 0
  /\ c.step = 16 => since >= WAVE_DOWN + 1 + c.up /\ c.down = 0
  /\ c.step = 31 => since >= WAVE_DOWN + WAVE_UP + 2 + c.up /\ c.down = 0

ChannelInv(c) ==
  /\ c \in ChannelState
  /\ AverageInv(c)
  /\ PieceInv(c, c.since)

\* What every step of the machine does to a channel that satisfies ChannelInv.
StepRight(c, d) ==
  /\ d \in ChannelState
  /\ d.since = c.since
  /\ d.samples = c.samples
  /\ AverageInv(d)

\* The history after one more interrupt.
Later(c) == Lower(c.since + 1, PieceTime)

\* The first step of a restarted channel.
LEMMA StartStepInv ==
  ASSUME NEW c, ChannelInv(c), NEW d, d = StartStep(c)
  PROVE  StepRight(c, d) /\ PieceInv(d, Later(c)) /\ d.count = 0
<1>1. c \in ChannelState /\ AverageInv(c)
  BY DEF ChannelInv
<1>2. 0 \in Nat /\ 0 \in 0 .. WAVE_DOWN /\ 0 \in 0 .. WAVE_UP
      /\ NO_MIN \in 0 .. U16 - 1
  BY WaveFacts, SampleFacts, SMT
<1>3. d \in ChannelState
  BY <1>1, <1>2, Zenon DEF ChannelState, StartStep
<1>4. /\ d.step = 6 /\ d.down = 0 /\ d.up = 0 /\ d.count = 0
      /\ d.since = c.since /\ d.samples = c.samples
      /\ d.oldSum = c.oldSum /\ d.oldIdx = c.oldIdx
  BY <1>1, SMT DEF ChannelState, StartStep
<1>5. c.since \in 0 .. PieceTime
  BY <1>1, SMT DEF ChannelState
<1>6. PieceInv(d, Later(c))
  BY <1>4, <1>5, WaveFacts, SMT DEF PieceInv, Later, Lower
<1>. QED
  BY <1>1, <1>3, <1>4, <1>6, SMT DEF StepRight, AverageInv

\* The types of the fields of a channel that the steps compute with.
LEMMA ChannelFields ==
  ASSUME NEW c \in ChannelState
  PROVE  /\ c.step \in {0, 6, 16, 31}
         /\ c.down \in 0 .. WAVE_DOWN /\ c.up \in 0 .. WAVE_UP
         /\ c.low \in 0 .. U16 - 1 /\ c.idle \in Nat
         /\ c.oldSum \in Nat /\ c.oldIdx \in Nat
         /\ c.stdV \in 0 .. AD_MAX_V - 1 /\ c.count \in Nat
         /\ c.stdUp \in 0 .. U16 - 1 /\ c.stdDown \in 0 .. U16 - 1
         /\ c.samples \in Nat /\ c.since \in 0 .. PieceTime
BY SMT DEF ChannelState

\* The smaller of two values is one of them.
LEMMA LowerIn ==
  ASSUME NEW S, NEW a \in S, NEW b \in S
  PROVE  Lower(a, b) \in S
BY DEF Lower

\* A filtered value as an operand of the steps.
LEMMA SampleType ==
  ASSUME NEW ad \in AdValue
  PROVE  ad \in Nat /\ ad <= K /\ ad \in 0 .. U16 - 1
BY SampleFacts, SMT

\* A sample below the threshold: the wave is one sample older, or it is confirmed
\* and the trough begins.
LEMMA DipInv ==
  ASSUME NEW c, ChannelInv(c), c.step = 6, NEW ad \in AdValue,
         NEW d, d = Dip(c, ad)
  PROVE  StepRight(c, d) /\ PieceInv(d, Later(c)) /\ d.count = c.count
<1>1. /\ c \in ChannelState /\ AverageInv(c)
      /\ c.since >= c.down /\ c.up = 0
  BY DEF ChannelInv, PieceInv
<1>2. /\ c.since \in 0 .. PieceTime /\ c.down \in 0 .. WAVE_DOWN
      /\ c.low \in 0 .. U16 - 1
  BY <1>1, ChannelFields
<1>3. 0 \in Nat /\ 0 \in 0 .. WAVE_DOWN /\ ad \in 0 .. U16 - 1
  BY WaveFacts, SampleType, SMT
<1>4. CASE c.down + 1 > WAVE_DOWN
  <2>. DEFINE e == [c EXCEPT !.idle = 0, !.state = "CH_BUSY"]
  <2>1. d = [e EXCEPT !.pieceIn = 0, !.down = 0, !.low = ad, !.step = 16]
    BY <1>4 DEF Dip
  <2>2. d \in ChannelState
    BY <1>1, <1>3, <2>1, ZenonT(30) DEF ChannelState
  <2>3. /\ d.step = 16 /\ d.down = 0 /\ d.up = c.up
        /\ d.since = c.since /\ d.samples = c.samples /\ d.count = c.count
        /\ d.oldSum = c.oldSum /\ d.oldIdx = c.oldIdx
    BY <1>1, <1>4, SMT DEF ChannelState, Dip
  <2>4. PieceInv(d, Later(c))
    BY <1>1, <1>2, <1>4, <2>3, WaveFacts, SMT DEF PieceInv, Later, Lower
  <2>. QED BY <1>1, <2>2, <2>3, <2>4, SMT DEF StepRight, AverageInv
<1>5. CASE ~ (c.down + 1 > WAVE_DOWN)
  <2>1. c.down + 1 \in 0 .. WAVE_DOWN
    BY <1>2, <1>5, WaveFacts, SMT
  <2>2. Lower(c.low, ad) \in 0 .. U16 - 1
    BY <1>2, <1>3, LowerIn
  <2>3. d \in ChannelState
    BY <1>1, <1>3, <1>5, <2>1, <2>2, ZenonT(30) DEF ChannelState, Dip
  <2>4. /\ d.step = 6 /\ d.down = c.down + 1 /\ d.up = c.up
        /\ d.since = c.since /\ d.samples = c.samples /\ d.count = c.count
        /\ d.oldSum = c.oldSum /\ d.oldIdx = c.oldIdx
    BY <1>1, <1>5, SMT DEF ChannelState, Dip
  <2>5. PieceInv(d, Later(c))
    BY <1>1, <1>2, <2>1, <2>4, WaveFacts, SMT DEF PieceInv, Later, Lower
  <2>. QED BY <1>1, <2>3, <2>4, <2>5, SMT DEF StepRight, AverageInv
<1>. QED BY <1>4, <1>5

\* The averaging clock.
LEMMA TimingFacts ==
  /\ ADJ_PERIOD \in Nat /\ ADJ_WINDOW \in Nat /\ ADJ_WINDOW <= ADJ_PERIOD
  /\ \A cycle \in Cycle : cycle \in Nat /\ cycle < ADJ_PERIOD
BY TimingAssumption, SMT

\* The quotient the baseline is replaced with is a filtered value.
LEMMA UdivType ==
  ASSUME NEW a \in Nat, NEW b \in Nat, a <= b * K
  PROVE  Udiv(a, b) \in 0 .. AD_MAX_V - 1
<1>1. CASE b = 0
  BY <1>1, SampleFacts, SMT DEF Udiv
<1>2. CASE b # 0
  <2>1. a \div b \in Nat /\ a \div b <= K
    BY <1>2, SampleFacts, DivBound
  <2>. QED BY <1>2, <2>1, SampleFacts, SMT DEF Udiv
<1>. QED BY <1>1, <1>2

\* A 16-bit difference, whatever the operands.
LEMMA Sub16Type ==
  ASSUME NEW a \in Nat, NEW b \in Nat
  PROVE  Sub16(a, b) \in 0 .. U16 - 1
BY SampleFacts, SMT DEF Sub16

\* A sample at or above the threshold: the channel is idle one cycle longer, and
\* the average is restarted, extended or taken over.
LEMMA QuietInv ==
  ASSUME NEW c, ChannelInv(c), c.step = 6, NEW ad \in AdValue,
         NEW cycle \in Cycle, NEW d, d = Quiet(c, ad, cycle)
  PROVE  StepRight(c, d) /\ PieceInv(d, Later(c)) /\ d.count = c.count
<1>. DEFINE t == c.idle + cycle
            q == [c EXCEPT !.idle = t, !.down = 0, !.state = "CH_IDLE",
                           !.low = NO_MIN, !.dark = DarkAfter(c, ad, t)]
            v == Udiv(q.oldSum, q.oldIdx)
<1>1. c \in ChannelState /\ AverageInv(c) /\ c.up = 0
  BY DEF ChannelInv, PieceInv
<1>2. /\ c.since \in 0 .. PieceTime /\ c.idle \in Nat
      /\ c.oldSum \in Nat /\ c.oldIdx \in Nat
  BY <1>1, ChannelFields
<1>3. /\ 0 \in Nat /\ 0 \in 0 .. WAVE_DOWN /\ NO_MIN \in 0 .. U16 - 1
      /\ t \in Nat
  BY <1>2, WaveFacts, SampleFacts, TimingFacts, SMT
<1>4. q \in ChannelState
  <2>1. DarkAfter(c, ad, t) \in BOOLEAN
    BY Zenon DEF DarkAfter
  <2>. HIDE DEF t
  <2>. QED BY <1>1, <1>3, <2>1, ZenonT(30) DEF ChannelState
<1>5. /\ q.step = 6 /\ q.down = 0 /\ q.up = 0
      /\ q.since = c.since /\ q.samples = c.samples /\ q.count = c.count
      /\ q.oldSum = c.oldSum /\ q.oldIdx = c.oldIdx
  BY <1>1, SMT DEF ChannelState
<1>. HIDE DEF q, t
<1>6. SUFFICES /\ d \in ChannelState
               /\ d.step = 6 /\ d.down = 0 /\ d.up = 0
               /\ d.since = c.since /\ d.samples = c.samples
               /\ d.count = c.count /\ AverageInv(d)
  BY <1>2, WaveFacts, SMT DEF StepRight, PieceInv, Later, Lower
<1>7. CASE d = q
  BY <1>1, <1>4, <1>5, <1>7 DEF AverageInv
<1>8. CASE d = [q EXCEPT !.oldSum = 0, !.oldIdx = 0]
  <2>1. d \in ChannelState
    BY <1>3, <1>4, <1>8, Zenon DEF ChannelState
  <2>2. /\ d.step = 6 /\ d.down = 0 /\ d.up = 0
        /\ d.since = c.since /\ d.samples = c.samples /\ d.count = c.count
        /\ d.oldSum = 0 /\ d.oldIdx = 0
    BY <1>4, <1>5, <1>8, SMT DEF ChannelState
  <2>. QED BY <2>1, <2>2, SampleFacts, SMT DEF AverageInv
<1>9. CASE d = [q EXCEPT !.oldSum = @ + ad, !.oldIdx = @ + 1]
  <2>1. q.oldSum + ad \in Nat /\ q.oldIdx + 1 \in Nat
    BY <1>2, <1>5, SampleType, SMT
  <2>2. d \in ChannelState
    BY <1>4, <1>9, <2>1, Zenon DEF ChannelState
  <2>3. /\ d.step = 6 /\ d.down = 0 /\ d.up = 0
        /\ d.since = c.since /\ d.samples = c.samples /\ d.count = c.count
        /\ d.oldSum = c.oldSum + ad /\ d.oldIdx = c.oldIdx + 1
    BY <1>4, <1>5, <1>9, SMT DEF ChannelState
  <2>4. /\ (c.oldIdx + 1) * K = c.oldIdx * K + K
        /\ c.oldIdx * K \in Nat
    BY <1>2, SampleFacts, MulSucc
  <2>5. AverageInv(d)
    BY <1>1, <1>2, <2>3, <2>4, SampleFacts, SampleType, SMT DEF AverageInv
  <2>. QED BY <2>2, <2>3, <2>5
<1>10. CASE d = Rebase(q)
  <2>1. v \in 0 .. AD_MAX_V - 1
    BY <1>1, <1>2, <1>5, UdivType DEF AverageInv
  <2>2. Sub16(v, STD_V_OFFSET) \in 0 .. U16 - 1
    <3>. HIDE DEF v
    <3>1. v \in Nat /\ STD_V_OFFSET \in Nat
      BY <2>1, SampleFacts, SMT
    <3>. QED BY <3>1, Sub16Type
  <2>3. d = [q EXCEPT !.idle = 0, !.stdV = v, !.stdUp = Sub16(v, STD_V_OFFSET),
                      !.stdDown = Sub16(v, STD_V_OFFSET)]
    BY <1>10 DEF Rebase
  <2>. HIDE DEF v
  <2>4. d \in ChannelState
    BY <1>3, <1>4, <2>1, <2>2, <2>3, Zenon DEF ChannelState
  <2>5. /\ d.step = 6 /\ d.down = 0 /\ d.up = 0
        /\ d.since = c.since /\ d.samples = c.samples /\ d.count = c.count
        /\ d.oldSum = c.oldSum /\ d.oldIdx = c.oldIdx
    BY <1>4, <1>5, <2>3, SMT DEF ChannelState
  <2>. QED BY <1>1, <2>4, <2>5 DEF AverageInv
<1>11. \/ d = q \/ d = [q EXCEPT !.oldSum = 0, !.oldIdx = 0]
       \/ d = [q EXCEPT !.oldSum = @ + ad, !.oldIdx = @ + 1]
       \/ d = Rebase(q)
  <2>. USE DEF q, t
  <2>1. CASE t < ADJ_PERIOD
    BY <2>1 DEF Quiet
  <2>2. CASE t >= ADJ_PERIOD /\ t < ADJ_PERIOD + ADJ_WINDOW
    BY <2>2, <1>3, TimingFacts, SMT DEF Quiet
  <2>. QED BY <2>1, <2>2 DEF Quiet
<1>. QED BY <1>7, <1>8, <1>9, <1>10, <1>11

\* A sample of a trough: the climb goes on, ends in the recovery, or falls back.
LEMMA TroughStepInv ==
  ASSUME NEW c, ChannelInv(c), c.step = 16, NEW ad \in AdValue, NEW rise,
         NEW d, d = TroughStep(c, ad, rise)
  PROVE  StepRight(c, d) /\ PieceInv(d, Later(c)) /\ d.count = c.count
<1>. DEFINE up == IF ad > c.low + rise THEN c.up + 1 ELSE 0
<1>0. c \in ChannelState
  BY DEF ChannelInv
<1>1. /\ c \in ChannelState /\ AverageInv(c)
      /\ c.since >= WAVE_DOWN + 1 + c.up /\ c.down = 0
  BY DEF ChannelInv, PieceInv
<1>2. /\ c.since \in 0 .. PieceTime /\ c.up \in 0 .. WAVE_UP
      /\ c.low \in 0 .. U16 - 1
  BY <1>1, ChannelFields
<1>3. /\ 0 \in 0 .. WAVE_UP /\ NO_MIN \in 0 .. U16 - 1
      /\ ad \in 0 .. U16 - 1
  BY WaveFacts, SampleFacts, SampleType, SMT
<1>4. up = c.up + 1 \/ up = 0
  OBVIOUS
<1>5. d = IF up > WAVE_UP THEN [c EXCEPT !.low = NO_MIN, !.up = 0, !.step = 31]
                          ELSE [c EXCEPT !.low = Lower(@, ad), !.up = up]
  BY DEF TroughStep
<1>. HIDE DEF up
<1>6. CASE up > WAVE_UP
  <2>1. d = [c EXCEPT !.low = NO_MIN, !.up = 0, !.step = 31]
    BY <1>5, <1>6
  <2>2. d \in ChannelState
    BY <1>0, <1>3, <2>1, Zenon DEF ChannelState
  <2>3. /\ d.step = 31 /\ d.up = 0 /\ d.down = c.down
        /\ d.since = c.since /\ d.samples = c.samples /\ d.count = c.count
        /\ d.oldSum = c.oldSum /\ d.oldIdx = c.oldIdx
    BY <1>1, <2>1, SMT DEF ChannelState
  <2>4. PieceInv(d, Later(c))
    BY <1>1, <1>2, <1>4, <1>6, <2>3, WaveFacts, SMT
    DEF PieceInv, Later, Lower
  <2>. QED BY <1>1, <2>2, <2>3, <2>4, SMT DEF StepRight, AverageInv
<1>7. CASE ~ (up > WAVE_UP)
  <2>1. d = [c EXCEPT !.low = Lower(@, ad), !.up = up]
    BY <1>5, <1>7
  <2>2. up \in 0 .. WAVE_UP /\ Lower(c.low, ad) \in 0 .. U16 - 1
    <3>1. up \in 0 .. WAVE_UP
      BY <1>2, <1>4, <1>7, WaveFacts, SMT
    <3>. QED BY <1>2, <1>3, <3>1, LowerIn
  <2>3. d \in ChannelState
    BY <1>0, <2>1, <2>2, Zenon DEF ChannelState
  <2>4. /\ d.step = 16 /\ d.up = up /\ d.down = c.down
        /\ d.since = c.since /\ d.samples = c.samples /\ d.count = c.count
        /\ d.oldSum = c.oldSum /\ d.oldIdx = c.oldIdx
    BY <1>1, <2>1, SMT DEF ChannelState
  <2>5. PieceInv(d, Later(c))
    BY <1>1, <1>2, <1>4, <2>2, <2>4, WaveFacts, SMT
    DEF PieceInv, Later, Lower
  <2>. QED BY <1>1, <2>3, <2>4, <2>5, SMT DEF StepRight, AverageInv
<1>. QED BY <1>6, <1>7

\* A sample of a recovery that does not complete the piece.
LEMMA RecoverStepInv ==
  ASSUME NEW c, ChannelInv(c), c.step = 31, NEW ad \in AdValue,
         ~ Recovered(c, ad), NEW d, d = RecoverStep(c, ad)
  PROVE  StepRight(c, d) /\ PieceInv(d, Later(c)) /\ d.count = c.count
<1>. DEFINE up == IF ad >= c.stdUp THEN c.up + 1 ELSE 0
<1>0. c \in ChannelState
  BY DEF ChannelInv
<1>1. /\ c \in ChannelState /\ AverageInv(c)
      /\ c.since >= WAVE_DOWN + WAVE_UP + 2 + c.up /\ c.down = 0
  BY DEF ChannelInv, PieceInv
<1>2. c.since \in 0 .. PieceTime /\ c.up \in 0 .. WAVE_UP
  BY <1>1, ChannelFields
<1>3. up \in 0 .. WAVE_UP /\ up <= c.up + 1
  BY <1>2, WaveFacts, SMT DEF Recovered
<1>4. d = [c EXCEPT !.up = up]
  BY DEF RecoverStep
<1>. HIDE DEF up
<1>5. d \in ChannelState
  BY <1>0, <1>3, <1>4, Zenon DEF ChannelState
<1>6. /\ d.step = 31 /\ d.up = up /\ d.down = c.down
      /\ d.since = c.since /\ d.samples = c.samples /\ d.count = c.count
      /\ d.oldSum = c.oldSum /\ d.oldIdx = c.oldIdx
  BY <1>1, <1>4, SMT DEF ChannelState
<1>7. PieceInv(d, Later(c))
  BY <1>1, <1>2, <1>3, <1>6, WaveFacts, SMT DEF PieceInv, Later, Lower
<1>. QED BY <1>1, <1>5, <1>6, <1>7, SMT DEF StepRight, AverageInv

\* The sample that completes a piece: all three phases have been confirmed.
LEMMA RecoveredInv ==
  ASSUME NEW c, ChannelInv(c), NEW ad \in AdValue,
         Recovered(c, ad), NEW d, d = RecoverStep(c, ad)
  PROVE  /\ StepRight(c, d) /\ PieceInv(d, 0) /\ d.count = c.count + 1
         /\ c.since >= PieceTime - 1
<1>0. c \in ChannelState
  BY DEF ChannelInv
<1>1. /\ c \in ChannelState /\ AverageInv(c)
      /\ c.since >= WAVE_DOWN + WAVE_UP + 2 + c.up /\ c.down = 0
  BY DEF ChannelInv, PieceInv, Recovered
<1>2. /\ c.since \in 0 .. PieceTime /\ c.up \in 0 .. WAVE_UP
      /\ c.count \in Nat
  BY <1>1, ChannelFields
<1>3. 0 \in 0 .. WAVE_UP /\ c.count + 1 \in Nat
  BY <1>2, WaveFacts, SMT
<1>4. d = [c EXCEPT !.step = 6, !.state = "CH_DATA_RDY", !.up = 0,
                    !.pieceIn = 1, !.count = @ + 1]
  BY DEF RecoverStep
<1>5. d \in ChannelState
  BY <1>0, <1>3, <1>4, ZenonT(60) DEF ChannelState
<1>6. /\ d.step = 6 /\ d.up = 0 /\ d.down = c.down
      /\ d.since = c.since /\ d.samples = c.samples
      /\ d.count = c.count + 1
      /\ d.oldSum = c.oldSum /\ d.oldIdx = c.oldIdx
  BY <1>1, <1>4, SMT DEF ChannelState
<1>7. PieceInv(d, 0) /\ c.since >= PieceTime - 1
  BY <1>1, <1>2, <1>6, WaveFacts, SMT DEF PieceInv, Recovered
<1>. QED BY <1>1, <1>5, <1>6, <1>7, SMT DEF StepRight, AverageInv

\* The history of a channel is moved on after its step.
LEMMA SetSince ==
  ASSUME NEW c, NEW e, StepRight(c, e), NEW s \in 0 .. PieceTime,
         PieceInv(e, s)
  PROVE  LET d == [e EXCEPT !.since = s]
         IN  ChannelInv(d) /\ d.samples = c.samples /\ d.count = e.count
<1>. DEFINE d == [e EXCEPT !.since = s]
<1>1. e \in ChannelState /\ e.samples = c.samples
  BY DEF StepRight
<1>2. d \in ChannelState
  BY <1>1, Zenon DEF ChannelState
<1>3. /\ d.since = s /\ d.step = e.step /\ d.up = e.up /\ d.down = e.down
      /\ d.samples = e.samples /\ d.count = e.count
      /\ d.oldSum = e.oldSum /\ d.oldIdx = e.oldIdx
  BY <1>1, SMT DEF ChannelState
<1>. HIDE DEF d
<1>4. ChannelInv(d) /\ d.samples = c.samples /\ d.count = e.count
  BY <1>1, <1>2, <1>3, SMT DEF ChannelInv, StepRight, AverageInv, PieceInv
<1>. QED BY <1>4 DEF d

\* One interrupt on one channel: the machine keeps its invariant, and a channel
\* that counts has sampled a whole piece since it last counted.
LEMMA DetectInv ==
  ASSUME NEW c, ChannelInv(c), NEW ad \in AdValue, NEW cycle \in Cycle,
         NEW rise, NEW d, d = Detect(c, ad, cycle, rise)
  PROVE  /\ ChannelInv(d)
         /\ d.samples = c.samples
         /\ d.count > c.count => c.since >= PieceTime - 1
<1>. DEFINE s == IF Recovered(c, ad) THEN 0 ELSE Later(c)
<1>1. c \in ChannelState
  BY DEF ChannelInv
<1>2. c.since \in 0 .. PieceTime /\ c.count \in Nat
  BY <1>1, ChannelFields
<1>3. s \in 0 .. PieceTime
  BY <1>2, WaveFacts, SMT DEF Later, Lower
<1>4. \E e : /\ StepRight(c, e) /\ PieceInv(e, s)
             /\ d = [e EXCEPT !.since = s]
             /\ e.count > c.count => c.since >= PieceTime - 1
  <2>1. ASSUME NEW e, StepRight(c, e),
               d = [e EXCEPT !.since = IF Recovered(c, ad) THEN 0
                                       ELSE Lower(@ + 1, PieceTime)]
        PROVE  d = [e EXCEPT !.since = s]
    BY <2>1 DEF StepRight, Later
  <2>2. CASE Recovered(c, ad)
    <3>1. PICK e : e = RecoverStep(c, ad)
      OBVIOUS
    <3>2. d = [e EXCEPT !.since = IF Recovered(c, ad) THEN 0
                                  ELSE Lower(@ + 1, PieceTime)]
      BY <2>2, <3>1 DEF Detect, Recovered
    <3>3. /\ StepRight(c, e) /\ PieceInv(e, 0)
          /\ c.since >= PieceTime - 1
      BY <2>2, <3>1, RecoveredInv
    <3>. QED BY <2>1, <2>2, <3>2, <3>3
  <2>3. CASE ~ Recovered(c, ad)
    <3>1. PICK e : e = CASE c.step = 0  -> StartStep(c)
                         [] c.step = 6  -> WatchStep(c, ad, cycle)
                         [] c.step = 16 -> TroughStep(c, ad, rise)
                         [] c.step = 31 -> RecoverStep(c, ad)
      OBVIOUS
    <3>2. d = [e EXCEPT !.since = IF Recovered(c, ad) THEN 0
                                  ELSE Lower(@ + 1, PieceTime)]
      BY <3>1 DEF Detect
    <3>3. /\ StepRight(c, e) /\ PieceInv(e, Later(c))
          /\ e.count = 0 \/ e.count = c.count
      <4>1. CASE c.step = 0
        BY <3>1, <4>1, StartStepInv
      <4>2. CASE c.step = 6
        BY <3>1, <4>2, DipInv, QuietInv DEF WatchStep
      <4>3. CASE c.step = 16
        BY <3>1, <4>3, TroughStepInv
      <4>4. CASE c.step = 31
        BY <2>3, <3>1, <4>4, RecoverStepInv
      <4>. QED BY <1>1, <4>1, <4>2, <4>3, <4>4, ChannelFields
    <3>4. ~ (e.count > c.count)
      BY <1>2, <3>3, SMT
    <3>. QED BY <2>1, <2>3, <3>2, <3>3, <3>4
  <2>. QED BY <2>2, <2>3
<1>. HIDE DEF s
<1>5. PICK e : /\ StepRight(c, e) /\ PieceInv(e, s)
               /\ d = [e EXCEPT !.since = s]
               /\ e.count > c.count => c.since >= PieceTime - 1
  BY <1>4
<1>6. ChannelInv(d) /\ d.samples = c.samples /\ d.count = e.count
  <2>. DEFINE f == [e EXCEPT !.since = s]
  <2>1. ChannelInv(f) /\ f.samples = c.samples /\ f.count = e.count
    BY <1>3, <1>5, SetSince
  <2>. QED BY <1>5, <2>1
<1>7. d.count > c.count => c.since >= PieceTime - 1
  <2>1. e.count > c.count => c.since >= PieceTime - 1
    BY <1>5
  <2>. QED BY <1>6, <2>1
<1>. QED BY <1>6, <1>7

\* A share of one more sample, while fewer than Shares have been added.
LEMMA AddShareInv ==
  ASSUME NEW c, ChannelInv(c), NEW ad \in AdValue, Sampling,
         c.samples < Shares, c.stdV <= c.samples * Share,
         NEW d, d = AddShare(c, ad)
  PROVE  /\ ChannelInv(d) /\ d.count = c.count
         /\ d.samples = c.samples + 1
         /\ d.stdV <= (c.samples + 1) * Share
<1>. DEFINE share == ad \div Shares
<1>1. c \in ChannelState
  BY DEF ChannelInv
<1>2. c.samples \in Nat /\ c.stdV \in Nat
  BY <1>1, ChannelFields, SampleFacts, SMT
<1>3. share \in Nat /\ share <= Share
  BY SampleType, SampleFacts, ClockFacts, DivMonotone DEF Share
<1>4. d = [c EXCEPT !.stdV = @ + share, !.samples = @ + 1]
  BY DEF AddShare
<1>. HIDE DEF share
<1>5. (c.samples + 1) * Share = c.samples * Share + Share
      /\ c.samples * Share \in Nat
  BY <1>2, ShareFacts, MulSucc
<1>6. (c.samples + 1) * Share <= K
  <2>1. (c.samples + 1) * Share <= Shares * Share
    <3>1. c.samples + 1 \in Nat /\ c.samples + 1 <= Shares /\ Shares \in Nat
      BY <1>2, ClockFacts, SMT
    <3>. QED BY <3>1, ShareFacts, MulMono
  <2>2. Shares * Share \in Nat
    BY ShareFacts, ClockFacts, MulSucc
  <2>. HIDE DEF Share
  <2>. QED BY <1>2, <1>5, <2>1, <2>2, ShareFacts, SampleFacts, SMT
<1>7. c.stdV + share <= (c.samples + 1) * Share
  BY <1>2, <1>3, <1>5, ShareFacts, SMT
<1>8. c.stdV + share \in 0 .. AD_MAX_V - 1 /\ c.samples + 1 \in Nat
  BY <1>2, <1>3, <1>5, <1>6, <1>7, ShareFacts, SampleFacts, SMT
<1>9. d \in ChannelState
  BY <1>1, <1>4, <1>8, Zenon DEF ChannelState
<1>10. /\ d.since = c.since /\ d.step = c.step /\ d.up = c.up
       /\ d.down = c.down /\ d.count = c.count
       /\ d.samples = c.samples + 1 /\ d.stdV = c.stdV + share
       /\ d.oldSum = c.oldSum /\ d.oldIdx = c.oldIdx
  BY <1>1, <1>4, SMT DEF ChannelState
<1>. QED BY <1>7, <1>9, <1>10 DEF ChannelInv, AverageInv, PieceInv

\* The thresholds of a measured baseline.
LEMMA SetThresholdsInv ==
  ASSUME NEW c, ChannelInv(c), NEW d, d = SetThresholds(c)
  PROVE  ChannelInv(d) /\ d.count = c.count /\ d.samples = c.samples
<1>. DEFINE v == IF c.stdV > STD_V_OFFSET THEN c.stdV - STD_V_OFFSET
                                          ELSE c.stdV
<1>1. c \in ChannelState
  BY DEF ChannelInv
<1>2. v \in 0 .. U16 - 1
  BY <1>1, ChannelFields, SampleFacts, SMT
<1>3. d = [c EXCEPT !.stdUp = v, !.stdDown = v]
  BY DEF SetThresholds
<1>. HIDE DEF v
<1>4. d \in ChannelState
  BY <1>1, <1>2, <1>3, Zenon DEF ChannelState
<1>5. /\ d.since = c.since /\ d.step = c.step /\ d.up = c.up
      /\ d.down = c.down /\ d.count = c.count /\ d.samples = c.samples
      /\ d.oldSum = c.oldSum /\ d.oldIdx = c.oldIdx
  BY <1>1, <1>3, SMT DEF ChannelState
<1>. QED BY <1>4, <1>5 DEF ChannelInv, AverageInv, PieceInv

\* The reset that ends a recalibration.
LEMMA ResetChannelInv ==
  ASSUME NEW c, ChannelInv(c), NEW d, d = ResetChannel(c)
  PROVE  /\ ChannelInv(d) /\ d.count = c.count
         /\ d.samples = 0 /\ d.stdV = 0
<1>1. c \in ChannelState
  BY DEF ChannelInv
<1>2. 0 \in Nat /\ 0 \in 0 .. AD_MAX_V - 1 /\ 0 \in 0 .. U16 - 1
  BY SampleFacts, SMT
<1>3. d \in ChannelState
  BY <1>1, <1>2, Zenon DEF ChannelState, ResetChannel
<1>4. /\ d.since = c.since /\ d.step = 0 /\ d.count = c.count
      /\ d.samples = 0 /\ d.stdV = 0
      /\ d.oldSum = c.oldSum /\ d.oldIdx = c.oldIdx
  BY <1>1, SMT DEF ChannelState, ResetChannel
<1>. QED BY <1>3, <1>4 DEF ChannelInv, AverageInv, PieceInv

\* The clearing of a count.
LEMMA ClearChannelInv ==
  ASSUME NEW c, ChannelInv(c), NEW d, d = ClearChannel(c)
  PROVE  /\ ChannelInv(d) /\ ~ (d.count > c.count)
         /\ d.samples = c.samples /\ d.stdV = c.stdV
<1>1. c \in ChannelState
  BY DEF ChannelInv
<1>2. c.count \in Nat
  BY <1>1, ChannelFields
<1>3. d \in ChannelState
  <2>1. 0 \in Nat
    OBVIOUS
  <2>. QED BY <1>1, <2>1, Zenon DEF ChannelState, ClearChannel
<1>4. /\ d.since = c.since /\ d.step = c.step /\ d.up = c.up
      /\ d.down = c.down /\ d.count = 0 /\ d.samples = c.samples
      /\ d.stdV = c.stdV
      /\ d.oldSum = c.oldSum /\ d.oldIdx = c.oldIdx
  BY <1>1, SMT DEF ChannelState, ClearChannel
<1>5. ~ (d.count > c.count)
  BY <1>2, <1>4, SMT
<1>. QED BY <1>3, <1>4, <1>5 DEF ChannelInv, AverageInv, PieceInv

-----------------------------------------------------------------------------
(* The specification.                                                      *)

\* The variables other than ch.
SystemType ==
  /\ process_rdy \in 0 .. PROCESS_RDY \cup {PROCESS_RDY + PROCESS_RDY}
  /\ process_rdy_old \in 0 .. PROCESS_RDY
  /\ sampled \in BOOLEAN
  /\ wave_up_value \in Nat
  /\ total \in Nat
  /\ status \in Status
  /\ fault \in BOOLEAN
  /\ pc \in [Calibrator -> {"boot", "idle", "adjust", "reset", "done"}]

\* process_rdy_old lags process_rdy by the tick that has not been sampled yet;
\* only the first tick after a reset may find any older value in it.
ClockInv ==
  /\ process_rdy \in 2 .. PROCESS_RDY - 1 =>
       process_rdy_old = IF sampled THEN process_rdy ELSE process_rdy - 1
  /\ process_rdy = 1 /\ sampled => process_rdy_old = 1
  /\ process_rdy = PROCESS_RDY - 1 => ~ sampled

\* The samples a running calibration has added so far.
Taken(rdy, smp) ==
  IF rdy <= START_DATA THEN 0
  ELSE IF smp THEN rdy - START_DATA ELSE rdy - START_DATA - 1

CalibrationInv ==
  /\ process_rdy < PROCESS_RDY =>
       \A c \in Channel : /\ ch[c].samples = Taken(process_rdy, sampled)
                          /\ ch[c].stdV <= ch[c].samples * Share
  /\ BaselineComplete

ChannelsInv ==
  /\ ch \in [Channel -> ChannelState]
  /\ \A c \in Channel : ChannelInv(ch[c])

\* The inductive invariant.
IInv == SystemType /\ ClockInv /\ ChannelsInv /\ CalibrationInv

\* What a step may do to the counts.
CountStep ==
  \A c \in Channel :
    ch'[c].count > ch[c].count => ch[c].since >= PieceTime - 1

\* The initial state satisfies the invariant.
LEMMA InitInv == Init => IInv
<1>. SUFFICES ASSUME Init PROVE IInv
  OBVIOUS
<1>1. SystemType
  <2>1. 0 \in Nat /\ 0 \in 0 .. PROCESS_RDY
    BY ClockFacts, SMT
  <2>2. wave_up_value \in Nat
    BY SampleAssumption DEF Init
  <2>3. pc \in [Calibrator -> {"boot", "idle", "adjust", "reset", "done"}]
    BY DEF Init
  <2>. QED BY <2>1, <2>2, <2>3 DEF Init, SystemType, Status
<1>2. ClockInv
  BY ClockFacts, SMT DEF Init, ClockInv
<1>3. ChannelInv(BootChannel)
  <2>1. /\ 0 \in Nat /\ 0 \in 0 .. WAVE_DOWN /\ 0 \in 0 .. WAVE_UP
        /\ 0 \in 0 .. U16 - 1 /\ 0 \in 0 .. AD_MAX_V - 1
        /\ PieceTime \in 0 .. PieceTime
    BY WaveFacts, SampleFacts, SampleAssumption, SMT
  <2>2. BootChannel \in ChannelState
    BY <2>1, Zenon DEF ChannelState, BootChannel
  <2>3. BootChannel.step = 0 /\ BootChannel.oldSum = 0 /\ BootChannel.oldIdx = 0
    BY DEF BootChannel
  <2>. QED BY <2>2, <2>3, SampleFacts, SMT DEF ChannelInv, AverageInv, PieceInv
<1>4. ChannelsInv
  BY <1>3 DEF Init, ChannelsInv, ChannelInv
<1>5. CalibrationInv
  <2>1. ~ (process_rdy < PROCESS_RDY) /\ process_rdy # PROCESS_RDY
    BY ClockFacts, SMT DEF Init
  <2>. QED BY <2>1 DEF CalibrationInv, BaselineComplete
<1>. QED BY <1>1, <1>2, <1>4, <1>5 DEF IInv

\* The two halves of a calibrating interrupt: the samples of one tick are added at
\* most once, and the last tick completes them.
LEMMA SamplesInv ==
  ASSUME IInv, process_rdy < PROCESS_RDY, NEW c \in Channel, NEW ad \in AdValue,
         NEW d, d = AddShare(ch[c], ad)
  PROVE  /\ ChannelInv(d) /\ d.count = ch[c].count
         /\ d.samples = Taken(process_rdy, TRUE)
         /\ d.stdV <= d.samples * Share
<1>1. /\ process_rdy \in Nat /\ sampled \in BOOLEAN
      /\ process_rdy_old \in Nat
  BY ClockFacts, SMT DEF IInv, SystemType
<1>2. /\ ChannelInv(ch[c])
      /\ ch[c].samples = Taken(process_rdy, sampled)
      /\ ch[c].stdV <= ch[c].samples * Share
  BY DEF IInv, ChannelsInv, CalibrationInv
<1>3. CASE Sampling
  <2>1. /\ ~ sampled
        /\ Taken(process_rdy, sampled) < Shares
        /\ Taken(process_rdy, TRUE) = Taken(process_rdy, sampled) + 1
    BY <1>1, <1>3, ClockFacts, SMT DEF IInv, ClockInv, Sampling, Taken
  <2>. QED BY <1>2, <1>3, <2>1, AddShareInv
<1>4. CASE ~ Sampling
  <2>1. Taken(process_rdy, TRUE) = Taken(process_rdy, sampled)
    BY <1>1, <1>4, ClockFacts, SMT DEF IInv, ClockInv, Sampling, Taken
  <2>. QED BY <1>2, <1>4, <2>1 DEF AddShare
<1>. QED BY <1>3, <1>4

\* The whole interrupt while the baseline is measured.
LEMMA DmaCalibrateInv ==
  ASSUME IInv, DmaCalibrate
  PROVE  IInv' /\ CountStep
<1>. USE DEF DmaCalibrate
<1>1. PICK ad \in [Channel -> AdValue] :
        IF process_rdy + 1 = PROCESS_RDY
        THEN /\ ch' = [c \in Channel |-> SetThresholds(AddShare(ch[c], ad[c]))]
             /\ wave_up_value' = STD_V_OFFSET \div 2
             /\ process_rdy' = PROCESS_RDY
             /\ status' = CalibratedStatus
             /\ UNCHANGED process_rdy_old
        ELSE /\ ch' = [c \in Channel |-> AddShare(ch[c], ad[c])]
             /\ process_rdy_old' = process_rdy
             /\ UNCHANGED <<process_rdy, status, wave_up_value>>
  OBVIOUS
<1>2. /\ process_rdy \in Nat /\ process_rdy < PROCESS_RDY
      /\ sampled \in BOOLEAN
  BY ClockFacts, SMT DEF IInv, SystemType
<1>3. \A c \in Channel :
        /\ ChannelInv(AddShare(ch[c], ad[c]))
        /\ AddShare(ch[c], ad[c]).count = ch[c].count
        /\ AddShare(ch[c], ad[c]).samples = Taken(process_rdy, TRUE)
        /\ AddShare(ch[c], ad[c]).stdV <= AddShare(ch[c], ad[c]).samples * Share
  BY <1>2, SamplesInv
<1>4. ASSUME NEW c \in Channel, ch'[c].count = ch[c].count
      PROVE  ~ (ch'[c].count > ch[c].count)
  <2>1. ch[c].count \in Nat
    BY ChannelFields DEF IInv, ChannelsInv
  <2>. QED BY <1>4, <2>1, SMT
<1>5. CASE process_rdy + 1 = PROCESS_RDY
  <2>1. \A c \in Channel :
          /\ ChannelInv(ch'[c]) /\ ch'[c].count = ch[c].count
          /\ ch'[c].samples = Taken(process_rdy, TRUE)
    <3>. TAKE c \in Channel
    <3>1. PICK e : e = AddShare(ch[c], ad[c])
      OBVIOUS
    <3>2. ch'[c] = SetThresholds(e)
      BY <1>1, <1>5, <3>1
    <3>3. /\ ChannelInv(e) /\ e.count = ch[c].count
          /\ e.samples = Taken(process_rdy, TRUE)
      BY <1>3, <3>1
    <3>. QED BY <3>2, <3>3, SetThresholdsInv
  <2>2. SystemType'
    <3>1. STD_V_OFFSET \div 2 \in Nat
      <4>. HIDE DEF U16
      <4>. QED BY SampleFacts, SMT
    <3>2. CalibratedStatus \in Status
      BY DEF IInv, SystemType, CalibratedStatus, Status
    <3>. QED BY <1>1, <1>5, <3>1, <3>2, ClockFacts DEF IInv, SystemType
  <2>3. ClockInv'
    BY <1>1, <1>5, ClockFacts, SMT DEF ClockInv
  <2>4. ChannelsInv'
    BY <1>1, <1>5, <2>1 DEF ChannelsInv, ChannelInv
  <2>5. CalibrationInv'
    <3>1. Taken(process_rdy, TRUE) = Shares
      BY <1>2, <1>5, ClockFacts, SMT DEF Taken
    <3>2. ~ (process_rdy' < PROCESS_RDY)
      BY <1>1, <1>5, ClockFacts, SMT
    <3>3. \A c \in Channel : ch'[c].samples = Shares
      BY <2>1, <3>1
    <3>. QED BY <3>2, <3>3 DEF CalibrationInv, BaselineComplete
  <2>6. CountStep
    BY <1>4, <2>1 DEF CountStep
  <2>. QED BY <2>2, <2>3, <2>4, <2>5, <2>6 DEF IInv
<1>6. CASE process_rdy + 1 # PROCESS_RDY
  <2>1. \A c \in Channel :
          /\ ChannelInv(ch'[c]) /\ ch'[c].count = ch[c].count
          /\ ch'[c].samples = Taken(process_rdy, TRUE)
          /\ ch'[c].stdV <= ch'[c].samples * Share
    BY <1>1, <1>3, <1>6
  <2>2. SystemType'
    <3>1. process_rdy \in 0 .. PROCESS_RDY
      BY <1>2, ClockFacts, SMT
    <3>. QED BY <1>1, <1>6, <3>1 DEF IInv, SystemType
  <2>3. ClockInv'
    BY <1>1, <1>2, <1>6, ClockFacts, SMT DEF ClockInv
  <2>4. ChannelsInv'
    BY <1>1, <1>6, <2>1 DEF ChannelsInv, ChannelInv
  <2>5. CalibrationInv'
    <3>1. sampled' = TRUE /\ process_rdy' = process_rdy
      BY <1>1, <1>6
    <3>2. process_rdy # PROCESS_RDY
      BY <1>2, ClockFacts, SMT
    <3>. QED BY <2>1, <3>1, <3>2 DEF CalibrationInv, BaselineComplete
  <2>6. CountStep
    BY <1>4, <2>1 DEF CountStep
  <2>. QED BY <2>2, <2>3, <2>4, <2>5, <2>6 DEF IInv
<1>. QED BY <1>5, <1>6

\* The whole interrupt while pieces are counted.
LEMMA DmaDetectInv ==
  ASSUME IInv, DmaDetect
  PROVE  IInv' /\ CountStep
<1>1. PICK ad \in [Channel -> AdValue], cycle \in Cycle : DetectOn(ad, cycle)
  BY DEF DmaDetect
<1>2. /\ process_rdy >= PROCESS_RDY /\ process_rdy' = process_rdy
      /\ process_rdy_old' = process_rdy_old /\ sampled' = TRUE
      /\ ch' = [c \in Channel |-> Detect(ch[c], ad[c], cycle, wave_up_value)]
      /\ total' = total + Cardinality(Counted(ad))
      /\ status' = (IF TimeError(cycle) THEN "ADC_TIME_ERROR" ELSE status)
      /\ UNCHANGED <<wave_up_value, fault, pc>>
  BY <1>1 DEF DetectOn
<1>3. ch \in [Channel -> ChannelState] /\ \A c \in Channel : ChannelInv(ch[c])
  BY DEF IInv, ChannelsInv
<1>4. \A c \in Channel :
        /\ ChannelInv(ch'[c]) /\ ch'[c].samples = ch[c].samples
        /\ ch'[c].count > ch[c].count => ch[c].since >= PieceTime - 1
  BY <1>2, <1>3, DetectInv
<1>5. SystemType'
  <2>1. Cardinality(Counted(ad)) \in Nat
    BY SystemAssumption, FS_Subset, FS_CardinalityType DEF Counted
  <2>2. total' \in Nat
    BY <1>2, <2>1, SMT DEF IInv, SystemType
  <2>. QED BY <1>2, <2>2 DEF IInv, SystemType, Status
<1>6. process_rdy \in Nat
  BY ClockFacts, SMT DEF IInv, SystemType
<1>7. ClockInv'
  BY <1>2, <1>6, ClockFacts, SMT DEF ClockInv
<1>8. ChannelsInv'
  BY <1>2, <1>4 DEF ChannelsInv, ChannelInv
<1>9. CalibrationInv'
  <2>1. ~ (process_rdy < PROCESS_RDY)
    BY <1>2, <1>6, ClockFacts, SMT
  <2>. QED BY <1>2, <1>4, <2>1 DEF IInv, CalibrationInv, BaselineComplete
<1>10. CountStep
  BY <1>4 DEF CountStep
<1>. QED BY <1>5, <1>7, <1>8, <1>9, <1>10 DEF IInv

\* A tick of the clock, after an interrupt has sampled the previous one.
LEMMA TickInv ==
  ASSUME IInv, Tick
  PROVE  IInv' /\ ch' = ch
<1>. USE DEF Tick
<1>1. process_rdy \in Nat /\ sampled = TRUE
  BY ClockFacts, SMT DEF IInv, SystemType
<1>2. SystemType'
  <2>1. process_rdy + 1 \in 0 .. PROCESS_RDY
    BY <1>1, ClockFacts, SMT
  <2>. QED BY <2>1 DEF IInv, SystemType
<1>3. ClockInv'
  BY <1>1, ClockFacts, SMT DEF IInv, ClockInv
<1>4. ChannelsInv'
  BY DEF IInv, ChannelsInv
<1>5. CalibrationInv'
  <2>1. /\ process_rdy < PROCESS_RDY /\ process_rdy + 1 # PROCESS_RDY
        /\ Taken(process_rdy + 1, FALSE) = Taken(process_rdy, TRUE)
    BY <1>1, ClockFacts, SMT DEF Taken
  <2>2. /\ process_rdy' = process_rdy + 1 /\ sampled' = FALSE /\ ch' = ch
    OBVIOUS
  <2>. QED BY <1>1, <2>1, <2>2
           DEF IInv, CalibrationInv, BaselineComplete
<1>. QED BY <1>2, <1>3, <1>4, <1>5 DEF IInv

\* The steps of a task: only the last one of a recalibration touches the clock.
LEMMA RecalStartInv ==
  ASSUME IInv, NEW t \in Calibrator, RecalStart(t)
  PROVE  IInv' /\ ch' = ch
<1>. USE DEF RecalStart
<1>1. SystemType'
  BY DEF IInv, SystemType, Status
<1>2. ClockInv' /\ ChannelsInv' /\ CalibrationInv'
  BY DEF IInv, ClockInv, ChannelsInv, CalibrationInv, BaselineComplete
<1>. QED BY <1>1, <1>2 DEF IInv

\* A pass of the adjustment records the fault it finds.
LEMMA CalPassInv ==
  ASSUME IInv, NEW t \in Calibrator, CalPass(t)
  PROVE  IInv' /\ ch' = ch
<1>. USE DEF CalPass
<1>1. PICK saturated \in Saturation, updated \in BOOLEAN :
        /\ status' = IF saturated THEN "DETECTOR_ERROR" ELSE status
        /\ fault' = (fault \/ saturated)
        /\ pc' = [pc EXCEPT ![t] = IF updated THEN "adjust" ELSE "reset"]
  OBVIOUS
<1>2. SystemType'
  <2>1. fault' \in BOOLEAN /\ status' \in Status
    BY <1>1, SystemAssumption DEF IInv, SystemType, Status
  <2>2. pc' \in [Calibrator -> {"boot", "idle", "adjust", "reset", "done"}]
    BY <1>1 DEF IInv, SystemType
  <2>. QED BY <2>1, <2>2 DEF IInv, SystemType
<1>3. ClockInv' /\ ChannelsInv' /\ CalibrationInv'
  BY DEF IInv, ClockInv, ChannelsInv, CalibrationInv, BaselineComplete
<1>. QED BY <1>2, <1>3 DEF IInv

\* The reset starts a calibration with no sample in any baseline.
LEMMA RecalResetInv ==
  ASSUME IInv, NEW t \in Calibrator, RecalReset(t)
  PROVE  IInv' /\ \A c \in Channel : ch'[c].count = ch[c].count
<1>. USE DEF RecalReset
<1>1. \A c \in Channel :
        /\ ChannelInv(ch'[c]) /\ ch'[c].count = ch[c].count
        /\ ch'[c].samples = 0 /\ ch'[c].stdV = 0
  <2>1. \A c \in Channel : ch'[c] = ResetChannel(ch[c])
    OBVIOUS
  <2>. QED BY <2>1, ResetChannelInv DEF IInv, ChannelsInv
<1>2. SystemType'
  <2>1. 0 \in 0 .. PROCESS_RDY
    BY ClockFacts, SMT
  <2>. QED BY <2>1 DEF IInv, SystemType
<1>3. ClockInv'
  BY ClockFacts, SMT DEF ClockInv
<1>4. ChannelsInv'
  BY <1>1 DEF ChannelsInv, ChannelInv
<1>5. CalibrationInv'
  <2>1. process_rdy' = 0 /\ Taken(0, sampled') = 0
    BY ClockFacts, SMT DEF Taken
  <2>2. 0 # PROCESS_RDY /\ 0 <= 0 * Share
    BY ClockFacts, ShareFacts, SMT
  <2>. QED BY <1>1, <2>1, <2>2 DEF CalibrationInv, BaselineComplete
<1>. QED BY <1>1, <1>2, <1>3, <1>4, <1>5 DEF IInv

\* Clearing the counts touches neither the clock nor a baseline.
LEMMA ClearCountsInv ==
  ASSUME IInv, NEW t \in Calibrator, ClearCounts(t)
  PROVE  IInv' /\ CountStep
<1>. USE DEF ClearCounts
<1>1. \A c \in Channel :
        /\ ChannelInv(ch'[c]) /\ ~ (ch'[c].count > ch[c].count)
        /\ ch'[c].samples = ch[c].samples /\ ch'[c].stdV = ch[c].stdV
  <2>1. \A c \in Channel : ch'[c] = ClearChannel(ch[c])
    OBVIOUS
  <2>. QED BY <2>1, ClearChannelInv DEF IInv, ChannelsInv
<1>2. SystemType'
  BY DEF IInv, SystemType
<1>3. ClockInv'
  BY DEF IInv, ClockInv
<1>4. ChannelsInv'
  BY <1>1 DEF ChannelsInv, ChannelInv
<1>5. CalibrationInv'
  BY <1>1 DEF IInv, CalibrationInv, BaselineComplete
<1>6. CountStep
  BY <1>1 DEF CountStep
<1>. QED BY <1>2, <1>3, <1>4, <1>5, <1>6 DEF IInv

\* Every step preserves the invariant and counts a piece only after all of it.
LEMMA NextInv ==
  ASSUME IInv, [Next]_vars
  PROVE  IInv' /\ [CountStep]_vars
<1>1. CASE DmaCalibrate
  BY <1>1, DmaCalibrateInv
<1>2. CASE DmaDetect
  BY <1>2, DmaDetectInv
<1>3. ASSUME \A c \in Channel : ch'[c].count = ch[c].count
      PROVE  CountStep
  <2>. SUFFICES ASSUME NEW c \in Channel
                PROVE  ~ (ch'[c].count > ch[c].count)
    BY DEF CountStep
  <2>1. ch[c].count \in Nat /\ ch'[c].count = ch[c].count
    BY <1>3, ChannelFields DEF IInv, ChannelsInv
  <2>. QED BY <2>1, SMT
<1>4. CASE Tick
  BY <1>3, <1>4, TickInv
<1>5. ASSUME NEW t \in Calibrator,
             RecalStart(t) \/ CalPass(t) \/ RecalReset(t) \/ ClearCounts(t)
      PROVE  IInv' /\ CountStep
  <2>1. CASE RecalStart(t)
    BY <1>3, <2>1, RecalStartInv
  <2>2. CASE CalPass(t)
    BY <1>3, <2>2, CalPassInv
  <2>3. CASE RecalReset(t)
    BY <1>3, <2>3, RecalResetInv
  <2>4. CASE ClearCounts(t)
    BY <2>4, ClearCountsInv
  <2>. QED BY <1>5, <2>1, <2>2, <2>3, <2>4
<1>6. CASE UNCHANGED vars
  BY <1>6 DEF vars, IInv, SystemType, ClockInv, ChannelsInv, CalibrationInv,
              BaselineComplete
<1>. QED BY <1>1, <1>2, <1>4, <1>5, <1>6 DEF Next

\* The inductive invariant holds in every reachable state.
THEOREM InductiveInvariant == Spec => []IInv
<1>1. Init => IInv
  BY InitInv
<1>2. IInv /\ [Next]_vars => IInv'
  BY NextInv
<1>. QED BY <1>1, <1>2, PTL DEF Spec

\* The variables keep their types: in particular a baseline built from Shares
\* shares, or averaged while the channel is idle, is a value the converter can
\* deliver.
THEOREM TypeCorrect == Spec => []TypeOK
<1>1. IInv => TypeOK
  BY DEF IInv, SystemType, ChannelsInv, TypeOK
<1>. QED BY <1>1, InductiveInvariant, PTL

\* Whatever recalibrations are cut short and wherever the ticks fall, the baseline
\* of a finished calibration is the sum of exactly Shares samples.
THEOREM BaselineIsComplete == Spec => []BaselineComplete
<1>1. IInv => BaselineComplete
  BY DEF IInv, CalibrationInv
<1>. QED BY <1>1, InductiveInvariant, PTL

\* No channel counts a piece before all three phases of it have been sampled since
\* the count before, whatever the beam does and whenever it is recalibrated.
THEOREM NeverCountedTwice == Spec => NoDoubleCount
<1>1. IInv /\ [Next]_vars => [CountStep]_vars
  BY NextInv
<1>. QED BY <1>1, InductiveInvariant, PTL DEF Spec, NoDoubleCount, CountStep

-----------------------------------------------------------------------------
(* A fault found by calibration.                                           *)

FaultInv == fault => status = "DETECTOR_ERROR"

\* Unless an interrupt is late, only the start of another recalibration replaces
\* the report of a saturated detector.  (A late one reports ADC_TIME_ERROR over
\* it, and the end of the next calibration then reports RUNNING_OK.)
THEOREM FaultIsKept ==
  ASSUME \A cycle \in Cycle : ~ (cycle > CYCLE_LIMIT)
  PROVE  Spec => []FaultKept
<1>1. Init => FaultInv
  BY DEF Init, FaultInv
<1>2. FaultInv /\ [Next]_vars => FaultInv'
  <2>. SUFFICES ASSUME FaultInv, [Next]_vars PROVE FaultInv'
    OBVIOUS
  <2>1. CASE DmaCalibrate
    BY <2>1 DEF DmaCalibrate, FaultInv, CalibratedStatus
  <2>2. CASE DmaDetect
    BY <2>2 DEF DmaDetect, DetectOn, FaultInv, TimeError
  <2>3. CASE Tick
    BY <2>3 DEF Tick, FaultInv
  <2>4. ASSUME NEW t \in Calibrator,
               RecalStart(t) \/ CalPass(t) \/ RecalReset(t) \/ ClearCounts(t)
        PROVE  FaultInv'
    <3>1. CASE RecalStart(t)
      BY <3>1 DEF RecalStart, FaultInv
    <3>2. CASE CalPass(t)
      BY <3>2 DEF CalPass, FaultInv
    <3>3. CASE RecalReset(t) \/ ClearCounts(t)
      BY <3>3 DEF RecalReset, ClearCounts, FaultInv
    <3>. QED BY <2>4, <3>1, <3>2, <3>3
  <2>5. CASE UNCHANGED vars
    BY <2>5 DEF vars, FaultInv
  <2>. QED BY <2>1, <2>2, <2>3, <2>4, <2>5 DEF Next
<1>3. FaultInv => FaultKept
  BY DEF FaultInv, FaultKept
<1>. QED BY <1>1, <1>2, <1>3, PTL DEF Spec

-----------------------------------------------------------------------------
(* The adjustment and the piece output.                                    *)

\* The adjustment is under way: the baseline is measured, or a task has still to reset
\* the clock that begins it.
UnderAdjustment ==
  process_rdy < PROCESS_RDY \/ \E t \in Calibrator : pc[t] \in {"adjust", "reset"}

Adjusting == status = "IR_ADJ" => UnderAdjustment

\* What CalibrationCompletes rests on, besides fairness: the status IR_ADJ, in which a
\* host waits, never stands with nothing on its way to replace it, although several
\* tasks calibrate at once and each resets the clock of the others.
THEOREM AdjustmentIsUnderWay == Spec => []Adjusting
<1>1. Init => Adjusting
  BY DEF Init, Adjusting
<1>2. IInv /\ Adjusting /\ [Next]_vars => Adjusting'
  <2>. SUFFICES ASSUME IInv, Adjusting, [Next]_vars PROVE Adjusting'
    OBVIOUS
  <2>1. CASE DmaCalibrate
    <3>1. CASE process_rdy + 1 = PROCESS_RDY
      BY <2>1, <3>1 DEF DmaCalibrate, CalibratedStatus, Adjusting
    <3>2. CASE process_rdy + 1 # PROCESS_RDY
      BY <2>1, <3>2 DEF DmaCalibrate, Adjusting, UnderAdjustment
    <3>. QED BY <3>1, <3>2
  <2>2. CASE DmaDetect
    BY <2>2 DEF DmaDetect, DetectOn, Adjusting, UnderAdjustment
  <2>3. CASE Tick
    BY <2>3, ClockFacts DEF Tick, Adjusting, UnderAdjustment, IInv, SystemType
  <2>4. ASSUME NEW t \in Calibrator,
               RecalStart(t) \/ CalPass(t) \/ RecalReset(t) \/ ClearCounts(t)
        PROVE  Adjusting'
    <3>1. CASE RecalStart(t) \/ CalPass(t)
      <4>1. pc'[t] \in {"adjust", "reset"}
        BY <3>1 DEF RecalStart, CalPass, IInv, SystemType
      <4>. QED BY <4>1 DEF Adjusting, UnderAdjustment
    <3>2. CASE RecalReset(t)
      BY <3>2, ClockFacts DEF RecalReset, Adjusting, UnderAdjustment
    <3>3. CASE ClearCounts(t)
      BY <3>3 DEF ClearCounts, Adjusting, UnderAdjustment
    <3>. QED BY <2>4, <3>1, <3>2, <3>3
  <2>5. CASE UNCHANGED vars
    BY <2>5 DEF vars, Adjusting, UnderAdjustment
  <2>. QED BY <2>1, <2>2, <2>3, <2>4, <2>5 DEF Next
<1>. QED BY <1>1, <1>2, InductiveInvariant, PTL DEF Spec

\* The piece output of one channel: active from the confirmed dip to the confirmed
\* return, inactive between two pieces.
OutputInv(c) ==
  /\ c.step = 6 => c.pieceIn = 1
  /\ c.step \in {16, 31} => c.pieceIn = 0

Outputs == \A c \in Channel : OutputInv(ch[c])

\* The history does not touch the output.
LEMMA SinceOutput ==
  ASSUME NEW e \in ChannelState, OutputInv(e), NEW s
  PROVE  OutputInv([e EXCEPT !.since = s])
BY SMT DEF OutputInv, ChannelState

\* The step machine moves the output with the step.
LEMMA DetectOutput ==
  ASSUME NEW c, ChannelInv(c), OutputInv(c),
         NEW ad \in AdValue, NEW cycle \in Cycle, NEW rise
  PROVE  OutputInv(Detect(c, ad, cycle, rise))
<1>0. c \in ChannelState
  BY DEF ChannelInv
<1>1. PICK e : e = CASE c.step = 0  -> StartStep(c)
                     [] c.step = 6  -> WatchStep(c, ad, cycle)
                     [] c.step = 16 -> TroughStep(c, ad, rise)
                     [] c.step = 31 -> RecoverStep(c, ad)
  OBVIOUS
<1>2. PICK s : Detect(c, ad, cycle, rise) = [e EXCEPT !.since = s]
  BY <1>1 DEF Detect
<1>3. CASE c.step = 0
  <2>1. e = StartStep(c)
    BY <1>1, <1>3
  <2>2. StepRight(c, e)
    BY <2>1, StartStepInv
  <2>3. OutputInv(e)
    BY <1>0, <2>1, SMT DEF StartStep, OutputInv, ChannelState
  <2>. QED BY <1>2, <2>2, <2>3, SinceOutput DEF StepRight
<1>4. CASE c.step = 6
  <2>1. e = WatchStep(c, ad, cycle)
    BY <1>1, <1>4
  <2>2. StepRight(c, e)
    BY <1>4, <2>1, DipInv, QuietInv DEF WatchStep
  <2>3. OutputInv(Dip(c, ad))
    BY <1>0, <1>4, SMT DEF Dip, OutputInv, ChannelState
  <2>4. OutputInv(Quiet(c, ad, cycle))
    BY <1>0, <1>4, SMT DEF Quiet, Rebase, OutputInv, ChannelState
  <2>5. OutputInv(e)
    BY <2>1, <2>3, <2>4 DEF WatchStep
  <2>. QED BY <1>2, <2>2, <2>5, SinceOutput DEF StepRight
<1>5. CASE c.step = 16
  <2>1. e = TroughStep(c, ad, rise)
    BY <1>1, <1>5
  <2>2. StepRight(c, e)
    BY <1>5, <2>1, TroughStepInv
  <2>3. OutputInv(e)
    BY <1>0, <1>5, <2>1, SMT DEF TroughStep, OutputInv, ChannelState
  <2>. QED BY <1>2, <2>2, <2>3, SinceOutput DEF StepRight
<1>6. CASE c.step = 31
  <2>1. e = RecoverStep(c, ad)
    BY <1>1, <1>6
  <2>2. StepRight(c, e)
    BY <1>6, <2>1, RecoverStepInv, RecoveredInv
  <2>3. OutputInv(e)
    BY <1>0, <1>6, <2>1, SMT DEF RecoverStep, OutputInv, ChannelState
  <2>. QED BY <1>2, <2>2, <2>3, SinceOutput DEF StepRight
<1>. QED BY <1>0, <1>3, <1>4, <1>5, <1>6, SMT DEF ChannelState

\* What OutputReleased rests on, besides fairness: the output of a channel that watches
\* its beam is inactive and that of one in a wave is active, so that only a wave that
\* does not end can hold it; a channel that a recalibration restarts keeps it only to
\* its first interrupt.
THEOREM OutputFollowsWave == Spec => []Outputs
<1>1. Init => Outputs
  BY DEF Init, Outputs, OutputInv, BootChannel
<1>2. IInv /\ Outputs /\ [Next]_vars => Outputs'
  <2>. SUFFICES ASSUME IInv, Outputs, [Next]_vars, NEW c \in Channel
                PROVE  OutputInv(ch'[c])
    BY DEF Outputs
  <2>0. ch[c] \in ChannelState /\ ChannelInv(ch[c]) /\ OutputInv(ch[c])
    BY DEF IInv, ChannelsInv, Outputs
  <2>1. CASE DmaCalibrate
    <3>1. PICK ad \in [Channel -> AdValue] :
            ch'[c] \in {SetThresholds(AddShare(ch[c], ad[c])), AddShare(ch[c], ad[c])}
      BY <2>1 DEF DmaCalibrate
    <3>. QED BY <2>0, <3>1 DEF SetThresholds, AddShare, OutputInv, ChannelState
  <2>2. CASE DmaDetect
    <3>1. PICK ad \in [Channel -> AdValue], cycle \in Cycle :
            ch'[c] = Detect(ch[c], ad[c], cycle, wave_up_value)
      BY <2>2 DEF DmaDetect, DetectOn
    <3>. QED BY <2>0, <3>1, DetectOutput
  <2>3. CASE Tick
    BY <2>0, <2>3 DEF Tick
  <2>4. ASSUME NEW t \in Calibrator,
               RecalStart(t) \/ CalPass(t) \/ RecalReset(t) \/ ClearCounts(t)
        PROVE  OutputInv(ch'[c])
    <3>1. CASE RecalStart(t) \/ CalPass(t)
      BY <2>0, <3>1 DEF RecalStart, CalPass
    <3>2. CASE RecalReset(t)
      <4>1. ch'[c] = ResetChannel(ch[c])
        BY <3>2 DEF RecalReset
      <4>2. ResetChannel(ch[c]).step = 0
        BY <2>0, SMT DEF ResetChannel, ChannelState
      <4>. QED BY <4>1, <4>2, SMT DEF OutputInv
    <3>3. CASE ClearCounts(t)
      BY <2>0, <3>3 DEF ClearCounts, ClearChannel, OutputInv, ChannelState
    <3>. QED BY <2>4, <3>1, <3>2, <3>3
  <2>5. CASE UNCHANGED vars
    BY <2>0, <2>5 DEF vars
  <2>. QED BY <2>1, <2>2, <2>3, <2>4, <2>5 DEF Next
<1>. QED BY <1>1, <1>2, InductiveInvariant, PTL DEF Spec

-----------------------------------------------------------------------------
(* The thresholds.                                                         *)

\* Before the window there is no average; the one a channel will take over is of at
\* least one sample, and no less than the depth that will be subtracted from it, unless
\* the window was dark.
RangeInv(c) ==
  /\ c.idle > 0 /\ c.idle < ADJ_PERIOD => c.oldIdx = 0 /\ c.oldSum = 0
  /\ c.idle >= ADJ_PERIOD /\ ~ c.dark
       => c.oldIdx > 0 /\ c.oldIdx * STD_V_OFFSET <= c.oldSum

\* What a step does to the threshold of a channel.
ReachStep(c, d) == OutOfReach(d) => OutOfReach(c) \/ c.dark

SameRange(c, d) ==
  /\ d.stdUp = c.stdUp /\ d.dark = c.dark
  /\ d.oldIdx = c.oldIdx /\ d.oldSum = c.oldSum /\ d.idle = c.idle

\* The steps that leave the average and the thresholds alone.
LEMMA SameRangeSteps ==
  ASSUME NEW c \in ChannelState, NEW ad, NEW rise
  PROVE  /\ SameRange(c, StartStep(c))
         /\ SameRange(c, TroughStep(c, ad, rise))
         /\ SameRange(c, RecoverStep(c, ad))
         /\ SameRange(c, AddShare(c, ad))
         /\ SameRange(c, ClearChannel(c))
<1>1. SameRange(c, StartStep(c))
  BY SMT DEF SameRange, StartStep, ChannelState
<1>2. SameRange(c, TroughStep(c, ad, rise))
  BY SMT DEF SameRange, TroughStep, ChannelState
<1>3. SameRange(c, RecoverStep(c, ad))
  BY SMT DEF SameRange, RecoverStep, ChannelState
<1>4. SameRange(c, AddShare(c, ad))
  BY SMT DEF SameRange, AddShare, ChannelState
<1>5. SameRange(c, ClearChannel(c))
  BY SMT DEF SameRange, ClearChannel, ChannelState
<1>. QED BY <1>1, <1>2, <1>3, <1>4, <1>5

\* A channel whose average and thresholds are kept stays in range.
LEMMA SameRangeKeeps ==
  ASSUME NEW c, NEW d, RangeInv(c), SameRange(c, d)
  PROVE  RangeInv(d) /\ ReachStep(c, d)
BY DEF RangeInv, SameRange, ReachStep, OutOfReach

\* A dip restarts the idle time.
LEMMA DipRange ==
  ASSUME NEW c \in ChannelState, NEW ad
  PROVE  RangeInv(Dip(c, ad)) /\ ReachStep(c, Dip(c, ad))
<1>. DEFINE d == Dip(c, ad)
<1>1. d.stdUp = c.stdUp /\ d.idle = 0
  BY SMT DEF Dip, ChannelState
<1>2. ~ (0 >= ADJ_PERIOD) /\ ~ (0 > 0)
  BY TimingAssumption, SMT
<1>. QED BY <1>1, <1>2 DEF RangeInv, ReachStep, OutOfReach

\* A baseline taken over after twice the period is a quotient of a sum that has
\* terms, each of them at least STD_V_OFFSET, unless the window was dark.
LEMMA QuietRange ==
  ASSUME NEW c \in ChannelState, RangeInv(c), NEW ad \in AdValue,
         AverageInv(c), NEW cycle \in Cycle
  PROVE  RangeInv(Quiet(c, ad, cycle)) /\ ReachStep(c, Quiet(c, ad, cycle))
<1>. DEFINE t == c.idle + cycle
            dark == DarkAfter(c, ad, t)
            q == [c EXCEPT !.idle = t, !.down = 0, !.state = "CH_IDLE",
                           !.low = NO_MIN, !.dark = dark]
            d == Quiet(c, ad, cycle)
<1>1. /\ c.idle \in Nat /\ c.oldSum \in Nat /\ c.oldIdx \in Nat
      /\ c.stdUp \in Nat /\ STD_V_OFFSET \in Nat
  BY ChannelFields, SampleFacts, SMT
<1>2. t \in Nat /\ ad \in Nat /\ cycle \in Nat /\ cycle < ADJ_PERIOD
  BY <1>1, TimingFacts, SampleType, SMT
<1>3. /\ q.stdUp = c.stdUp /\ q.oldIdx = c.oldIdx /\ q.oldSum = c.oldSum
      /\ q.idle = t /\ (q.dark <=> dark)
  <2>. HIDE DEF t, dark
  <2>1. /\ q.stdUp = c.stdUp /\ q.oldIdx = c.oldIdx /\ q.oldSum = c.oldSum
        /\ q.idle = t
    BY SMT DEF ChannelState
  <2>2. q.dark = dark
    BY Zenon DEF ChannelState
  <2>. QED BY <2>1, <2>2
<1>4. CASE t < ADJ_PERIOD
  <2>1. ~ (t >= ADJ_PERIOD) /\ ~ (t > 2 * ADJ_PERIOD)
    BY <1>2, <1>4, TimingFacts, SMT
  <2>2. d = [q EXCEPT !.oldSum = 0, !.oldIdx = 0]
    BY <1>4, <2>1, Zenon DEF Quiet
  <2>3. d.stdUp = c.stdUp /\ d.idle = t /\ d.oldIdx = 0 /\ d.oldSum = 0
    <3>. HIDE DEF t, dark
    <3>. QED BY <2>2, SMT DEF ChannelState
  <2>. QED BY <2>1, <2>3 DEF RangeInv, ReachStep, OutOfReach
<1>5. CASE t >= ADJ_PERIOD /\ t < ADJ_PERIOD + ADJ_WINDOW
  <2>1. d = [q EXCEPT !.oldSum = @ + ad, !.oldIdx = @ + 1]
    <3>1. ~ (t < ADJ_PERIOD) /\ ~ (t > 2 * ADJ_PERIOD)
      BY <1>2, <1>5, TimingFacts, SMT
    <3>. QED BY <1>5, <3>1, Zenon DEF Quiet
  <2>2. /\ d.stdUp = c.stdUp /\ (d.dark <=> dark) /\ d.idle = t
        /\ d.oldIdx = c.oldIdx + 1 /\ d.oldSum = c.oldSum + ad
    <3>. HIDE DEF t, dark
    <3>1. /\ d.stdUp = c.stdUp /\ d.idle = q.idle
          /\ d.oldIdx = q.oldIdx + 1 /\ d.oldSum = q.oldSum + ad
      BY <2>1, SMT DEF ChannelState
    <3>2. d.dark = q.dark
      BY <2>1, Zenon DEF ChannelState
    <3>. QED BY <1>3, <3>1, <3>2
  <2>3. ASSUME ~ dark
        PROVE  /\ d.oldIdx > 0 /\ d.oldIdx * STD_V_OFFSET <= d.oldSum
    <3>1. ~ (ad < STD_V_OFFSET) /\ ~ (c.idle >= ADJ_PERIOD /\ c.dark)
      BY <1>5, <2>3 DEF DarkAfter
    <3>2. c.oldIdx * STD_V_OFFSET <= c.oldSum
      <4>1. CASE c.idle >= ADJ_PERIOD
        BY <3>1, <4>1 DEF RangeInv
      <4>2. CASE c.idle < ADJ_PERIOD
        <5>1. c.idle > 0
          BY <1>1, <1>2, <1>5, TimingFacts, SMT
        <5>2. c.oldIdx = 0 /\ c.oldSum = 0 /\ 0 * STD_V_OFFSET <= 0
          BY <1>1, <4>2, <5>1, SMT DEF RangeInv
        <5>. QED BY <5>2
      <4>. QED BY <1>1, <4>1, <4>2, TimingFacts, SMT
    <3>3. /\ (c.oldIdx + 1) * STD_V_OFFSET = c.oldIdx * STD_V_OFFSET + STD_V_OFFSET
          /\ c.oldIdx * STD_V_OFFSET \in Nat
      BY <1>1, MulSucc
    <3>. HIDE DEF d, dark, t
    <3>. QED BY <1>1, <1>2, <2>2, <3>1, <3>2, <3>3, SMT
  <2>4. ~ (t < ADJ_PERIOD)
    BY <1>2, <1>5, TimingFacts, SMT
  <2>. QED BY <2>2, <2>3, <2>4 DEF RangeInv, ReachStep, OutOfReach
<1>6. CASE ~ (t < ADJ_PERIOD + ADJ_WINDOW)
  <2>1. ~ (t < ADJ_PERIOD) /\ t >= ADJ_PERIOD /\ t >= ADJ_PERIOD + ADJ_WINDOW
    BY <1>1, <1>2, <1>6, TimingFacts, SMT
  <2>2. ASSUME ~ dark
        PROVE  /\ c.idle >= ADJ_PERIOD /\ ~ c.dark
               /\ c.oldIdx > 0 /\ c.oldIdx * STD_V_OFFSET <= c.oldSum
    <3>1. ~ (c.idle < ADJ_PERIOD) /\ ~ (c.idle >= ADJ_PERIOD /\ c.dark)
      BY <2>1, <2>2 DEF DarkAfter
    <3>2. c.idle >= ADJ_PERIOD
      BY <1>1, <3>1, TimingFacts, SMT
    <3>. QED BY <3>1, <3>2 DEF RangeInv
  <2>3. (d = Rebase(q) /\ t > 2 * ADJ_PERIOD) \/ d = q
    <3>. HIDE DEF q
    <3>. QED BY <1>6, <2>1 DEF Quiet, q
  <2>4. CASE d = q
    BY <1>3, <2>1, <2>2, <2>4 DEF RangeInv, ReachStep, OutOfReach
  <2>5. CASE d = Rebase(q) /\ t > 2 * ADJ_PERIOD
    <3>. DEFINE v == Udiv(q.oldSum, q.oldIdx)
    <3>1. v \in Nat /\ v < AD_MAX_V
      <4>1. v \in 0 .. AD_MAX_V - 1
        BY <1>1, <1>3, UdivType DEF AverageInv
      <4>. HIDE DEF v
      <4>. QED BY <4>1, SampleFacts, SMT
    <3>2. d = [q EXCEPT !.idle = 0, !.stdV = v,
                        !.stdUp = Sub16(v, STD_V_OFFSET),
                        !.stdDown = Sub16(v, STD_V_OFFSET)]
      BY <2>5 DEF Rebase, v
    <3>3. d.stdUp = Sub16(v, STD_V_OFFSET) /\ d.idle = 0
      <4>. HIDE DEF t, v, dark
      <4>. QED BY <3>2, SMT DEF ChannelState
    <3>4. RangeInv(d)
      <4>1. ~ (0 >= ADJ_PERIOD) /\ ~ (0 > 0)
        BY TimingAssumption, SMT
      <4>. QED BY <3>3, <4>1 DEF RangeInv
    <3>5. ASSUME ~ c.dark
          PROVE  ~ OutOfReach(d)
      <4>1. ~ dark
        <5>1. c.idle >= ADJ_PERIOD
          BY <1>1, <1>2, <2>5, TimingFacts, SMT
        <5>2. ~ (c.idle < ADJ_PERIOD) /\ ~ (t < ADJ_PERIOD + ADJ_WINDOW)
          BY <1>1, <1>6, <5>1, TimingFacts, SMT
        <5>. QED BY <3>5, <5>2 DEF DarkAfter
      <4>2. c.oldIdx \in Nat \ {0} /\ c.oldIdx # 0 /\ c.oldIdx * STD_V_OFFSET <= c.oldSum
        BY <1>1, <2>2, <4>1, SMT
      <4>3. v = c.oldSum \div c.oldIdx
        BY <1>3, <4>2 DEF Udiv
      <4>. HIDE DEF v
      <4>4. STD_V_OFFSET <= v
        BY <1>1, <4>2, <4>3, DivBelow
      <4>5. Sub16(v, STD_V_OFFSET) = v - STD_V_OFFSET /\ v - STD_V_OFFSET < AD_MAX_V
        BY <1>1, <3>1, <4>4, SampleFacts, SMT DEF Sub16
      <4>6. v - STD_V_OFFSET \in Int
        BY <1>1, <3>1, SMT
      <4>. QED BY <3>3, <4>5, <4>6, SampleFacts, SMT DEF OutOfReach
    <3>. QED BY <3>4, <3>5 DEF ReachStep
  <2>. QED BY <2>3, <2>4, <2>5
<1>. QED BY <1>1, <1>2, <1>4, <1>5, <1>6, TimingFacts, SMT

\* The thresholds of a measured baseline are within reach.
LEMMA SetThresholdsRange ==
  ASSUME NEW c \in ChannelState, RangeInv(c), NEW d, d = SetThresholds(c)
  PROVE  RangeInv(d) /\ ~ OutOfReach(d)
<1>. DEFINE v == IF c.stdV > STD_V_OFFSET THEN c.stdV - STD_V_OFFSET
                                          ELSE c.stdV
<1>1. ~ (v >= AD_MAX_V)
  BY ChannelFields, SampleFacts, SMT
<1>2. d = [c EXCEPT !.stdUp = v, !.stdDown = v]
  BY DEF SetThresholds
<1>. HIDE DEF v
<1>3. /\ d.stdUp = v /\ d.dark = c.dark
      /\ d.oldIdx = c.oldIdx /\ d.oldSum = c.oldSum /\ d.idle = c.idle
  BY <1>2, SMT DEF ChannelState
<1>. QED BY <1>1, <1>3 DEF RangeInv, OutOfReach

\* A reset leaves the average and the rising threshold.
LEMMA ResetRange ==
  ASSUME NEW c \in ChannelState, RangeInv(c), NEW d, d = ResetChannel(c)
  PROVE  RangeInv(d) /\ ReachStep(c, d)
<1>1. SameRange(c, d)
  BY SMT DEF SameRange, ResetChannel, ChannelState
<1>. QED BY <1>1, SameRangeKeeps

\* One interrupt on one channel.
LEMMA DetectRange ==
  ASSUME NEW c, ChannelInv(c), RangeInv(c), NEW ad \in AdValue,
         NEW cycle \in Cycle, NEW rise, NEW d, d = Detect(c, ad, cycle, rise)
  PROVE  RangeInv(d) /\ ReachStep(c, d)
<1>1. c \in ChannelState /\ AverageInv(c)
  BY DEF ChannelInv
<1>2. PICK e : e = CASE c.step = 0  -> StartStep(c)
                     [] c.step = 6  -> WatchStep(c, ad, cycle)
                     [] c.step = 16 -> TroughStep(c, ad, rise)
                     [] c.step = 31 -> RecoverStep(c, ad)
  OBVIOUS
<1>3. e \in ChannelState /\ RangeInv(e) /\ ReachStep(c, e)
  <2>1. CASE c.step = 0
    BY <1>1, <1>2, <2>1, StartStepInv, SameRangeSteps, SameRangeKeeps
    DEF StepRight
  <2>2. CASE c.step = 6
    <3>1. e = Dip(c, ad) \/ e = Quiet(c, ad, cycle)
      BY <1>2, <2>2 DEF WatchStep
    <3>2. CASE e = Dip(c, ad)
      BY <1>1, <2>2, <3>2, DipInv, DipRange DEF StepRight
    <3>3. CASE e = Quiet(c, ad, cycle)
      BY <1>1, <2>2, <3>3, QuietInv, QuietRange DEF StepRight
    <3>. QED BY <3>1, <3>2, <3>3
  <2>3. CASE c.step = 16
    BY <1>1, <1>2, <2>3, TroughStepInv, SameRangeSteps, SameRangeKeeps
    DEF StepRight
  <2>4. CASE c.step = 31
    <3>1. e = RecoverStep(c, ad)
      BY <1>2, <2>4
    <3>2. e \in ChannelState
      BY <2>4, <3>1, RecoverStepInv, RecoveredInv DEF StepRight
    <3>3. SameRange(c, e)
      BY <1>1, <3>1, SameRangeSteps
    <3>. QED BY <3>2, <3>3, SameRangeKeeps
  <2>. QED BY <1>1, <2>1, <2>2, <2>3, <2>4, ChannelFields
<1>4. d = [e EXCEPT !.since = IF Recovered(c, ad) THEN 0
                              ELSE Lower(@ + 1, PieceTime)]
  BY <1>2 DEF Detect
<1>5. SameRange(e, d)
  BY <1>3, <1>4, SMT DEF SameRange, ChannelState
<1>. QED BY <1>3, <1>5, SameRangeKeeps DEF ReachStep, OutOfReach, SameRange

RangesInv == \A c \in Channel : RangeInv(ch[c])

\* What ThresholdsReachable says of a step.
ReachableStep ==
  \A c \in Channel : OutOfReach(ch'[c])
    => /\ OutOfReach(ch[c]) \/ ch[c].dark
       /\ process_rdy' = PROCESS_RDY => process_rdy = PROCESS_RDY

\* Thresholds go out of reach only when a channel takes over the average of a dark
\* window, also when a recalibration falls into the window or behind it and the
\* average outlives it, and the end of a calibration brings them back.
THEOREM ThresholdsStayReachable == Spec => ThresholdsReachable
<1>1. Init => RangesInv
  <2>1. RangeInv(BootChannel)
    <3>1. ~ (0 >= ADJ_PERIOD) /\ ~ (0 > 0)
      BY TimingAssumption, SMT
    <3>. QED BY <3>1 DEF RangeInv, BootChannel
  <2>. QED BY <2>1 DEF Init, RangesInv
<1>2. IInv /\ RangesInv /\ [Next]_vars => RangesInv' /\ [ReachableStep]_vars
  <2>. SUFFICES ASSUME IInv, RangesInv, [Next]_vars,
                       NEW c \in Channel
                PROVE  /\ RangeInv(ch'[c]) /\ ReachStep(ch[c], ch'[c])
                       /\ process_rdy' = PROCESS_RDY /\ OutOfReach(ch'[c])
                            => process_rdy = PROCESS_RDY
    BY DEF RangesInv, ReachableStep, ReachStep
  <2>1. ch[c] \in ChannelState /\ ChannelInv(ch[c]) /\ RangeInv(ch[c])
    BY DEF IInv, ChannelsInv, RangesInv
  <2>2. CASE DmaCalibrate
    <3>1. PICK ad \in AdValue :
            \/ ch'[c] = AddShare(ch[c], ad) /\ process_rdy' = process_rdy
            \/ ch'[c] = SetThresholds(AddShare(ch[c], ad))
      BY <2>2 DEF DmaCalibrate
    <3>2. process_rdy < PROCESS_RDY
      BY <2>2 DEF DmaCalibrate
    <3>3. PICK e : e = AddShare(ch[c], ad)
      OBVIOUS
    <3>4. e \in ChannelState
      BY <3>2, <3>3, SamplesInv DEF ChannelInv
    <3>5. RangeInv(e) /\ ReachStep(ch[c], e)
      BY <2>1, <3>3, SameRangeSteps, SameRangeKeeps
    <3>6. CASE ch'[c] = e /\ process_rdy' = process_rdy
      BY <3>5, <3>6
    <3>7. CASE ch'[c] = SetThresholds(e)
      BY <3>4, <3>5, <3>7, SetThresholdsRange DEF ReachStep
    <3>. QED BY <3>1, <3>3, <3>6, <3>7
  <2>3. CASE DmaDetect
    <3>1. PICK ad \in AdValue, cycle \in Cycle :
            /\ ch'[c] = Detect(ch[c], ad, cycle, wave_up_value)
            /\ process_rdy' = process_rdy
      BY <2>3 DEF DmaDetect, DetectOn
    <3>. QED BY <2>1, <3>1, DetectRange
  <2>4. ASSUME SameRange(ch[c], ch'[c]), process_rdy' = PROCESS_RDY => process_rdy = PROCESS_RDY
        PROVE  /\ RangeInv(ch'[c]) /\ ReachStep(ch[c], ch'[c])
               /\ process_rdy' = PROCESS_RDY /\ OutOfReach(ch'[c])
                    => process_rdy = PROCESS_RDY
    BY <2>1, <2>4, SameRangeKeeps
  <2>5. CASE Tick
    <3>1. process_rdy' # PROCESS_RDY
      BY <2>5, ClockFacts, SMT DEF Tick, IInv, SystemType
    <3>2. SameRange(ch[c], ch'[c])
      BY <2>5 DEF Tick, SameRange
    <3>. QED BY <2>4, <3>1, <3>2
  <2>6. ASSUME NEW t \in Calibrator,
               RecalStart(t) \/ CalPass(t) \/ RecalReset(t) \/ ClearCounts(t)
        PROVE  /\ RangeInv(ch'[c]) /\ ReachStep(ch[c], ch'[c])
               /\ process_rdy' = PROCESS_RDY /\ OutOfReach(ch'[c])
                    => process_rdy = PROCESS_RDY
    <3>1. CASE RecalStart(t) \/ CalPass(t)
      BY <2>4, <3>1 DEF RecalStart, CalPass, SameRange
    <3>2. CASE RecalReset(t)
      <4>1. ch'[c] = ResetChannel(ch[c]) /\ process_rdy' # PROCESS_RDY
        BY <3>2, ClockFacts, SMT DEF RecalReset
      <4>. QED BY <2>1, <4>1, ResetRange
    <3>3. CASE ClearCounts(t)
      <4>1. ch'[c] = ClearChannel(ch[c]) /\ process_rdy' = process_rdy
        BY <3>3 DEF ClearCounts
      <4>. QED BY <2>1, <2>4, <4>1, SameRangeSteps
    <3>. QED BY <2>6, <3>1, <3>2, <3>3
  <2>7. CASE UNCHANGED vars
    BY <2>4, <2>7 DEF vars, SameRange
  <2>. QED BY <2>2, <2>3, <2>5, <2>6, <2>7 DEF Next
<1>. QED BY <1>1, <1>2, InductiveInvariant, PTL
         DEF Spec, ThresholdsReachable, ReachableStep

-----------------------------------------------------------------------------
(* The refinement.                                                         *)

InBeam(c) == c.step \in {16, 31}
Present == {c \in Channel : InBeam(ch[c])}
Counts == [c \in Channel |-> ch[c].count]

\* The variables of the instance in these terms.
LEMMA PiecesVars == Pieces!vars = <<Present, Counts, total>>
BY DEF Pieces!vars, Present, Counts, InBeam

\* What one interrupt does to a channel: a recovered beam is a piece counted and gone,
\* a channel that starts has neither, and no other step counts or loses a piece.
LEMMA DetectMaps ==
  ASSUME NEW c \in ChannelState, NEW ad, NEW cycle, NEW rise,
         NEW d, d = Detect(c, ad, cycle, rise)
  PROVE  /\ Recovered(c, ad) =>
              InBeam(c) /\ c.step # 0 /\ ~ InBeam(d) /\ d.count = c.count + 1
         /\ c.step = 0 => ~ InBeam(c) /\ ~ InBeam(d) /\ d.count = 0
         /\ ~ Recovered(c, ad) /\ c.step # 0 =>
              (InBeam(c) => InBeam(d)) /\ d.count = c.count
<1>1. c.step \in {0, 6, 16, 31}
  BY ChannelFields
<1>. DEFINE Moved(e) == [e EXCEPT !.since = IF Recovered(c, ad) THEN 0
                                            ELSE Lower(@ + 1, PieceTime)]
<1>2. CASE c.step = 0
  <2>1. d = Moved(StartStep(c)) /\ ~ Recovered(c, ad)
    BY <1>2 DEF Detect, Recovered
  <2>2. d.step = 6 /\ d.count = 0
    BY <2>1, SMT DEF StartStep, ChannelState
  <2>. QED BY <1>2, <2>1, <2>2 DEF InBeam
<1>3. CASE c.step = 6
  <2>1. d = Moved(WatchStep(c, ad, cycle)) /\ ~ Recovered(c, ad)
    BY <1>3 DEF Detect, Recovered
  <2>2. WatchStep(c, ad, cycle).count = c.count
    BY SMT DEF WatchStep, Dip, Quiet, Rebase, ChannelState
  <2>3. d.count = c.count
    <3>1. PICK w : w = WatchStep(c, ad, cycle)
      OBVIOUS
    <3>2. DOMAIN w = DOMAIN c
      BY <3>1, Zenon DEF WatchStep, Dip, Quiet, Rebase
    <3>3. "count" \in DOMAIN w
      BY <3>2, SMT DEF ChannelState
    <3>4. d = Moved(w) /\ w.count = c.count
      BY <2>1, <2>2, <3>1
    <3>. QED BY <3>3, <3>4, SMT
  <2>. QED BY <1>3, <2>1, <2>3 DEF InBeam
<1>4. CASE c.step = 16
  <2>1. d = Moved(TroughStep(c, ad, rise)) /\ ~ Recovered(c, ad)
    BY <1>4 DEF Detect, Recovered
  <2>2. d.step \in {16, 31} /\ d.count = c.count
    BY <1>4, <2>1, SMT DEF TroughStep, ChannelState
  <2>. QED BY <1>4, <2>1, <2>2 DEF InBeam
<1>5. CASE c.step = 31
  <2>1. d = Moved(RecoverStep(c, ad))
    BY <1>5 DEF Detect
  <2>2. CASE Recovered(c, ad)
    <3>1. d.step = 6 /\ d.count = c.count + 1
      BY <2>1, <2>2, SMT DEF RecoverStep, ChannelState
    <3>. QED BY <1>5, <2>2, <3>1 DEF InBeam
  <2>3. CASE ~ Recovered(c, ad)
    <3>1. d.step = 31 /\ d.count = c.count
      BY <1>5, <2>1, <2>3, SMT DEF RecoverStep, ChannelState
    <3>. QED BY <1>5, <2>3, <3>1 DEF InBeam
  <2>. QED BY <2>2, <2>3
<1>. QED BY <1>1, <1>2, <1>3, <1>4, <1>5

\* A step that neither counts nor moves a piece.
LEMMA PiecesUnmoved ==
  ASSUME \A c \in Channel : /\ InBeam(ch'[c]) <=> InBeam(ch[c])
                            /\ ch'[c].count = ch[c].count,
         total' = total
  PROVE  UNCHANGED Pieces!vars
<1>1. Present' = Present /\ Counts' = Counts
  BY DEF Present, Counts
<1>2. Pieces!vars' = <<Present', Counts', total'>>
  BY DEF Pieces!vars, Present, Counts, InBeam
<1>. QED BY <1>1, <1>2, PiecesVars

\* A passage in terms of these variables.
LEMMA PassIntro ==
  ASSUME NEW enter, NEW leave, NEW restart,
         leave \subseteq Present, enter \cap Present = {},
         restart \cap (Present \cup enter) = {},
         Present' = (Present \cup enter) \ leave,
         Counts' = [c \in Channel |-> IF c \in restart THEN 0
                                      ELSE IF c \in leave THEN Counts[c] + 1
                                      ELSE Counts[c]],
         total' = total + Cardinality(leave)
  PROVE  Pieces!Pass(enter, leave, restart)
<1>1. Pieces!Cardinality(leave) = Cardinality(leave)
  BY DEF Pieces!Cardinality, Cardinality
<1>. QED BY <1>1 DEF Pieces!Pass, Present, Counts, InBeam

\* The counting interrupt passes the pieces of all channels at once.
LEMMA DetectPasses ==
  ASSUME IInv, DmaDetect
  PROVE  \E enter, leave, restart \in SUBSET Channel : Pieces!Pass(enter, leave, restart)
<1>1. PICK ad \in [Channel -> AdValue], cycle \in Cycle : DetectOn(ad, cycle)
  BY DEF DmaDetect
<1>2. /\ ch' = [c \in Channel |-> Detect(ch[c], ad[c], cycle, wave_up_value)]
      /\ total' = total + Cardinality(Counted(ad))
  BY <1>1 DEF DetectOn
<1>3. \A c \in Channel :
        /\ Recovered(ch[c], ad[c]) =>
             /\ InBeam(ch[c]) /\ ch[c].step # 0 /\ ~ InBeam(ch'[c])
             /\ ch'[c].count = ch[c].count + 1
        /\ ch[c].step = 0 =>
             ~ InBeam(ch[c]) /\ ~ InBeam(ch'[c]) /\ ch'[c].count = 0
        /\ ~ Recovered(ch[c], ad[c]) /\ ch[c].step # 0 =>
             (InBeam(ch[c]) => InBeam(ch'[c])) /\ ch'[c].count = ch[c].count
  <2>. TAKE c \in Channel
  <2>1. ch[c] \in ChannelState
    BY DEF IInv, ChannelsInv
  <2>2. ch'[c] = Detect(ch[c], ad[c], cycle, wave_up_value)
    BY <1>2
  <2>. QED BY <2>1, <2>2, DetectMaps
<1>4. PICK enter \in SUBSET Channel, leave \in SUBSET Channel, restart \in SUBSET Channel :
        /\ enter = Present' \ Present
        /\ leave = Counted(ad)
        /\ restart = {c \in Channel : ch[c].step = 0}
  <2>1. /\ Present' \ Present \in SUBSET Channel
        /\ Counted(ad) \in SUBSET Channel
        /\ {c \in Channel : ch[c].step = 0} \in SUBSET Channel
    BY DEF Present, Counted
  <2>. QED BY <2>1
<1>5. /\ leave \subseteq Present /\ enter \cap Present = {}
      /\ restart \cap (Present \cup enter) = {}
      /\ Present' = (Present \cup enter) \ leave
  BY <1>3, <1>4 DEF Present, Counted
<1>6. Counts' = [c \in Channel |-> IF c \in restart THEN 0
                                   ELSE IF c \in leave THEN Counts[c] + 1
                                   ELSE Counts[c]]
  BY <1>3, <1>4 DEF Counts, Counted
<1>7. total' = total + Cardinality(leave)
  BY <1>2, <1>4
<1>8. Pieces!Pass(enter, leave, restart)
  BY <1>5, <1>6, <1>7, PassIntro
<1>. QED BY <1>8

\* The calibrating interrupt touches only baselines and thresholds.
LEMMA CalibrateStutters ==
  ASSUME IInv, DmaCalibrate
  PROVE  UNCHANGED Pieces!vars
<1>1. \A c \in ChannelState, ad \in AdValue :
        /\ AddShare(c, ad).step = c.step /\ AddShare(c, ad).count = c.count
        /\ SetThresholds(AddShare(c, ad)).step = c.step
        /\ SetThresholds(AddShare(c, ad)).count = c.count
  BY SMT DEF AddShare, SetThresholds, ChannelState
<1>2. \A c \in Channel : ch'[c].step = ch[c].step /\ ch'[c].count = ch[c].count
  BY <1>1 DEF DmaCalibrate, IInv, ChannelsInv
<1>. QED BY <1>2, PiecesUnmoved DEF DmaCalibrate, InBeam

\* The reset that ends a recalibration drops the pieces in the beams and no count.
LEMMA ResetAborts ==
  ASSUME IInv, NEW t \in Calibrator, RecalReset(t)
  PROVE  Pieces!Abort
<1>1. \A c \in ChannelState : ResetChannel(c).step = 0 /\ ResetChannel(c).count = c.count
  BY SMT DEF ResetChannel, ChannelState
<1>2. \A c \in Channel : ch'[c].step = 0 /\ ch'[c].count = ch[c].count
  BY <1>1 DEF RecalReset, IInv, ChannelsInv
<1>3. Present' = {} /\ Counts' = Counts /\ total' = total
  BY <1>2 DEF Present, Counts, InBeam, RecalReset
<1>. QED BY <1>3 DEF Pieces!Abort, Present, Counts, InBeam

\* Clearing is one step of all counts.
LEMMA ClearClears ==
  ASSUME IInv, NEW t \in Calibrator, ClearCounts(t)
  PROVE  Pieces!Clear
<1>1. \A c \in ChannelState : ClearChannel(c).step = c.step /\ ClearChannel(c).count = 0
  BY SMT DEF ClearChannel, ChannelState
<1>2. \A c \in Channel : ch'[c].step = ch[c].step /\ ch'[c].count = 0
  BY <1>1 DEF ClearCounts, IInv, ChannelsInv
<1>3. Present' = Present /\ Counts' = [c \in Channel |-> 0] /\ total' = 0
  BY <1>2 DEF Present, Counts, InBeam, ClearCounts
<1>. QED BY <1>3 DEF Pieces!Clear, Present, Counts, InBeam

\* The detector counts pieces as PieceCounter promises, for every number of channels and
\* every length of the waves: each once on its channel and once in the total, however
\* many channels complete one in the same interrupt and whatever is recalibrated.
THEOREM DetectorCounts == Spec => CountsPieces
<1>1. Init => Pieces!Init
  <2>. SUFFICES ASSUME Init PROVE Pieces!Init
    OBVIOUS
  <2>1. \A c \in Channel : ~ InBeam(ch[c]) /\ ch[c].count = 0
    BY DEF Init, BootChannel, InBeam
  <2>2. Present = {} /\ Counts = [c \in Channel |-> 0] /\ total = 0
    BY <2>1 DEF Init, Present, Counts
  <2>. QED BY <2>2 DEF Pieces!Init, Present, Counts, InBeam
<1>2. IInv /\ [Next]_vars => [Pieces!Next]_(Pieces!vars)
  <2>. SUFFICES ASSUME IInv, [Next]_vars PROVE [Pieces!Next]_(Pieces!vars)
    OBVIOUS
  <2>. USE DEF Pieces!Next
  <2>1. CASE DmaCalibrate
    BY <2>1, CalibrateStutters
  <2>2. CASE DmaDetect
    BY <2>2, DetectPasses
  <2>3. ASSUME ch' = ch, total' = total PROVE UNCHANGED Pieces!vars
    BY <2>3, PiecesUnmoved
  <2>4. CASE Tick
    BY <2>3, <2>4 DEF Tick
  <2>5. ASSUME NEW t \in Calibrator,
               RecalStart(t) \/ CalPass(t) \/ RecalReset(t) \/ ClearCounts(t)
        PROVE  [Pieces!Next]_(Pieces!vars)
    <3>1. CASE RecalStart(t) \/ CalPass(t)
      BY <2>3, <3>1 DEF RecalStart, CalPass
    <3>2. CASE RecalReset(t)
      BY <3>2, ResetAborts
    <3>3. CASE ClearCounts(t)
      BY <3>3, ClearClears
    <3>. QED BY <2>5, <3>1, <3>2, <3>3
  <2>6. CASE UNCHANGED vars
    BY <2>3, <2>6 DEF vars
  <2>. QED BY <2>1, <2>2, <2>4, <2>5, <2>6 DEF Next
<1>. QED BY <1>1, <1>2, InductiveInvariant, PTL DEF Spec, CountsPieces, Pieces!Spec

-----------------------------------------------------------------------------
(* The total.                                                              *)

\* The counts of all channels together, piece by piece.
CountItems == Items(Counts, Channel)

\* The sum of the counts is their number.
LEMMA SumOfCounts ==
  ASSUME IInv
  PROVE  MapThenSumSet(LAMBDA c : ch[c].count, Channel) = Cardinality(CountItems)
<1>. DEFINE it == CHOOSE h : h = [s \in SUBSET Channel |->
                                    IF s = {} THEN 0
                                    ELSE ch[Pick(s)].count + h[s \ {Pick(s)}]]
<1>1. MapThenSumSet(LAMBDA c : ch[c].count, Channel) = it[Channel]
  BY Zenon DEF MapThenSumSet, MapThenFoldSet, Pick
<1>2. IsFiniteSet(Channel) /\ \A c \in Channel : Counts[c] \in Nat
  BY SystemAssumption, ChannelFields DEF IInv, ChannelsInv, Counts
<1>3. PICK h : IsSum(h, Counts, Channel)
  BY <1>2, SumExists
<1>4. \A k : IsSum(k, Counts, Channel)
               <=> k = [s \in SUBSET Channel |->
                          IF s = {} THEN 0 ELSE ch[Pick(s)].count + k[s \ {Pick(s)}]]
  <2>1. \A s \in SUBSET Channel : s # {} => Counts[Pick(s)] = ch[Pick(s)].count
    <3>. TAKE s \in SUBSET Channel
    <3>1. HAVE s # {}
    <3>2. Pick(s) \in s
      BY <3>1, Zenon DEF Pick
    <3>. QED BY <3>2 DEF Counts
  <2>. TAKE k
  <2>2. [s \in SUBSET Channel |-> IF s = {} THEN 0 ELSE Counts[Pick(s)] + k[s \ {Pick(s)}]]
          = [s \in SUBSET Channel |-> IF s = {} THEN 0
                                      ELSE ch[Pick(s)].count + k[s \ {Pick(s)}]]
    BY <2>1, Zenon
  <2>. QED BY <2>2 DEF IsSum
<1>5. IsSum(it, Counts, Channel)
  BY <1>3, <1>4, Zenon
<1>. HIDE DEF it
<1>6. it[Channel] = Cardinality(Items(Counts, Channel))
  BY <1>2, <1>5, SumCounts
<1>. QED BY <1>1, <1>6 DEF CountItems

\* The inductive form: no more pieces are counted on the channels than in the total.
Covered == Cardinality(CountItems) <= total

\* A step that counts on the channels of D, and no more than it adds to the total.
LEMMA CoveredStep ==
  ASSUME IInv, IInv', Covered, NEW D \in SUBSET Channel,
         \A c \in Channel : ch'[c].count <= IF c \in D THEN ch[c].count + 1 ELSE ch[c].count,
         total' = total + Cardinality(D)
  PROVE  Covered'
<1>1. IsFiniteSet(Channel)
  BY SystemAssumption
<1>2. \A c \in Channel : /\ Counts[c] = ch[c].count /\ Counts[c] \in Nat
                         /\ Counts'[c] = ch'[c].count /\ Counts'[c] \in Nat
  BY ChannelFields DEF IInv, ChannelsInv, Counts
<1>3. \A c \in Channel : /\ Counts'[c] \in Nat
                         /\ Counts'[c] <= IF c \in D THEN Counts[c] + 1 ELSE Counts[c]
  BY <1>2
<1>4. PICK f, g : f = Counts /\ g = Counts'
  OBVIOUS
<1>5. Cardinality(Items(g, Channel)) <= Cardinality(Items(f, Channel)) + Cardinality(D)
  BY <1>1, <1>2, <1>3, <1>4, ItemsGrow
<1>6. /\ CountItems = Items(f, Channel) /\ CountItems' = Items(g, Channel)
  BY <1>4 DEF CountItems, Items
<1>7. /\ Cardinality(Items(f, Channel)) \in Nat
      /\ Cardinality(Items(g, Channel)) \in Nat
      /\ Cardinality(D) \in Nat /\ total \in Nat
  <2>1. IsFiniteSet(Items(f, Channel)) /\ IsFiniteSet(Items(g, Channel))
    BY <1>1, <1>2, <1>4, ItemsFinite
  <2>2. IsFiniteSet(D)
    BY <1>1, FS_Subset
  <2>. QED BY <2>1, <2>2, FS_CardinalityType DEF IInv, SystemType
<1>. QED BY <1>5, <1>6, <1>7 DEF Covered

\* One interrupt counts on the channels whose beam recovers.
LEMMA DetectCovered == ASSUME IInv, IInv', Covered, DmaDetect PROVE Covered'
<1>1. PICK ad \in [Channel -> AdValue], cycle \in Cycle : DetectOn(ad, cycle)
  BY DEF DmaDetect
<1>2. /\ ch' = [c \in Channel |-> Detect(ch[c], ad[c], cycle, wave_up_value)]
      /\ total' = total + Cardinality(Counted(ad))
  BY <1>1 DEF DetectOn
<1>3. ASSUME NEW c \in Channel
      PROVE  ch'[c].count <= IF c \in Counted(ad) THEN ch[c].count + 1 ELSE ch[c].count
  <2>1. ch[c] \in ChannelState
    BY DEF IInv, ChannelsInv
  <2>2. ch'[c] = Detect(ch[c], ad[c], cycle, wave_up_value)
    BY <1>2
  <2>3. /\ Recovered(ch[c], ad[c]) => ch'[c].count = ch[c].count + 1
        /\ ~ Recovered(ch[c], ad[c]) => ch'[c].count = ch[c].count \/ ch'[c].count = 0
    BY <2>1, <2>2, DetectMaps
  <2>4. ch[c].count \in Nat
    BY <2>1, ChannelFields
  <2>. QED BY <2>3, <2>4 DEF Counted
<1>4. Counted(ad) \in SUBSET Channel
  BY DEF Counted
<1>. QED BY <1>2, <1>3, <1>4, CoveredStep

\* A step that leaves the total and raises no count.
LEMMA UncountedCovered ==
  ASSUME IInv, IInv', Covered, total' = total,
         \A c \in Channel : ch'[c].count <= ch[c].count
  PROVE  Covered'
<1>1. Cardinality({}) = 0 /\ total' = total + 0
  BY FS_EmptySet DEF IInv, SystemType
<1>. QED BY <1>1, CoveredStep

\* The counts are cleared with the total.
LEMMA ClearCovered ==
  ASSUME IInv, NEW t \in Calibrator, ClearCounts(t)
  PROVE  Covered'
<1>1. \A c \in Channel : ch'[c].count = 0
  BY SMT DEF ClearCounts, ClearChannel, ChannelState, IInv, ChannelsInv
<1>2. CountItems' = {}
  BY <1>1 DEF CountItems, Items, Counts
<1>. QED BY <1>2, FS_EmptySet DEF Covered, ClearCounts

\* The channels never count more pieces than the total, however many complete one in the
\* same interrupt and whatever is recalibrated or cleared between two.
THEOREM TotalCoversCounts == Spec => []CountsCovered
<1>1. Init => Covered
  <2>. SUFFICES ASSUME Init PROVE Covered
    OBVIOUS
  <2>1. \A c \in Channel : Counts[c] = 0
    BY DEF Init, BootChannel, Counts
  <2>2. CountItems = {}
    BY <2>1 DEF CountItems, Items
  <2>. QED BY <2>2, FS_EmptySet DEF Covered, Init
<1>2. IInv /\ IInv' /\ Covered /\ [Next]_vars => Covered'
  <2>. SUFFICES ASSUME IInv, IInv', Covered, [Next]_vars PROVE Covered'
    OBVIOUS
  <2>0. \A c \in Channel : ch[c] \in ChannelState /\ ch[c].count \in Nat
    BY ChannelFields DEF IInv, ChannelsInv
  <2>1. CASE DmaCalibrate
    <3>1. \A c \in ChannelState, ad \in AdValue :
            /\ AddShare(c, ad).count = c.count
            /\ SetThresholds(AddShare(c, ad)).count = c.count
      BY SMT DEF AddShare, SetThresholds, ChannelState
    <3>2. \A c \in Channel : ch'[c].count = ch[c].count
      BY <2>0, <2>1, <3>1 DEF DmaCalibrate
    <3>. QED BY <2>0, <2>1, <3>2, UncountedCovered DEF DmaCalibrate
  <2>2. CASE DmaDetect
    BY <2>2, DetectCovered
  <2>3. ASSUME ch' = ch, total' = total PROVE Covered'
    BY <2>0, <2>3, UncountedCovered
  <2>4. CASE Tick
    BY <2>3, <2>4 DEF Tick
  <2>5. ASSUME NEW t \in Calibrator,
               RecalStart(t) \/ CalPass(t) \/ RecalReset(t) \/ ClearCounts(t)
        PROVE  Covered'
    <3>1. CASE RecalStart(t) \/ CalPass(t)
      BY <2>3, <3>1 DEF RecalStart, CalPass
    <3>2. CASE RecalReset(t)
      <4>1. \A c \in ChannelState : ResetChannel(c).count = c.count
        BY SMT DEF ResetChannel, ChannelState
      <4>2. \A c \in Channel : ch'[c].count = ch[c].count
        BY <2>0, <3>2, <4>1 DEF RecalReset
      <4>. QED BY <2>0, <3>2, <4>2, UncountedCovered DEF RecalReset
    <3>3. CASE ClearCounts(t)
      BY <3>3, ClearCovered
    <3>. QED BY <2>5, <3>1, <3>2, <3>3
  <2>6. CASE UNCHANGED vars
    BY <2>3, <2>6 DEF vars
  <2>. QED BY <2>1, <2>2, <2>4, <2>5, <2>6 DEF Next
<1>3. IInv /\ Covered => CountsCovered
  BY SumOfCounts DEF Covered, CountsCovered
<1>. QED BY <1>1, <1>2, <1>3, InductiveInvariant, PTL DEF Spec
=============================================================================
