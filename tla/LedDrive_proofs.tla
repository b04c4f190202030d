---------------------------- MODULE LedDrive_proofs ----------------------------
(***************************************************************************)
(* Proofs about LedDrive for every size of the words, every window, every  *)
(* number of taps and every cadence: the types, that a calibration leaves  *)
(* the LED driven with the word that is shown, and that the sum of the     *)
(* moving average is that of its buffer.                                   *)
(***************************************************************************)
EXTENDS LedDrive, SumFacts, SequenceTheorems, TLAPS

\* A task that has another transfer to make.
Sends(t) ==
  \/ at[t] \in {"delay", "load", "store", "send"}
  \/ at[t] = "shift" /\ step[t] # 0

\* The bookkeeping of a pass.
Passes ==
  \A t \in Task :
    /\ InPass(t) => waited[t] <= 1
    /\ at[t] \in {"load", "store"} => step[t] # 0
    /\ cut[t] => at[t] = "shift"

\* The word changed behind the transfer of debug_task is io_task's, which has not sent it
\* or is at least a delay from its next change.
Behind ==
  \/ at["io"] \in {"send", "shift"} /\ step["io"] # 0
  \/ at["io"] = "delay" /\ waited["io"] <= waited["debug"]

\* io_task preempts debug_task, and is not preempted.
Preempts ==
  /\ ~cut["io"]
  /\ at["io"] = "shift" => got["io"] = led
  /\ at["debug"] = "shift" /\ got["debug"] # led => Behind
  /\ cut["debug"]
       => /\ dac = ToDac(led)
          /\ \/ at["io"] \in {"reset", "off"}
             \/ at["io"] = "delay" /\ waited["io"] <= waited["debug"]

\* With no transfer under way or to come, the converter holds the word.
Settled == ~Shifting /\ (\A t \in Task : ~Sends(t)) => dac = ToDac(led)

\* The inductive invariant.
IInv == DriveOK /\ Passes /\ (~touched => Preempts /\ Settled)

LEMMA Remainder == \A a \in Int, b \in Nat \ {0} : a % b \in 0..(b - 1)
  OBVIOUS

\* A word fits the converter, and what is stored fits the word.
LEMMA WordsFit ==
  /\ \A w \in Word : ToDac(w) \in 0..LedMax
  /\ \A w \in Word, d \in {-1, 0, 1} : (w + d) % WordMod \in Word
<1>1. ASSUME NEW w \in Word PROVE ToDac(w) \in 0..LedMax
  <2>1. w \in Int /\ LedMax + 1 \in Nat \ {0} /\ (LedMax + 1) - 1 = LedMax
    BY LedAssumption DEF Word
  <2>2. w % (LedMax + 1) \in 0..((LedMax + 1) - 1)
    BY <2>1, Remainder
  <2> QED BY <2>1, <2>2 DEF ToDac
<1>2. ASSUME NEW w \in Word, NEW d \in {-1, 0, 1} PROVE (w + d) % WordMod \in Word
  <2>1. w + d \in Int /\ WordMod \in Nat \ {0}
    BY LedAssumption DEF Word
  <2> QED BY <2>1, Remainder DEF Word
<1> QED BY <1>1, <1>2

\* io_task is asked to calibrate.
LEMMA StartKeeps == ASSUME IInv, Start PROVE IInv'
<1>1. DriveOK'
  BY LedAssumption DEF Start, Goto, filter, IInv, DriveOK, Task
<1>2. Passes'
  BY DEF Start, Goto, filter, IInv, DriveOK, Passes, InPass, Task
<1>3. ASSUME ~touched' PROVE Preempts' /\ Settled'
  BY <1>3 DEF Start, Goto, filter, IInv, DriveOK, Preempts, Settled, Sends, Behind, Passes,
              Shifting, Task
<1> QED BY <1>1, <1>2, <1>3 DEF IInv

\* A pass begins.
LEMMA TestKeeps == ASSUME IInv, NEW t \in Task, Test(t) PROVE IInv'
<1>1. DriveOK'
  BY LedAssumption DEF Test, Goto, filter, IInv, DriveOK
<1>2. Passes'
  BY DEF Test, Goto, filter, IInv, DriveOK, Passes, InPass
<1>3. ASSUME ~touched' PROVE Preempts' /\ Settled'
  BY <1>3, LedAssumption
     DEF Test, Runs, Goto, filter, IInv, DriveOK, Preempts, Settled, Sends, Behind, Passes, InPass,
              Shifting, Task
<1> QED BY <1>1, <1>2, <1>3 DEF IInv

\* The word is loaded.
LEMMA LoadKeeps == ASSUME IInv, NEW t \in Task, Load(t) PROVE IInv'
<1>1. DriveOK'
  BY LedAssumption DEF Load, Goto, filter, IInv, DriveOK
<1>2. Passes'
  BY DEF Load, Goto, filter, IInv, DriveOK, Passes, InPass
<1>3. ASSUME ~touched' PROVE Preempts' /\ Settled'
  BY <1>3, LedAssumption
     DEF Load, Runs, Goto, filter, IInv, DriveOK, Preempts, Settled, Sends, Behind, Passes, InPass,
              Shifting, Task
<1> QED BY <1>1, <1>2, <1>3 DEF IInv

\* It is stored: io_task may do so behind a transfer of debug_task.
LEMMA StoreKeeps == ASSUME IInv, NEW t \in Task, Store(t) PROVE IInv'
<1>1. DriveOK'
  <2>1. led' \in Word
    <3>1. got[t] \in Word /\ step[t] \in {-1, 0, 1}
      BY DEF IInv, DriveOK
    <3> QED BY <3>1, WordsFit DEF Store
  <2>2. got' \in [Task -> Word]
    BY LedAssumption DEF Store, IInv, DriveOK, Word
  <2> QED BY <2>1, <2>2 DEF Store, Goto, filter, IInv, DriveOK
<1>2. Passes'
  BY DEF Store, Goto, filter, IInv, DriveOK, Passes, InPass
<1>3. ASSUME ~touched' PROVE Preempts' /\ Settled'
  BY <1>3, LedAssumption
     DEF Store, Runs, Goto, filter, IInv, DriveOK, Preempts, Settled, Sends, Behind, Passes, InPass,
              Shifting, Task
<1> QED BY <1>1, <1>2, <1>3 DEF IInv

\* A transfer begins, uncut.
LEMMA SendKeeps == ASSUME IInv, NEW t \in Task, Send(t) PROVE IInv'
<1>1. DriveOK'
  BY LedAssumption DEF Send, Goto, filter, IInv, DriveOK
<1>2. Passes'
  BY DEF Send, Goto, filter, IInv, DriveOK, Passes, InPass
<1>3. ASSUME ~touched' PROVE Preempts' /\ Settled'
  BY <1>3, LedAssumption
     DEF Send, Runs, Goto, filter, IInv, DriveOK, Preempts, Settled, Sends, Behind, Passes, InPass,
              Shifting, Task
<1> QED BY <1>1, <1>2, <1>3 DEF IInv

\* A transfer ends: that of io_task may cut that of debug_task.
LEMMA LatchKeeps == ASSUME IInv, NEW t \in Task, Latch(t) PROVE IInv'
<1>1. DriveOK'
  BY LedAssumption, WordsFit DEF Latch, Goto, filter, IInv, DriveOK, Word
<1>2. Passes'
  BY DEF Latch, Goto, filter, IInv, DriveOK, Passes, InPass
<1>3. ASSUME ~touched' PROVE Preempts' /\ Settled'
  BY <1>3, LedAssumption
     DEF Latch, Runs, Goto, filter, IInv, DriveOK, Preempts, Settled, Sends, Behind, Passes, InPass,
              Shifting, Task
<1> QED BY <1>1, <1>2, <1>3 DEF IInv

\* The filter starts again.
LEMMA ResetKeeps == ASSUME IInv, NEW t \in Task, Reset(t) PROVE IInv'
<1>1. DriveOK'
  BY LedAssumption DEF Reset, Goto, filter, IInv, DriveOK
<1>2. Passes'
  BY DEF Reset, Goto, filter, IInv, DriveOK, Passes, InPass
<1>3. ASSUME ~touched' PROVE Preempts' /\ Settled'
  BY <1>3, LedAssumption
     DEF Reset, Runs, Goto, filter, IInv, DriveOK, Preempts, Settled, Sends, Behind, Passes, InPass,
              Shifting, Task
<1> QED BY <1>1, <1>2, <1>3 DEF IInv

\* A block of samples, and what the interrupt writes: with a transfer under way it leaves
\* its mark, and without one it drives the LED with the word it stored.
LEMMA BlockKeeps == ASSUME IInv, Block PROVE IInv'
<1>1. /\ \A t \in Task : InPass(t) => waited[t] = 0
      /\ waited' = [t \in Task |-> IF at[t] = "off" \/ waited[t] = Blocks THEN waited[t]
                                   ELSE waited[t] + 1]
      /\ UNCHANGED <<at, step, got>>
  BY DEF Block
<1>2. waited' \in [Task -> 0..Blocks]
  BY <1>1, LedAssumption DEF IInv, DriveOK
<1>3. CASE UNCHANGED <<led, dac, cut, touched>>
  <2>1. DriveOK'
    BY <1>1, <1>2, <1>3 DEF IInv, DriveOK
  <2>2. Passes'
    BY <1>1, <1>3, LedAssumption DEF IInv, DriveOK, Passes, InPass
  <2>3. ASSUME ~touched' PROVE Preempts' /\ Settled'
    BY <1>1, <1>3, <2>3, LedAssumption
       DEF IInv, DriveOK, Preempts, Settled, Sends, Behind, Passes, InPass, Shifting, Task, ToDac
  <2> QED BY <2>1, <2>2, <2>3 DEF IInv
<1>4. ASSUME NEW own \in BOOLEAN, Raise(own) PROVE IInv'
  <2>1. /\ own => led < LedMax
        /\ led' = IF own THEN led + 1 ELSE led
        /\ dac' = IF own THEN ToDac(led') ELSE dac
        /\ touched' = (touched \/ Shifting)
        /\ cut' \in [Task -> BOOLEAN]
        /\ \A t \in Task : cut'[t] => at[t] = "shift"
    BY <1>4 DEF Raise, TooDark, Cuts
  <2>2. led' \in Word
    BY <2>1, LedAssumption DEF IInv, DriveOK, Word
  <2>3. DriveOK'
    BY <1>1, <1>2, <2>1, <2>2, WordsFit DEF IInv, DriveOK, Shifting
  <2>4. Passes'
    BY <1>1, <2>1, LedAssumption DEF IInv, DriveOK, Passes, InPass
  <2>5. ASSUME ~touched' PROVE Preempts' /\ Settled'
    <3>1. ~touched /\ ~Shifting
      BY <2>1, <2>5
    <3>2. Preempts'
      BY <1>1, <2>1, <3>1 DEF Preempts, Shifting, Task
    <3>3. Settled'
      BY <1>1, <2>1, <3>1 DEF IInv, Settled, Sends, Shifting, Task
    <3> QED BY <3>2, <3>3
  <2> QED BY <2>3, <2>4, <2>5 DEF IInv
<1> QED BY <1>3, <1>4 DEF Block

\* Every step keeps the invariant.
LEMMA NextKeeps == IInv /\ [Next]_vars => IInv'
<1> SUFFICES ASSUME IInv, [Next]_vars PROVE IInv'
  OBVIOUS
<1>1. CASE Tick \/ UNCHANGED vars
  <2>1. UNCHANGED <<led, dac, at, step, got, cut, waited, touched>>
    BY <1>1 DEF Tick, vars
  <2> QED BY <2>1 DEF IInv, DriveOK, Passes, Preempts, Settled, Sends, Behind, InPass, Shifting, ToDac
<1>2. CASE Next /\ ~Tick
  BY <1>2, BlockKeeps, StartKeeps, TestKeeps, LoadKeeps, StoreKeeps, SendKeeps, LatchKeeps,
     ResetKeeps
     DEF Next, TaskStep
<1> QED BY <1>1, <1>2

LEMMA InitIInv == Init => IInv
<1> SUFFICES ASSUME Init PROVE IInv
  OBVIOUS
<1>1. DriveOK
  <2>1. led \in Word /\ dac \in 0..LedMax
    BY LedAssumption DEF Init, Word
  <2>2. got \in [Task -> Word] /\ waited \in [Task -> 0..Blocks]
    BY LedAssumption DEF Init, Word
  <2>3. /\ at \in [Task -> {"off", "delay", "load", "store", "send", "shift", "reset"}]
        /\ step \in [Task -> {-1, 0, 1}] /\ cut \in [Task -> BOOLEAN]
        /\ touched \in BOOLEAN
    BY DEF Init
  <2> QED BY <2>1, <2>2, <2>3 DEF DriveOK
<1>2. Passes /\ Preempts /\ Settled
  BY LedAssumption DEF Init, Passes, InPass, Preempts, Settled, Sends, Shifting, Task
<1> QED BY <1>1, <1>2 DEF IInv

LEMMA Invariant == Spec => []IInv
  BY InitIInv, NextKeeps, PTL DEF Spec

\* Type correctness of the words, the converter and the two tasks.
LEMMA DriveTypeCorrect == Spec => []DriveOK
<1>1. IInv => DriveOK
  BY DEF IInv
<1> QED BY <1>1, Invariant, PTL

\* A calibration leaves the LED driven with the word that is shown.
THEOREM ShownIsDriven == Spec => []DrivenAsShown
<1>1. IInv => DrivenAsShown
  BY DEF IInv, DrivenAsShown, AllOff, Settled, Sends, Shifting, DriveOK
<1> QED BY <1>1, Invariant, PTL

-----------------------------------------------------------------------------
(* The filter.                                                             *)

\* The types of the filter and of what the interrupt counts.
FilterOK ==
  /\ alight \in BOOLEAN
  /\ buff \in [1..Taps -> 0..LedMax] /\ sum \in 0..(Taps * LedMax)
  /\ filtered \in 0..LedMax
  /\ rdy \in 0..2 /\ fed \in BOOLEAN /\ quiet \in 0..Idle

\* The sum is taken by every block of the second phase, which lasts until one came.
Summed == rdy = 2 \/ (rdy = 1 /\ fed) => sum = Total(buff)

FilterInv == FilterOK /\ Summed

\* An empty sum is within bounds.
LEMMA Room == 0 \in 0..(Taps * LedMax)
<1>1. Taps * LedMax \in Nat
  BY LedAssumption
<1> QED BY <1>1

\* A buffer is a sequence, and its sum that of its items, within what it can hold.
LEMMA TotalCounts ==
  ASSUME NEW b \in [1..Taps -> 0..LedMax]
  PROVE  /\ Total(b) = Cardinality(Items(b, 1..Taps))
         /\ Total(b) \in 0..(Taps * LedMax)
<1>1. Taps \in Nat /\ LedMax \in Nat
  BY LedAssumption
<1>2. b \in Seq(Nat) /\ DOMAIN b = 1..Taps
  <2>1. b \in [1..Taps -> Nat]
    BY <1>1
  <2> QED BY <1>1, <2>1
<1>3. Total(b) = Cardinality(Items(b, 1..Taps))
  BY <1>2, SequenceSum, Zenon DEF Total
<1>4. IsFiniteSet(1..Taps) /\ Cardinality(1..Taps) = Taps
  BY <1>1, FS_Interval
<1>5. \A i \in 1..Taps : b[i] \in 0..LedMax
  OBVIOUS
<1>6. Cardinality(Items(b, 1..Taps)) \in 0..(Cardinality(1..Taps) * LedMax)
  BY <1>1, <1>4, <1>5, ItemsBound
<1> QED BY <1>3, <1>4, <1>6

\* A buffer that takes a value gives its oldest, and its sum follows.
LEMMA TotalShifts ==
  ASSUME NEW b \in [1..Taps -> 0..LedMax], NEW v \in 0..LedMax,
         NEW d, d = Append(Tail(b), v)
  PROVE  /\ d \in [1..Taps -> 0..LedMax]
         /\ Head(b) \in 0..LedMax
         /\ Total(d) = Total(b) + v - Head(b)
<1>1. Taps \in Nat \ {0} /\ LedMax \in Nat
  BY LedAssumption
<1>2. b \in Seq(0..LedMax) /\ Len(b) = Taps
  BY <1>1
<1>3. Tail(b) \in Seq(0..LedMax) /\ Len(Tail(b)) = Taps - 1
  BY <1>1, <1>2
<1>4. d \in Seq(0..LedMax) /\ Len(d) = Taps
  BY <1>1, <1>3
<1>5. d \in [1..Taps -> 0..LedMax]
  <2>1. d \in UNION {[1..n -> 0..LedMax] : n \in Nat}
    BY <1>4, SeqDef, Zenon
  <2>2. PICK n \in Nat : d \in [1..n -> 0..LedMax]
    BY <2>1, Zenon
  <2>3. n = Taps
    BY <1>1, <1>4, <2>2
  <2> QED BY <2>2, <2>3
<1>6. \A i \in 1..Taps : d[i] = IF i = Taps THEN v ELSE b[i + 1]
  BY <1>1, <1>2, <1>3
<1>7. Head(b) = b[1] /\ b[1] \in 0..LedMax
  BY <1>1, <1>2
<1>8. Cardinality(Items(d, 1..Taps)) + b[1] = Cardinality(Items(b, 1..Taps)) + v
  <2>1. b \in [1..Taps -> Nat] /\ d \in [1..Taps -> Nat] /\ v \in Nat
    BY <1>1, <1>5
  <2> QED BY <1>1, <1>6, <2>1, ItemsShift
<1>9. /\ Total(b) = Cardinality(Items(b, 1..Taps)) /\ Total(b) \in 0..(Taps * LedMax)
      /\ Total(d) = Cardinality(Items(d, 1..Taps)) /\ Total(d) \in 0..(Taps * LedMax)
  BY <1>5, TotalCounts
<1>10. Total(d) + b[1] = Total(b) + v
  BY <1>8, <1>9
<1>11. Taps * LedMax \in Nat
  BY <1>1
<1>12. Total(d) \in Int /\ Total(b) \in Int /\ b[1] \in Int /\ v \in Int
  BY <1>1, <1>7, <1>9, <1>11
<1>13. Total(d) = Total(b) + v - b[1]
  BY <1>10, <1>12
<1> QED BY <1>5, <1>7, <1>13

\* The average of what the buffer can hold is what a value can be.
LEMMA AverageIn ==
  ASSUME NEW s \in 0..(Taps * LedMax)
  PROVE  s \div Taps \in 0..LedMax
<1>1. Taps \in Nat \ {0} /\ LedMax \in Nat
  BY LedAssumption
<1>2. \A n \in Nat \ {0}, k \in Nat : \A a \in 0..(n * k) : a \div n \in 0..k
  OBVIOUS
<1> QED BY <1>1, <1>2

\* A block of samples.
LEMMA BlockFilters == ASSUME DriveOK, FilterInv, Block PROVE FilterInv'
<1>1. /\ Filter(Light) /\ fed' = TRUE /\ UNCHANGED <<alight, rdy>>
  BY DEF Block
<1>2. Light \in 0..LedMax
  BY LedAssumption DEF Light, DriveOK
<1>3. quiet' \in 0..Idle
  BY LedAssumption DEF Block, Raise, FilterInv, FilterOK
<1>4. /\ buff' \in [1..Taps -> 0..LedMax]
      /\ Head(buff) \in 0..LedMax
      /\ Total(buff') = Total(buff) + Light - Head(buff)
  BY <1>1, <1>2, TotalShifts DEF Filter, FilterInv, FilterOK
<1>5. Total(buff') \in 0..(Taps * LedMax)
  BY <1>4, TotalCounts
<1>6. sum' \in 0..(Taps * LedMax) /\ (rdy # 0 => sum' = Total(buff'))
  BY <1>1, <1>4, <1>5 DEF Filter, FilterInv, FilterOK, Summed
<1>7. filtered' \in 0..LedMax
  BY <1>1, <1>2, <1>6, AverageIn DEF Filter
<1> QED BY <1>1, <1>3, <1>4, <1>6, <1>7 DEF FilterInv, FilterOK, Summed

\* Every step keeps the sum.
LEMMA NextFilters == IInv /\ FilterInv /\ [Next]_vars => FilterInv'
<1> SUFFICES ASSUME IInv, FilterInv, [Next]_vars PROVE FilterInv'
  OBVIOUS
<1>1. CASE Block
  BY <1>1, BlockFilters DEF IInv
<1>2. CASE Tick
  <2>1. /\ rdy' = rdy + 1 /\ rdy < 2 /\ fed /\ fed' = FALSE
        /\ UNCHANGED <<alight, buff, sum, filtered, quiet>>
    BY <1>2 DEF Tick
  <2>2. FilterOK'
    <3>1. rdy' \in 0..2
      BY <2>1 DEF FilterInv, FilterOK
    <3> QED BY <2>1, <3>1, Zenon DEF FilterInv, FilterOK
  <2>3. rdy' = 2 => rdy = 1
    BY <2>1 DEF FilterInv, FilterOK
  <2>4. Summed'
    BY <2>1, <2>3 DEF FilterInv, Summed
  <2> QED BY <2>2, <2>4 DEF FilterInv
<1>3. ASSUME UNCHANGED <<alight, filter>> PROVE FilterInv'
  BY <1>3 DEF filter, FilterInv, FilterOK, Summed
<1>4. CASE Start \/ UNCHANGED vars
  BY <1>3, <1>4 DEF Start, vars, filter
<1>5. ASSUME NEW t \in Task, TaskStep(t) PROVE FilterInv'
  <2>1. CASE Reset(t)
    <3>1. buff' \in [1..Taps -> 0..LedMax]
      BY <2>1, LedAssumption DEF Reset
    <3>2. sum' \in 0..(Taps * LedMax)
      BY <2>1, Room DEF Reset
    <3>3. /\ rdy' = 0 /\ fed' = FALSE
          /\ UNCHANGED <<alight, filtered, quiet>>
      BY <2>1 DEF Reset
    <3>4. FilterOK'
      <4>1. rdy' \in 0..2
        BY <3>3
      <4> QED BY <3>1, <3>2, <3>3, <4>1, Zenon DEF FilterInv, FilterOK
    <3>5. Summed'
      BY <3>3 DEF Summed
    <3> QED BY <3>4, <3>5 DEF FilterInv
  <2>2. CASE Test(t) \/ Load(t) \/ Store(t) \/ Send(t) \/ Latch(t)
    BY <1>3, <2>2 DEF Test, Load, Store, Send, Latch
  <2> QED BY <1>5, <2>1, <2>2 DEF TaskStep
<1> QED BY <1>1, <1>2, <1>4, <1>5 DEF Next

LEMMA InitFilters == Init => FilterInv
<1> SUFFICES ASSUME Init PROVE FilterInv
  OBVIOUS
<1>1. buff \in [1..Taps -> 0..LedMax] /\ \A i \in 1..Taps : buff[i] = 0
  BY LedAssumption DEF Init
<1>2. Items(buff, 1..Taps) = {}
  BY <1>1 DEF Items
<1>3. Total(buff) = 0
  BY <1>1, <1>2, TotalCounts, FS_EmptySet
<1>4. FilterOK
  <2>1. sum \in 0..(Taps * LedMax)
    BY Room DEF Init
  <2>2. filtered \in 0..LedMax /\ quiet \in 0..Idle
    BY LedAssumption DEF Init
  <2>3. rdy \in 0..2
    BY DEF Init
  <2>4. fed \in BOOLEAN /\ alight \in BOOLEAN
    BY Zenon DEF Init
  <2> QED BY <1>1, <2>1, <2>2, <2>3, <2>4, Zenon DEF FilterOK
<1> QED BY <1>3, <1>4 DEF Init, FilterInv, Summed

LEMMA FilterInvariant == Spec => []FilterInv
  BY InitFilters, NextFilters, Invariant, PTL DEF Spec

\* Type correctness: the moving average never leaves what the converter delivers, and the
\* sum what a buffer of the largest values holds.
THEOREM TypeCorrect == Spec => []TypeOK
<1>1. IInv /\ FilterInv => TypeOK
  BY DEF IInv, FilterInv, FilterOK, TypeOK
<1> QED BY <1>1, Invariant, FilterInvariant, PTL

\* In the moving phase the sum is that of the buffer, however often the filter starts
\* again and wherever the ticks fall between the blocks.
THEOREM SumIsOfBuffer == Spec => []SumOfBuffer
<1>1. FilterInv => SumOfBuffer
  BY DEF FilterInv, Summed, SumOfBuffer
<1> QED BY <1>1, FilterInvariant, PTL
=============================================================================
