---------------------------- MODULE Capture_proofs ----------------------------
(***************************************************************************)
(* Proofs about Capture for every size of the buffers and every set of     *)
(* modes, however late debug_task runs: the types, that what is sent is    *)
(* stable while it is sent, that it is one wave, and that an undisturbed   *)
(* capture only goes on to its end.                                        *)
(***************************************************************************)
EXTENDS Capture, TLAPS

\* debug_task is past a start it took, or a message waits for it.
Busy == debug # "first" \/ debug_msg # "none"

\* No other message comes between a start and its end.
Ordered ==
  /\ debug_msg = "start" => debug = "first"
  /\ debug_msg = "end" => debug = "second"
  /\ uart1 \in {"wave", "ad"} => debug = "second" /\ debug_msg = "none"

\* A wave is sent behind dma_state alone, and AD_buff with buffer_en off.
Guarded ==
  /\ uart1 # "empty"
  /\ uart1 = "wave" => dma_state = 1 /\ whole
  /\ dma_state = 1 => print = 1 /\ index = 0 /\ Busy
  /\ print = 1 /\ Busy => dma_state = 1
  /\ print # 1 /\ Busy => buffer_en = 0

\* The wave handed over keeps its size until debug_task reads it, for no other ended.
Waiting == dma_state = 1 /\ Starting => sized /\ whole /\ uart1 = "idle"

\* The samples stored so far are of one wave.
Growing == 0 < index /\ index < Size => whole

\* What an undisturbed capture keeps to.
Proto ==
  /\ Ordered /\ Guarded /\ Waiting /\ Growing
  /\ ~AtRest => ~Elsewhere

\* The inductive invariant.
IInv == TypeOK /\ (~disturbed => Proto)

\* At rest there is nothing to keep to.
LEMMA RestIsProto == AtRest' => Proto'
  BY DEF AtRest, UnderWay, Proto, Ordered, Guarded, Waiting, Growing, Starting, Busy, Elsewhere

\* debug_task takes its first message.
LEMMA PendStartKeeps == ASSUME IInv, PendStart PROVE IInv'
<1>1. TypeOK'
  BY CaptureAssumption DEF IInv, TypeOK, PendStart, wave, ad, settings, Note
<1>2. ASSUME ~disturbed' PROVE Proto'
  <2>1. CASE AtRest'
    BY <2>1, RestIsProto
  <2>2. CASE ~AtRest'
    <3>1. ~disturbed /\ ~Elsewhere /\ ~Elsewhere' /\ Proto
      BY <1>2, <2>2 DEF PendStart, Note, IInv
    <3> QED
      BY <2>2, <3>1, CaptureAssumption
         DEF IInv, TypeOK, Proto, Ordered, Guarded, Waiting, Growing, Starting, Busy, AtRest, UnderWay, Elsewhere, PendStart, wave, ad, settings, Note
  <2> QED BY <2>1, <2>2
<1> QED BY <1>1, <1>2 DEF IInv

\* It starts the DMA.
LEMMA StreamKeeps == ASSUME IInv, Stream PROVE IInv'
<1>1. TypeOK'
  BY CaptureAssumption DEF IInv, TypeOK, Stream, wave, ad, settings, Note
<1>2. ASSUME ~disturbed' PROVE Proto'
  <2>1. CASE AtRest'
    BY <2>1, RestIsProto
  <2>2. CASE ~AtRest'
    <3>1. ~disturbed /\ ~Elsewhere /\ ~Elsewhere' /\ Proto
      BY <1>2, <2>2 DEF Stream, Note, IInv
    <3> QED
      BY <2>2, <3>1, CaptureAssumption
         DEF IInv, TypeOK, Proto, Ordered, Guarded, Waiting, Growing, Starting, Busy, AtRest, UnderWay, Elsewhere, Stream, wave, ad, settings, Note
  <2> QED BY <2>1, <2>2
<1> QED BY <1>1, <1>2 DEF IInv

\* It takes its second message.
LEMMA PendEndKeeps == ASSUME IInv, PendEnd PROVE IInv'
<1>1. TypeOK'
  BY CaptureAssumption DEF IInv, TypeOK, PendEnd, wave, ad, settings, Note
<1>2. ASSUME ~disturbed' PROVE Proto'
  <2>1. CASE AtRest'
    BY <2>1, RestIsProto
  <2>2. CASE ~AtRest'
    <3>1. ~disturbed /\ ~Elsewhere /\ ~Elsewhere' /\ Proto
      BY <1>2, <2>2 DEF PendEnd, Note, IInv
    <3> QED
      BY <2>2, <3>1, CaptureAssumption
         DEF IInv, TypeOK, Proto, Ordered, Guarded, Waiting, Growing, Starting, Busy, AtRest, UnderWay, Elsewhere, PendEnd, wave, ad, settings, Note
  <2> QED BY <2>1, <2>2
<1> QED BY <1>1, <1>2 DEF IInv

\* It lets the interrupt in again.
LEMMA ReleaseKeeps == ASSUME IInv, Release PROVE IInv'
<1>1. TypeOK'
  BY CaptureAssumption DEF IInv, TypeOK, Release, wave, ad, settings, Note
<1>2. ASSUME ~disturbed' PROVE Proto'
  <2>1. CASE AtRest'
    BY <2>1, RestIsProto
  <2>2. CASE ~AtRest'
    <3>1. ~disturbed /\ ~Elsewhere /\ ~Elsewhere' /\ Proto
      BY <1>2, <2>2 DEF Release, Note, IInv
    <3> QED
      BY <2>2, <3>1, CaptureAssumption
         DEF IInv, TypeOK, Proto, Ordered, Guarded, Waiting, Growing, Starting, Busy, AtRest, UnderWay, Elsewhere, Release, wave, ad, settings, Note
  <2> QED BY <2>1, <2>2
<1> QED BY <1>1, <1>2 DEF IInv

\* The transmission ends.
LEMMA SentKeeps == ASSUME IInv, Sent PROVE IInv'
<1>1. TypeOK'
  BY CaptureAssumption DEF IInv, TypeOK, Sent, Post, wave, ad, settings, Note
<1>2. ASSUME ~disturbed' PROVE Proto'
  <2>1. CASE AtRest'
    BY <2>1, RestIsProto
  <2>2. CASE ~AtRest'
    <3>1. ~disturbed /\ ~Elsewhere /\ ~Elsewhere' /\ Proto
      BY <1>2, <2>2 DEF Sent, Note, IInv
    <3> QED
      BY <2>2, <3>1, CaptureAssumption
         DEF IInv, TypeOK, Proto, Ordered, Guarded, Waiting, Growing, Starting, Busy, AtRest, UnderWay, Elsewhere, Sent, Post, wave, ad, settings, Note
  <2> QED BY <2>1, <2>2
<1> QED BY <1>1, <1>2 DEF IInv

\* The channels go back to step 0.
LEMMA RecalibrateKeeps == ASSUME IInv, Recalibrate PROVE IInv'
<1>1. TypeOK'
  BY CaptureAssumption DEF IInv, TypeOK, Recalibrate, Steps, wave, ad, settings, Note
<1>2. ASSUME ~disturbed' PROVE Proto'
  <2>1. CASE AtRest'
    BY <2>1, RestIsProto
  <2>2. CASE ~AtRest'
    <3>1. ~disturbed /\ ~Elsewhere /\ ~Elsewhere' /\ Proto
      BY <1>2, <2>2 DEF Recalibrate, Note, IInv
    <3> QED
      BY <2>2, <3>1, CaptureAssumption
         DEF IInv, TypeOK, Proto, Ordered, Guarded, Waiting, Growing, Starting, Busy, AtRest, UnderWay, Elsewhere, Recalibrate, wave, ad, settings, Note
  <2> QED BY <2>1, <2>2
<1> QED BY <1>1, <1>2 DEF IInv

\* Another channel is watched: a hand in the capture unless nothing is under way.
LEMMA SetWatchKeeps == ASSUME IInv, SetWatch PROVE IInv'
<1>1. TypeOK'
  <2>1. step' \in Steps /\ sized' \in BOOLEAN /\ whole' \in BOOLEAN
    BY DEF IInv, TypeOK, SetWatch, Steps
  <2>3. index' \in 0..Size
    BY CaptureAssumption DEF IInv, TypeOK, SetWatch
  <2>4. left' \in BOOLEAN
    BY DEF IInv, TypeOK, SetWatch
  <2>2. disturbed' \in BOOLEAN
    BY DEF SetWatch, Note
  <2> QED BY <2>1, <2>2, <2>3, <2>4 DEF IInv, TypeOK, SetWatch, ad, settings
<1>2. ASSUME ~disturbed' PROVE Proto'
  <2>1. AtRest => AtRest'
    BY DEF SetWatch, ad, settings, AtRest, UnderWay
  <2>2. AtRest'
    BY <1>2, <2>1 DEF SetWatch, Note
  <2> QED BY <2>2, RestIsProto
<1> QED BY <1>1, <1>2 DEF IInv

\* The tty changes hands.
LEMMA SetTtyKeeps == ASSUME IInv, NEW t \in {"CONSOLE", "MODBUS"}, SetTty(t) PROVE IInv'
<1>1. TypeOK'
  BY CaptureAssumption DEF IInv, TypeOK, SetTty, wave, ad, settings, Note
<1>2. ASSUME ~disturbed' PROVE Proto'
  <2>1. CASE AtRest'
    BY <2>1, RestIsProto
  <2>2. CASE ~AtRest'
    <3>1. ~disturbed /\ ~Elsewhere /\ ~Elsewhere' /\ Proto
      BY <1>2, <2>2 DEF SetTty, Note, IInv
    <3> QED
      BY <2>2, <3>1, CaptureAssumption
         DEF IInv, TypeOK, Proto, Ordered, Guarded, Waiting, Growing, Starting, Busy, AtRest, UnderWay, Elsewhere, SetTty, wave, ad, settings, Note
  <2> QED BY <2>1, <2>2
<1> QED BY <1>1, <1>2 DEF IInv

\* The Modbus task answers.
LEMMA ReplyKeeps == ASSUME IInv, Reply PROVE IInv'
<1>1. TypeOK'
  BY CaptureAssumption DEF IInv, TypeOK, Reply, wave, ad, settings, Note
<1>2. ASSUME ~disturbed' PROVE Proto'
  <2>1. CASE AtRest'
    BY <2>1, RestIsProto
  <2>2. CASE ~AtRest'
    <3>1. ~disturbed /\ ~Elsewhere /\ ~Elsewhere' /\ Proto
      BY <1>2, <2>2 DEF Reply, Note, IInv
    <3> QED
      BY <2>2, <3>1, CaptureAssumption
         DEF IInv, TypeOK, Proto, Ordered, Guarded, Waiting, Growing, Starting, Busy, AtRest, UnderWay, Elsewhere, Reply, wave, ad, settings, Note
  <2> QED BY <2>1, <2>2
<1> QED BY <1>1, <1>2 DEF IInv

\* The mode is set.
LEMMA SetPrintKeeps == ASSUME IInv, NEW p \in Modes, SetPrint(p) PROVE IInv'
<1>1. TypeOK'
  BY CaptureAssumption DEF IInv, TypeOK, SetPrint, wave, ad, settings, Note
<1>2. ASSUME ~disturbed' PROVE Proto'
  <2>1. AtRest => AtRest'
    BY DEF SetPrint, wave, ad, AtRest, UnderWay
  <2>2. AtRest'
    BY <1>2, <2>1 DEF SetPrint, Note
  <2> QED BY <2>2, RestIsProto
<1> QED BY <1>1, <1>2 DEF IInv

\* A capture of AD_buff is asked for.
LEMMA TrigKeeps == ASSUME IInv, NEW again \in BOOLEAN, Trig(again) PROVE IInv'
<1>1. TypeOK'
  BY CaptureAssumption DEF IInv, TypeOK, Trig, wave, ad, settings, Note
<1>2. ASSUME ~disturbed' PROVE Proto'
  <2>1. CASE AtRest'
    BY <2>1, RestIsProto
  <2>2. CASE ~AtRest'
    <3>1. ~disturbed /\ ~UnderWay /\ ~Elsewhere' /\ Proto
      BY <1>2, <2>2 DEF Trig, Note, IInv
    <3> QED
      BY <2>2, <3>1, CaptureAssumption
         DEF IInv, TypeOK, Proto, Ordered, Guarded, Waiting, Growing, Starting, Busy, AtRest, UnderWay, Elsewhere, Trig, wave, ad, settings, Note
  <2> QED BY <2>1, <2>2
<1> QED BY <1>1, <1>2 DEF IInv

\* It is to be repeated or not.
LEMMA SetCirKeeps == ASSUME IInv, NEW b \in 0..1, SetCir(b) PROVE IInv'
<1>1. TypeOK'
  BY CaptureAssumption DEF IInv, TypeOK, SetCir, wave, ad, settings, Note
<1>2. ASSUME ~disturbed' PROVE Proto'
  <2>1. CASE AtRest'
    BY <2>1, RestIsProto
  <2>2. CASE ~AtRest'
    <3>1. ~disturbed /\ ~Elsewhere /\ ~Elsewhere' /\ Proto
      BY <1>2, <2>2 DEF SetCir, Note, IInv
    <3> QED
      BY <2>2, <3>1, CaptureAssumption
         DEF IInv, TypeOK, Proto, Ordered, Guarded, Waiting, Growing, Starting, Busy, AtRest, UnderWay, Elsewhere, SetCir, wave, ad, settings, Note
  <2> QED BY <2>1, <2>2
<1> QED BY <1>1, <1>2 DEF IInv

\* One sample stored: the place stays within the buffer, and is that of one wave.
LEMMA SampledTyped ==
  ASSUME IInv, NEW move \in Moves, Sampled(move)
  PROVE  /\ step' \in Steps /\ index' \in 0..Size /\ sized' \in BOOLEAN
         /\ left' \in BOOLEAN /\ whole' \in BOOLEAN
<1>1. IndexAfter(move) \in 0..Size
  BY CaptureAssumption DEF IndexAfter, IInv, TypeOK
<1>2. index' \in 0..Size
  BY <1>1, CaptureAssumption DEF Sampled
<1>3. step' \in Steps
  BY DEF Sampled, Steps, IInv, TypeOK
<1>4. sized' \in BOOLEAN
  BY DEF Sampled, IInv, TypeOK
<1>5. left' \in BOOLEAN
  BY DEF Sampled, IInv, TypeOK
<1>6. whole' \in BOOLEAN
  <2>1. WholeAfter(move) \in BOOLEAN
    BY DEF WholeAfter, IInv, TypeOK
  <2> QED BY <2>1 DEF Sampled
<1> QED BY <1>2, <1>3, <1>4, <1>5, <1>6

\* What becomes of the flag of a whole wave, as an equivalence.
LEMMA SampledFlags ==
  ASSUME NEW move \in Moves, Sampled(move)
  PROVE  /\ Stores(move) => (whole' <=> (index = 0 \/ (whole /\ index < Size)))
         /\ ~Stores(move) => (whole' <=> (dma_state = 1 /\ whole))
<1>1. CASE Stores(move)
  <2>1. whole' = (index = 0 \/ (whole /\ index < Size))
    BY <1>1 DEF Sampled, WholeAfter
  <2> QED BY <1>1, <2>1
<1>2. CASE ~Stores(move)
  <2>1. whole' = (dma_state = 1 /\ whole)
    BY <1>2 DEF Sampled, WholeAfter
  <2> QED BY <1>2, <2>1
<1> QED BY <1>1, <1>2

\* What the interrupt stores, it hands over at most once until debug_task is done.
LEMMA InterruptKeeps == ASSUME IInv, DmaInterrupt PROVE IInv'
<1>1. PICK move \in Moves :
        /\ Sampled(move)
        /\ \/ /\ HandOver(move)
              /\ dma_state' = 1 /\ Post("start")
              /\ UNCHANGED ad
           \/ /\ Fills
              /\ buffer_index' = (buffer_index + 1) % AdSize
              /\ IF buffer_index + 1 = AdSize
                 THEN buffer_en' = 0 /\ Post("start")
                 ELSE UNCHANGED <<buffer_en, debug_msg>>
              /\ UNCHANGED dma_state
           \/ /\ ~HandOver(move) /\ ~Fills
              /\ UNCHANGED <<ad, dma_state, debug_msg>>
        /\ Note(Ends(move) /\ dma_state = 1 /\ Starting)
  BY DEF DmaInterrupt
<1>2. UNCHANGED <<settings, debug, uart1, tty>>
  BY DEF DmaInterrupt
<1>3. TypeOK'
  <2>1. disturbed' \in BOOLEAN
    BY <1>1, CaptureAssumption DEF IInv, TypeOK, Note
  <2>2. /\ buffer_en' \in 0..1 /\ buffer_index' \in 0..(AdSize - 1)
        /\ dma_state' \in 0..1 /\ debug_msg' \in {"none", "start", "end"}
    <3>1. CASE Fills
      BY <1>1, <3>1, CaptureAssumption DEF HandOver, Fills, Post, ad, IInv, TypeOK
    <3>2. CASE ~Fills
      BY <1>1, <3>2 DEF Post, ad, IInv, TypeOK
    <3> QED BY <3>1, <3>2
  <2> QED BY <1>1, <1>2, <2>1, <2>2, SampledTyped DEF IInv, TypeOK, settings
<1>4. ASSUME ~disturbed' PROVE Proto'
  <2>1. CASE AtRest'
    BY <2>1, RestIsProto
  <2>2. CASE ~AtRest'
    <3>1. /\ ~disturbed /\ ~Elsewhere /\ ~Elsewhere' /\ Proto
          /\ dma_state = 1 /\ Starting => ~Ends(move)
      BY <1>1, <1>4, <2>2 DEF Note, IInv
    <3>2. HandOver(move) \/ Fills
            => ~Busy /\ dma_state = 0 /\ uart1 \in {"idle", "reply"}
      BY <3>1 DEF HandOver, Fills, Proto, Ordered, Guarded, Busy, IInv, TypeOK
    <3>3. /\ debug' = debug /\ uart1' = uart1 /\ print' = print
          /\ ~HandOver(move) /\ ~Fills
               => dma_state' = dma_state /\ debug_msg' = debug_msg /\ buffer_en' = buffer_en
          /\ HandOver(move)
               => dma_state' = 1 /\ debug_msg' = "start" /\ buffer_en' = buffer_en
          /\ Fills
               => /\ dma_state' = 0
                  /\ \/ debug_msg' = "start" /\ buffer_en' = 0
                     \/ debug_msg' = "none" /\ buffer_en' = 1
      BY <1>1, <1>2, <3>2 DEF HandOver, Fills, Post, Busy, ad, settings
    <3>4. Ordered'
      BY <3>1, <3>2, <3>3 DEF Proto, Ordered, Busy
    <3>5. Growing'
      <4>1. CASE index' = 0
        BY <4>1 DEF Growing
      <4>2. CASE index' # 0 /\ ~Stores(move)
        <5>1. index' = index /\ step # 0 /\ move # "quiet"
          BY <1>1, <4>2 DEF Sampled, IndexAfter
        <5>2. dma_state = 1
          BY <4>2, <5>1 DEF Stores, IInv, TypeOK
        <5> QED BY <3>1, <4>2, <5>1, <5>2 DEF Proto, Guarded
      <4>3. CASE index' # 0 /\ Stores(move)
        <5>1. index' = IndexAfter(move)
          BY <1>1, <4>3 DEF Sampled
        <5>2. index' < Size => index < Size /\ (index = 0 \/ whole)
          BY <3>1, <4>3, <5>1, CaptureAssumption
             DEF IndexAfter, Proto, Growing, IInv, TypeOK
        <5> QED BY <1>1, <4>3, <5>2, SampledFlags DEF Growing
      <4> QED BY <4>1, <4>2, <4>3
    <3>6. Guarded'
      <4>1. uart1 = "wave" => whole'
        BY <1>1, <3>1 DEF Sampled, WholeAfter, Stores, Proto, Guarded
      <4>2. dma_state' = 1 => index' = 0
        BY <1>1, <3>1, <3>2, <3>3
           DEF Sampled, IndexAfter, Stores, HandOver, Proto, Guarded, IInv, TypeOK
      <4> QED BY <3>1, <3>2, <3>3, <4>1, <4>2
              DEF HandOver, Fills, Busy, Proto, Guarded, IInv, TypeOK
    <3>7. Waiting'
      <4>1. CASE HandOver(move)
        <5>1. Ends(move) /\ step' = 6
          BY <1>1, <4>1 DEF HandOver, Sampled
        <5>2. sized'
          <6>1. IndexAfter(move) = index + 1
            BY <4>1, <5>1, CaptureAssumption
               DEF HandOver, IndexAfter, Overflows, Stores, Ends, Moves, IInv, TypeOK
          <6>2. IndexAfter(move) # 0
            BY <6>1 DEF IInv, TypeOK
          <6> QED BY <1>1, <5>1, <6>2 DEF Sampled
        <5>3. whole'
          <6>1. Stores(move) /\ index < Size
            BY <4>1, <5>1, CaptureAssumption
               DEF HandOver, Overflows, Stores, Ends, Moves, IInv, TypeOK
          <6>2. index = 0 \/ whole
            BY <3>1, <6>1, CaptureAssumption DEF Proto, Growing, IInv, TypeOK
          <6> QED BY <1>1, <6>1, <6>2, SampledFlags
        <5>4. uart1' = "idle"
          BY <1>2, <3>2, <3>3, <4>1, <2>2, <3>1 DEF Elsewhere
        <5> QED BY <5>1, <5>2, <5>3, <5>4 DEF Waiting
      <4>2. CASE Fills
        BY <3>3, <4>2 DEF Waiting
      <4>3. CASE ~HandOver(move) /\ ~Fills /\ dma_state = 1 /\ Starting
        <5>1. sized /\ whole /\ uart1 = "idle" /\ ~Ends(move)
          BY <3>1, <4>3 DEF Proto, Waiting
        <5>2. sized'
          BY <1>1, <5>1 DEF Sampled
        <5>3. whole'
          BY <1>1, <4>3, <5>1, SampledFlags DEF Stores
        <5> QED BY <3>3, <5>1, <5>2, <5>3 DEF Waiting
      <4>4. CASE ~HandOver(move) /\ ~Fills /\ ~(dma_state = 1 /\ Starting)
        BY <3>3, <4>4 DEF Waiting, Starting
      <4> QED BY <4>1, <4>2, <4>3, <4>4
    <3> QED BY <3>1, <3>4, <3>5, <3>6, <3>7 DEF Proto
  <2> QED BY <2>1, <2>2
<1> QED BY <1>3, <1>4 DEF IInv

\* Every step keeps the invariant.
LEMMA NextKeeps == IInv /\ [Next]_vars => IInv'
<1> SUFFICES ASSUME IInv, [Next]_vars PROVE IInv'
  OBVIOUS
<1>1. CASE Next
  BY <1>1, InterruptKeeps, RecalibrateKeeps, PendStartKeeps, StreamKeeps, PendEndKeeps,
     ReleaseKeeps, SentKeeps, SetWatchKeeps, SetPrintKeeps, TrigKeeps, SetCirKeeps,
     SetTtyKeeps, ReplyKeeps
     DEF Next, DebugStep
<1>2. CASE UNCHANGED vars
  <2>1. TypeOK'
    BY <1>2 DEF vars, IInv, TypeOK
  <2>2. ~disturbed' => Proto'
    BY <1>2 DEF vars, IInv, Proto, Ordered, Guarded, Waiting, Growing,
             Starting, Busy, AtRest, UnderWay, Elsewhere
  <2> QED BY <2>1, <2>2 DEF IInv
<1> QED BY <1>1, <1>2

LEMMA InitIInv == Init => IInv
<1> SUFFICES ASSUME Init PROVE IInv
  OBVIOUS
<1>1. TypeOK
  <2>1. /\ 0 \in 0..Size /\ 0 \in 0..(AdSize - 1) /\ 0 \in Modes
        /\ 0 \in 0..1 /\ 0 \in Steps
    BY CaptureAssumption DEF Steps
  <2> QED BY <2>1 DEF Init, TypeOK
<1>2. Proto
  BY DEF Init, Proto, Ordered, Guarded, Waiting, Growing,
             Starting, Busy, AtRest, UnderWay, Elsewhere
<1> QED BY <1>1, <1>2 DEF IInv

LEMMA Invariant == Spec => []IInv
  BY InitIInv, NextKeeps, PTL DEF Spec

\* Type correctness: neither buffer is written past its end.
THEOREM CaptureTypeCorrect == Spec => []TypeOK
<1>1. IInv => TypeOK
  BY DEF IInv
<1> QED BY <1>1, Invariant, PTL

\* What is sent undisturbed is one whole wave, and never nothing.
THEOREM SentWhole == Spec => []SentIsOneWave
<1>1. IInv => SentIsOneWave
  BY DEF IInv, SentIsOneWave, Proto, Guarded
<1> QED BY <1>1, Invariant, PTL

\* What SentIsStable says of a step.
StableStep ==
  /\ uart1 = "wave" /\ ~disturbed' => ~(index' > index)
  /\ uart1 = "ad" /\ ~disturbed' => UNCHANGED buffer_index

\* No interrupt stores into what the DMA sends.
THEOREM SentStable == Spec => SentIsStable
<1>1. IInv /\ [Next]_vars => [StableStep]_vars
  <2> SUFFICES ASSUME IInv, Next, ~disturbed', uart1 \in {"wave", "ad"}
               PROVE  StableStep
    BY DEF StableStep
  <2>1. CASE DmaInterrupt
    <3>1. PICK move \in Moves : Sampled(move)
      BY <2>1 DEF DmaInterrupt
    <3>2. (\E change \in BOOLEAN : Note(change)) /\ UNCHANGED uart1
      BY <2>1 DEF DmaInterrupt, Ends
    <3>3. ~disturbed /\ Proto
      BY <3>2 DEF Note, IInv, AtRest, UnderWay
    <3>4. CASE uart1 = "wave"
      BY <3>1, <3>3, <3>4 DEF Sampled, IndexAfter, Stores, Proto, Guarded, StableStep
    <3>5. CASE uart1 = "ad"
      <4>1. ~Fills
        BY <3>3, <3>5 DEF Fills, Proto, Ordered, Guarded, Busy
      <4>2. UNCHANGED buffer_index
        BY <2>1, <4>1 DEF DmaInterrupt, ad
      <4> QED BY <3>5, <4>2 DEF StableStep
    <3> QED BY <3>4, <3>5
  <2>2. CASE SetWatch
    <3>1. UNCHANGED uart1 /\ UNCHANGED buffer_index
      BY <2>2 DEF SetWatch, ad
    <3>2. ~AtRest /\ ~AtRest'
      BY <3>1 DEF AtRest, UnderWay
    <3> QED BY <2>2, <3>2 DEF SetWatch, Note
  <2>3. CASE ~DmaInterrupt /\ ~SetWatch
    <3>1. UNCHANGED <<index, buffer_index>>
      BY <2>3 DEF Next, DebugStep, PendStart, Stream, PendEnd, Release, Sent, Recalibrate,
                  SetPrint, Trig, SetCir, SetTty, Reply, wave, ad
    <3>2. ~(index' > index)
      BY <3>1 DEF IInv, TypeOK
    <3> QED BY <3>1, <3>2 DEF StableStep
  <2> QED BY <2>1, <2>2, <2>3
<1> QED BY <1>1, Invariant, PTL DEF Spec, SentIsStable, StableStep
-----------------------------------------------------------------------------
(* That a capture goes on.                                                 *)

\* How far a capture of waves is from its end: the start is posted, taken, the wave is
\* sent, its end posted, taken.
Stage ==
  IF debug_msg = "start" THEN 5 ELSE
  IF debug = "start" THEN 4 ELSE
  IF uart1 = "wave" THEN 3 ELSE
  IF debug_msg = "end" THEN 2 ELSE
  IF debug = "end" THEN 1 ELSE 0

\* An undisturbed capture that keeps the interrupt out is in one of the five.
Staged == dma_state = 1 /\ ~disturbed => Stage > 0

\* It never goes back, and a step of debug_task or the end of the transmission leads on.
OnlyForward ==
  [][ dma_state = 1 /\ ~disturbed'
        => \/ dma_state' = 0
           \/ Stage' <= Stage /\ (DebugStep \/ Sent => Stage' < Stage) ]_vars

\* What OnlyForward says of a step.
ForwardStep ==
  dma_state = 1 /\ ~disturbed'
    => \/ dma_state' = 0
       \/ Stage' <= Stage /\ (DebugStep \/ Sent => Stage' < Stage)

\* While a capture is under way undisturbed, no hand was in it at this step either.
LEMMA StillUnderWay ==
  ASSUME IInv, NEW change, Note(change), ~disturbed', dma_state' = 1
  PROVE  ~change /\ ~disturbed /\ ~Elsewhere /\ ~Elsewhere' /\ Proto
  BY DEF IInv, Note, AtRest, UnderWay

\* The steps of debug_task and the end of the transmission each lead on.
LEMMA TaskLeadsOn ==
  ASSUME IInv, Staged, DebugStep \/ Sent, ~disturbed', dma_state' = 1
  PROVE  Stage' > 0 /\ Stage' < Stage
<1>1. Note(FALSE)
  BY DEF DebugStep, PendStart, Stream, PendEnd, Release, Sent
<1>2. ~disturbed /\ ~Elsewhere /\ Proto
  BY <1>1, StillUnderWay
<1>3. dma_state = 1
  <2>1. dma_state' = dma_state \/ dma_state' = 0
    BY DEF DebugStep, PendStart, Stream, PendEnd, Release, Sent, wave, ad, settings
  <2> QED BY <2>1
<1>4. CASE PendStart
  BY <1>2, <1>3, <1>4 DEF PendStart, Stage, Staged, Proto, Ordered, IInv, TypeOK
<1>5. CASE Stream
  BY <1>2, <1>3, <1>5 DEF Stream, Stage, Staged, Proto, Ordered, Guarded, Waiting, Starting
<1>6. CASE PendEnd
  BY <1>2, <1>3, <1>6 DEF PendEnd, Stage, Staged, Proto, Ordered, IInv, TypeOK
<1>7. CASE Release
  BY <1>7 DEF Release
<1>8. CASE Sent
  BY <1>2, <1>3, <1>8 DEF Sent, Post, Elsewhere, Stage, Staged, Proto, Ordered, IInv, TypeOK
<1> QED BY <1>4, <1>5, <1>6, <1>7, <1>8 DEF DebugStep

\* The interrupt begins a capture and does not touch one that has begun.
LEMMA InterruptLeadsOn ==
  ASSUME IInv, Staged, DmaInterrupt, ~disturbed', dma_state' = 1
  PROVE  Stage' > 0 /\ (dma_state = 1 => Stage' = Stage)
<1>1. (\E change \in BOOLEAN : Note(change)) /\ UNCHANGED <<debug, uart1>>
  BY DEF DmaInterrupt, Ends
<1>2. ~disturbed /\ Proto
  BY <1>1, StillUnderWay
<1>3. CASE dma_state = 1
  <2>1. ~Fills /\ \A move \in Moves : ~HandOver(move)
    BY <1>2, <1>3 DEF Fills, HandOver, Proto, Guarded
  <2>2. UNCHANGED debug_msg
    BY <2>1 DEF DmaInterrupt
  <2>3. Stage' = Stage
    BY <1>1, <2>2 DEF Stage
  <2> QED BY <1>2, <1>3, <2>3 DEF Staged
<1>4. CASE dma_state # 1
  <2>1. PICK move \in Moves : HandOver(move) /\ Post("start")
    BY <1>4 DEF DmaInterrupt
  <2>2. debug_msg = "none"
    BY <1>2, <1>4, <2>1 DEF HandOver, Proto, Guarded, Busy
  <2>3. debug_msg' = "start"
    BY <2>1, <2>2 DEF Post
  <2> QED BY <1>4, <2>3 DEF Stage
<1> QED BY <1>3, <1>4

\* Nobody else has a part in it.
LEMMA OthersLeaveIt ==
  ASSUME IInv, Staged, Next, ~DmaInterrupt, ~DebugStep, ~Sent, ~disturbed', dma_state' = 1
  PROVE  Stage' > 0 /\ dma_state = 1 /\ Stage' = Stage
<1>1. PICK change \in BOOLEAN : Note(change)
  BY DEF Next, Recalibrate, SetWatch, SetPrint, Trig, SetCir, SetTty, Reply,
         AtRest, UnderWay
<1>2. ~disturbed /\ ~Elsewhere'
  BY <1>1, StillUnderWay
<1>3. UNCHANGED <<debug_msg, debug, dma_state>>
  BY DEF Next, Recalibrate, SetWatch, SetPrint, Trig, SetCir, SetTty, Reply, wave, ad, settings
<1>4. UNCHANGED uart1
  BY <1>2 DEF Next, Recalibrate, SetWatch, SetPrint, Trig, SetCir, SetTty, Reply, Elsewhere
<1>5. Stage' = Stage
  BY <1>3, <1>4 DEF Stage
<1> QED BY <1>2, <1>3, <1>5 DEF Staged

\* The step of the two properties.
LEMMA NextLeadsOn ==
  ASSUME IInv, Staged, Next, ~disturbed', dma_state' = 1
  PROVE  Stage' > 0 /\ ForwardStep
<1>1. Stage \in 0..5 /\ Stage' \in 0..5
  BY DEF Stage
<1>2. CASE DebugStep \/ Sent
  BY <1>1, <1>2, TaskLeadsOn DEF ForwardStep
<1>3. CASE DmaInterrupt /\ ~(DebugStep \/ Sent)
  BY <1>1, <1>3, InterruptLeadsOn DEF ForwardStep
<1>4. CASE ~DmaInterrupt /\ ~(DebugStep \/ Sent)
  BY <1>1, <1>4, OthersLeaveIt DEF ForwardStep
<1> QED BY <1>2, <1>3, <1>4

\* What CaptureEnds rests on, besides fairness: an undisturbed capture is never left
\* with nobody to take it on, and no step takes it back, so that five steps of
\* debug_task and the transmission end it.
THEOREM CaptureAdvances == Spec => []Staged /\ OnlyForward
<1>1. Init => Staged
  BY DEF Init, Staged
<1>2. IInv /\ IInv' /\ Staged /\ [Next]_vars => Staged' /\ [ForwardStep]_vars
  <2> SUFFICES ASSUME IInv, IInv', Staged, [Next]_vars
               PROVE  Staged' /\ [ForwardStep]_vars
    OBVIOUS
  <2>1. CASE UNCHANGED vars
    <3>1. Staged'
      BY <2>1 DEF Staged, Stage, vars
    <3> QED BY <2>1, <3>1
  <2>2. CASE Next /\ ~disturbed' /\ dma_state' = 1
    BY <2>2, NextLeadsOn DEF Staged
  <2>3. CASE Next /\ ~(~disturbed' /\ dma_state' = 1)
    BY <2>3 DEF Staged, ForwardStep, IInv, TypeOK
  <2> QED BY <2>1, <2>2, <2>3
<1> QED BY <1>1, <1>2, Invariant, PTL DEF Spec, OnlyForward, ForwardStep
=============================================================================
