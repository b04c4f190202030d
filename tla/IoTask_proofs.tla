---------------------------- MODULE IoTask_proofs ----------------------------
(***************************************************************************)
(* Proofs about IoTask for every length of the queue and every set of      *)
(* inputs: the types, no lost wake-up and no request taken unserved.       *)
(***************************************************************************)
EXTENDS IoTask, TLAPS

\* Inductive as it stands: the queue holds a message whenever it drops one.
IInv == TypeOK /\ NoLostWakeup

\* Started again, nothing is asked for.
LEMMA RestartKeeps ==
  ASSUME IInv, Restart, is_registered' = is_registered
  PROVE  IInv'
<1>1. TypeOK'
  BY IoAssumption DEF Restart, IInv, TypeOK
<1>2. NoLostWakeup'
  BY IoAssumption DEF Restart, NoLostWakeup
<1> QED BY <1>1, <1>2 DEF IInv

\* The rest of a pass: an input that asks to adjust is noticed elsewhere.
LEMMA FinishKeeps ==
  ASSUME IInv, Finish, is_registered' = is_registered, io # "pend",
         is_registered /\ virtual_input[Adjust] = 0 => io_msg > 0 \/ handler # "idle"
  PROVE  IInv'
<1>1. CASE virtual_input[Reset] = 0
  BY <1>1, RestartKeeps DEF Finish
<1>2. CASE virtual_input[Reset] # 0
  <2>1. /\ virtual_input' = [virtual_input EXCEPT ![Clear] = 1]
        /\ io' = "pend" /\ UNCHANGED <<io_msg, handler, todo, off>>
    BY <1>2 DEF Finish, modbus
  <2>2. TypeOK'
    BY <2>1 DEF IInv, TypeOK
  <2>3. /\ virtual_input'[Clear] = 1 /\ virtual_input'[Reset] # 0
        /\ virtual_input'[Adjust] = virtual_input[Adjust]
    BY <1>2, <2>1, IoAssumption DEF IInv, TypeOK, Requests, Adjust, Reset, Clear
  <2>4. NoLostWakeup'
    BY <2>1, <2>3 DEF NoLostWakeup, Noticed, Requests
  <2> QED BY <2>2, <2>4 DEF IInv
<1> QED BY <1>1, <1>2

\* The steps of the Modbus task.
LEMMA ModbusKeeps == ASSUME IInv, Ask \/ ModbusStep PROVE IInv'
<1>1. ASSUME NEW coils \in SUBSET Virtual, NEW cleared \in SUBSET coils,
             WriteCoils(coils, cleared)
      PROVE  IInv'
  BY <1>1 DEF WriteCoils, IInv, TypeOK, NoLostWakeup, Noticed
<1>2. CASE RefuseCoils \/ Reply
  BY <1>2 DEF RefuseCoils, Reply, IInv, TypeOK, NoLostWakeup, Noticed
<1>3. CASE WriteCoil
  <2>1. PICK k \in todo :
          /\ virtual_input' = [virtual_input EXCEPT ![k] = IF k \in off THEN 0 ELSE 1]
          /\ todo' = todo \ {k}
    BY <1>3 DEF WriteCoil
  <2>2. virtual_input' \in [Virtual -> {0, 1}] /\ todo' \subseteq Virtual
    BY <2>1 DEF IInv, TypeOK
  <2>3. handler' = "write"
        /\ UNCHANGED <<is_registered, io_msg, io, handler, off>>
    BY <1>3 DEF WriteCoil
  <2> QED BY <2>2, <2>3 DEF IInv, TypeOK, NoLostWakeup, Noticed
<1>4. CASE Post
  <2>1. io_msg' \in 0 .. IO_MSG_SIZE /\ io_msg' > 0
    BY <1>4, IoAssumption DEF Post, IInv, TypeOK
  <2> QED BY <1>4, <2>1 DEF Post, IInv, TypeOK, NoLostWakeup, Noticed
<1> QED BY <1>1, <1>2, <1>3, <1>4 DEF Ask, ModbusStep

\* The steps of io_task.
LEMMA IoKeeps == ASSUME IInv, IoStep PROVE IInv'
<1>1. CASE Pend \/ Skip
  <2>1. io_msg' \in 0 .. IO_MSG_SIZE /\ io' = "filter"
        /\ UNCHANGED <<is_registered, virtual_input, handler, todo, off>>
    BY <1>1, IoAssumption DEF Pend, Skip, IoRuns, modbus, IInv, TypeOK
  <2> QED BY <2>1 DEF IInv, TypeOK, NoLostWakeup, Noticed
<1>2. CASE Scan
  <2>1. CASE virtual_input[Adjust] = 0
    <3>1. /\ virtual_input' = [virtual_input EXCEPT ![Adjust] = 1]
          /\ io' = "adjust"
          /\ UNCHANGED <<is_registered, io_msg, handler, todo, off>>
      BY <1>2, <2>1 DEF Scan, modbus
    <3>2. TypeOK' /\ virtual_input'[Adjust] = 1
      BY <3>1, IoAssumption DEF IInv, TypeOK, Requests
    <3>3. NoLostWakeup'
      BY <3>1, <3>2 DEF NoLostWakeup, Noticed, Requests
    <3> QED BY <3>2, <3>3 DEF IInv
  <2>2. CASE virtual_input[Adjust] # 0
    <3>1. Finish /\ is_registered' = is_registered /\ io # "pend"
      BY <1>2, <2>2 DEF Scan
    <3> QED BY <2>2, <3>1, FinishKeeps
  <2> QED BY <2>1, <2>2
<1>3. CASE Adjusted
  <2>1. is_registered /\ virtual_input[Adjust] = 0 => io_msg > 0 \/ handler # "idle"
    BY <1>3 DEF Adjusted, IInv, NoLostWakeup, Noticed, Requests
  <2>2. Finish /\ is_registered' = is_registered /\ io # "pend"
    BY <1>3 DEF Adjusted
  <2> QED BY <2>1, <2>2, FinishKeeps
<1> QED BY <1>1, <1>2, <1>3 DEF IoStep

\* Every step keeps the invariant.
LEMMA NextInv == IInv /\ [Next]_vars => IInv'
<1> SUFFICES ASSUME IInv, [Next]_vars PROVE IInv'
  OBVIOUS
<1>1. CASE Next
  BY <1>1, ModbusKeeps, IoKeeps DEF Next
<1>2. CASE UNCHANGED vars
  BY <1>2 DEF vars, IInv, TypeOK, NoLostWakeup, Noticed
<1> QED BY <1>1, <1>2

\* Type correctness: the count of messages stays within the queue.
THEOREM IoTypeCorrect == Spec => []TypeOK
<1>1. Init => IInv
  BY IoAssumption DEF Init, IInv, TypeOK, NoLostWakeup, Noticed, Requests
<1>2. IInv => TypeOK
  BY DEF IInv
<1> QED BY <1>1, <1>2, NextInv, PTL DEF Spec

\* No wake-up is lost, whatever the queue drops and the filter discards.
THEOREM WakeupsKept == Spec => []NoLostWakeup
<1>1. Init => IInv
  BY IoAssumption DEF Init, IInv, TypeOK, NoLostWakeup, Noticed, Requests
<1>2. IInv => NoLostWakeup
  BY DEF IInv
<1> QED BY <1>1, <1>2, NextInv, PTL DEF Spec

\* What ServedWhenTaken says of a step.
TakenStep ==
  \A k \in Requests :
    virtual_input[k] = 0 /\ virtual_input'[k] = 1
      => \/ k \in todo /\ k \notin todo'
         \/ virtual_input[Reset] = 0 /\ io' = "pend"
         \/ k = Adjust /\ io = "filter" /\ io' = "adjust"
         \/ k = Clear /\ io # "pend" /\ io' = "pend"

\* A request is taken only by the step that begins to serve it.
THEOREM TakenIsServed == Spec => ServedWhenTaken
<1>1. Init => TypeOK
  BY IoAssumption DEF Init, TypeOK
<1>2. TypeOK /\ Next => TakenStep
  <2> SUFFICES ASSUME TypeOK, Next, NEW k \in Requests,
                      virtual_input[k] = 0, virtual_input'[k] = 1
               PROVE  \/ k \in todo /\ k \notin todo'
                      \/ virtual_input[Reset] = 0 /\ io' = "pend"
                      \/ k = Adjust /\ io = "filter" /\ io' = "adjust"
                      \/ k = Clear /\ io # "pend" /\ io' = "pend"
    BY DEF TakenStep
  <2>0. virtual_input' # virtual_input /\ 0 # 1
    OBVIOUS
  <2>1. CASE Ask \/ Reply \/ Post \/ Pend \/ Skip
    BY <2>0, <2>1 DEF Ask, WriteCoils, RefuseCoils, Reply, Post, Pend, Skip
  <2>2. CASE WriteCoil
    <3>1. PICK j \in todo :
            /\ virtual_input' = [virtual_input EXCEPT ![j] = IF j \in off THEN 0 ELSE 1]
            /\ todo' = todo \ {j}
      BY <2>2 DEF WriteCoil
    <3>2. j = k
      BY <2>0, <3>1, IoAssumption DEF TypeOK
    <3> QED BY <3>1, <3>2
  <2>3. ASSUME Finish, io # "pend"
        PROVE  \/ virtual_input[Reset] = 0 /\ io' = "pend"
               \/ k = Clear /\ io # "pend" /\ io' = "pend"
    <3>1. CASE virtual_input[Reset] = 0
      BY <2>3, <3>1 DEF Finish, Restart
    <3>2. CASE virtual_input[Reset] # 0
      <4>1. virtual_input' = [virtual_input EXCEPT ![Clear] = 1] /\ io' = "pend"
        BY <2>3, <3>2 DEF Finish
      <4>2. k = Clear
        BY <2>0, <4>1, IoAssumption DEF TypeOK
      <4> QED BY <2>3, <4>1, <4>2
    <3> QED BY <3>1, <3>2
  <2>4. CASE Scan
    <3>1. CASE virtual_input[Adjust] = 0
      <4>1. /\ virtual_input' = [virtual_input EXCEPT ![Adjust] = 1]
            /\ io = "filter" /\ io' = "adjust"
        BY <2>4, <3>1 DEF Scan
      <4>2. k = Adjust
        BY <2>0, <4>1, IoAssumption DEF TypeOK
      <4> QED BY <4>1, <4>2
    <3>2. CASE virtual_input[Adjust] # 0
      BY <2>3, <2>4, <3>2 DEF Scan
    <3> QED BY <3>1, <3>2
  <2>5. CASE Adjusted
    BY <2>3, <2>5 DEF Adjusted
  <2> QED BY <2>1, <2>2, <2>4, <2>5 DEF Next, ModbusStep, IoStep
<1>3. TypeOK /\ [Next]_vars => [TakenStep]_vars
  BY <1>2
<1> QED BY <1>1, <1>3, IoTypeCorrect, PTL DEF Spec, ServedWhenTaken, TakenStep
=============================================================================
