------------------------------- MODULE IoTask -------------------------------
(***************************************************************************)
(* Requests a host makes by clearing a virtual input: the coil writes 05   *)
(* and 15 of the Modbus task, the queue io_msg, and io_task, which filters *)
(* the messages and acts on the inputs it finds cleared: it adjusts the    *)
(* detectors, resets the board or clears the counts.                       *)
(*                                                                         *)
(* io_task has priority 4 and the Modbus task 5: a pass of io_task from    *)
(* one delay to the next is one step, and io_task may come between any two *)
(* coils of a request.  A message only says that something changed, so the *)
(* queue is a count.  Nothing in the firmware posts the other message      *)
(* io_task knows, 0x55 for a change of the external inputs, so those are   *)
(* never sampled.                                                          *)
(***************************************************************************)
EXTENDS Naturals

CONSTANTS
  IO_MSG_SIZE,
  Virtual         \* the inputs considered, by their place in virtual_input

Adjust == 1
Reset == 3
Clear == 6
Requests == {Adjust, Reset, Clear}

ASSUME IoAssumption ==
  /\ IO_MSG_SIZE \in Nat \ {0}
  /\ Requests \subseteq Virtual /\ Virtual \subseteq Nat

VARIABLES
  is_registered,
  virtual_input,
  io_msg,       \* the number of messages waiting
  io,           \* what io_task does: it pends, filters or adjusts
  handler,      \* what the Modbus task does: it idles, writes or is to post
  todo,         \* the coils it has still to write
  off           \* those of the request that it clears, the others are set

modbus == <<handler, todo, off>>
vars == <<is_registered, virtual_input, io_msg, io, handler, todo, off>>

\* Modbus_RegMap sets the inputs; the queue is created empty.
Init ==
  /\ is_registered \in BOOLEAN
  /\ virtual_input = [k \in Virtual |-> 1]
  /\ io_msg = 0 /\ io = "pend"
  /\ handler = "idle" /\ todo = {} /\ off = {}

-----------------------------------------------------------------------------
(* The Modbus task.                                                        *)

\* io_task has a message, so nothing of a lower priority runs.
IoRuns == is_registered /\ io = "pend" /\ io_msg > 0

\* Modbus_05_Handle and Modbus_15_Handle, the coils being in range; the ones not
\* considered are in no set.
WriteCoils(coils, cleared) ==
  /\ ~IoRuns /\ handler = "idle"
  /\ handler' = "write" /\ todo' = coils /\ off' = cleared
  /\ UNCHANGED <<is_registered, virtual_input, io_msg, io>>

\* An address out of range writes nothing, but modbus_analyze posts all the same.
RefuseCoils ==
  /\ ~IoRuns /\ handler = "idle"
  /\ handler' = "post"
  /\ UNCHANGED <<is_registered, virtual_input, io_msg, io, todo, off>>

\* The coils are written one by one, from the first on.
WriteCoil ==
  /\ ~IoRuns /\ handler = "write"
  /\ \E k \in todo :
       /\ \A j \in todo : k <= j
       /\ virtual_input' = [virtual_input EXCEPT ![k] = IF k \in off THEN 0 ELSE 1]
       /\ todo' = todo \ {k}
  /\ UNCHANGED <<is_registered, io_msg, io, handler, off>>

Reply ==
  /\ ~IoRuns /\ handler = "write" /\ todo = {}
  /\ handler' = "post"
  /\ UNCHANGED <<is_registered, virtual_input, io_msg, io, todo, off>>

\* Plausible bug: one message too many for the queue.
PostBeyond ==
  /\ ~IoRuns /\ handler = "post"
  /\ io_msg' = IF io_msg <= IO_MSG_SIZE THEN io_msg + 1 ELSE io_msg
  /\ handler' = "idle"
  /\ UNCHANGED <<is_registered, virtual_input, io, todo, off>>

\* Plausible bug: while io_task is busy nothing is posted.
PostIfPending ==
  /\ ~IoRuns /\ handler = "post"
  /\ io_msg' = IF io = "pend" THEN 1 ELSE io_msg
  /\ handler' = "idle"
  /\ UNCHANGED <<is_registered, virtual_input, io, todo, off>>

\* OSQPost: a full queue drops the message, which nobody looks at.
Post ==
  /\ ~IoRuns /\ handler = "post"
  /\ io_msg' = IF io_msg < IO_MSG_SIZE THEN io_msg + 1 ELSE io_msg
  /\ handler' = "idle"
  /\ UNCHANGED <<is_registered, virtual_input, io, todo, off>>

-----------------------------------------------------------------------------
(* io_task.  On a board that is not registered it only sleeps.             *)

\* A message is taken and the 10 ms of the filter begin.
Pend ==
  /\ IoRuns
  /\ io_msg' = io_msg - 1
  /\ io' = "filter"
  /\ UNCHANGED <<is_registered, virtual_input, modbus>>

\* A message that came meanwhile is taken instead, and filtered in its turn.
Skip ==
  /\ io = "filter" /\ io_msg > 0
  /\ io_msg' = io_msg - 1
  /\ UNCHANGED <<is_registered, virtual_input, io, modbus>>

\* do_reset: the board starts again.
Restart ==
  /\ virtual_input' = [k \in Virtual |-> 1]
  /\ io_msg' = 0 /\ io' = "pend"
  /\ handler' = "idle" /\ todo' = {} /\ off' = {}

\* Plausible bug: all inputs are set back at the end.
FinishAll ==
  IF virtual_input[Reset] = 0
  THEN Restart
  ELSE /\ virtual_input' = [k \in Virtual |-> 1]
       /\ io' = "pend"
       /\ UNCHANGED <<io_msg, modbus>>

\* The rest of a pass: a reset clears the memory; a request to clear the counts is
\* done at once.
Finish ==
  IF virtual_input[Reset] = 0
  THEN Restart
  ELSE /\ virtual_input' = [virtual_input EXCEPT ![Clear] = 1]
       /\ io' = "pend"
       /\ UNCHANGED <<io_msg, modbus>>

\* The filter ends without another message.
Scan ==
  /\ io = "filter" /\ io_msg = 0
  /\ IF virtual_input[Adjust] = 0
     THEN /\ virtual_input' = [virtual_input EXCEPT ![Adjust] = 1]
          /\ io' = "adjust"
          /\ UNCHANGED <<io_msg, modbus>>
     ELSE Finish
  /\ UNCHANGED is_registered

\* Plausible bug: a pass serves one request only.
AdjustedOnly ==
  /\ io = "adjust"
  /\ io' = "pend"
  /\ UNCHANGED <<is_registered, virtual_input, io_msg, modbus>>

\* re_calibration_detect returns.
Adjusted ==
  /\ io = "adjust"
  /\ Finish
  /\ UNCHANGED is_registered

ModbusStep == WriteCoil \/ Reply \/ Post
IoStep == Pend \/ Skip \/ Scan \/ Adjusted

\* What the host asks for.
Ask ==
  \/ \E coils \in SUBSET Virtual : \E cleared \in SUBSET coils :
       WriteCoils(coils, cleared)
  \/ RefuseCoils

Next == Ask \/ ModbusStep \/ IoStep

Spec == Init /\ [][Next]_vars

\* Both tasks run when they can, and a calibration ends.
FairSpec == Spec /\ WF_vars(IoStep) /\ WF_vars(ModbusStep)

-----------------------------------------------------------------------------
(* Properties.                                                             *)

\* The types of the variables.
TypeOK ==
  /\ is_registered \in BOOLEAN
  /\ virtual_input \in [Virtual -> {0, 1}]
  /\ io_msg \in 0 .. IO_MSG_SIZE
  /\ io \in {"pend", "filter", "adjust"}
  /\ handler \in {"idle", "write", "post"}
  /\ todo \subseteq Virtual /\ off \subseteq Virtual

\* io_task is still to look at this input.
Noticed(k) ==
  \/ io_msg > 0 \/ handler # "idle" \/ io = "filter"
  \/ io = "adjust" /\ k # Adjust

\* No wake-up is lost: while an input asks for something, a message waits, is being
\* filtered or is about to be posted, although full queues drop messages, the filter
\* discards them and requests overtake a running calibration.
NoLostWakeup ==
  is_registered
    => \A k \in Requests : virtual_input[k] = 0 => Noticed(k)

\* A request disappears only in the step that begins to do what it asks for: one that
\* comes during a calibration is not taken for the one being served.
ServedWhenTaken ==
  [][\A k \in Requests :
       virtual_input[k] = 0 /\ virtual_input'[k] = 1
         => \/ k \in todo /\ k \notin todo'       \* the host withdrew it
            \/ virtual_input[Reset] = 0 /\ io' = "pend"  \* the board restarted
            \/ k = Adjust /\ io = "filter" /\ io' = "adjust"
            \/ k = Clear /\ io # "pend" /\ io' = "pend"]_vars

\* When the host has stopped asking, every request is served: an uninterrupted stream
\* of coil writes can keep the filter of io_task busy.
RequestsServed ==
  is_registered /\ <>[][~Ask]_vars
    => <>[](\A k \in Requests : virtual_input[k] = 1)
=============================================================================
