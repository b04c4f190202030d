--------------------------- MODULE ModbusLink_proofs ---------------------------
(***************************************************************************)
(* For any set of masters, any queue length and whatever is lost: the      *)
(* queue of the Modbus task never overflows, and a port is deaf, or its    *)
(* bus driven, only while a request that came in on it is being answered.  *)
(* For a master alone on uart3, while what is typed on uart1 is printable  *)
(* lines at the pace of the echo: the board implements RequestReply, and   *)
(* is ready whenever the master gives up.                                  *)
(***************************************************************************)
EXTENDS ModbusLink, SequenceTheorems, TLAPS

\* The sleep of start_uart3_receive is uart3's.
RearmsUart3 == task = "rearm" => serving = 3

IInv == TypeOK /\ HeldOnlyWhileServed /\ RearmsUart3

Queue == {q \in Seq(Message) : Len(q) <= QueueLen}

\* OSQPost keeps a queue within its length, whether or not it drops the message.
LEMMA PostInQueue ==
  ASSUME NEW q \in Queue, NEW m \in Message
  PROVE  Post(q, m) \in Queue
<1> USE LinkAssumption
<1>1. CASE Len(q) < QueueLen
  <2>1. Append(q, m) \in Seq(Message) /\ Len(Append(q, m)) = Len(q) + 1 /\ Len(q) \in Nat
    BY DEF Queue
  <2> QED BY <1>1, <2>1 DEF Post, Queue
<1>2. CASE ~(Len(q) < QueueLen)
  BY <1>2 DEF Post
<1> QED BY <1>1, <1>2

\* OSQPend takes one message off.
LEMMA TailInQueue ==
  ASSUME NEW q \in Queue, q # <<>>
  PROVE  Tail(q) \in Queue
<1>1. Tail(q) \in Seq(Message) /\ Len(Tail(q)) = Len(q) - 1 /\ Len(q) \in Nat
  BY DEF Queue
<1> QED BY <1>1, LinkAssumption DEF Queue

\* What a burst leaves in a buffer is a content.
LEMMA JoinedContent ==
  ASSUME NEW old \in Content, NEW new \in Content
  PROVE  Joined(old, new) \in Content
BY DEF Joined, Content, Addressed, Text, Typed

\* Re-arming a port makes it listen and leaves no idle line pending on it.
LEMMA RearmKeeps ==
  ASSUME TypeOK, NEW u \in Ports, NEW q \in Queue, Rearm(u, q)
  PROVE  /\ buf' \in [Ports -> Content]
         /\ on' \in [Ports -> BOOLEAN] /\ idle' \in [Ports -> BOOLEAN]
         /\ cmd_msg' \in BOOLEAN
         /\ modbus_msg' \in Queue
         /\ on'[u] /\ ~idle'[u]
         /\ \A p \in Ports \ {u} : on'[p] = on[p] /\ idle'[p] = idle[p]
<1>1. buf' \in [Ports -> Content]
  <2>1. PICK left \in Content : buf' = [buf EXCEPT ![u] = left]
    BY DEF Rearm, Leftover, Content, Text
  <2> QED BY <2>1 DEF TypeOK
<1>2. on' \in [Ports -> BOOLEAN] /\ idle' \in [Ports -> BOOLEAN]
      /\ on'[u] /\ ~idle'[u]
      /\ \A p \in Ports \ {u} : on'[p] = on[p] /\ idle'[p] = idle[p]
  BY DEF Rearm, TypeOK
<1>3. cmd_msg' \in BOOLEAN
  BY DEF Rearm, TypeOK
<1>4. modbus_msg' \in Queue
  <2>1. modbus_msg' = q \/ modbus_msg' = Post(q, "req3")
    BY DEF Rearm
  <2>2. "req3" \in Message
    BY DEF Message
  <2> QED BY <2>1, <2>2, PostInQueue
<1> QED BY <1>1, <1>2, <1>3, <1>4

\* A burst that meets a listening port is stored, one that meets a stopped port leaves
\* its idle line pending there.
LEMMA ArriveKeeps ==
  ASSUME IInv, NEW u \in Ports, NEW frame \in Content, Arrive(u, frame),
         asked' \subseteq Ports
  PROVE  IInv'
<1>1. CASE on[u]
  <2>1. buf' \in [Ports -> Content]
    <3>1. Joined(buf[u], frame) \in Content
      BY JoinedContent DEF IInv, TypeOK
    <3>2. buf' = [buf EXCEPT ![u] = Joined(buf[u], frame)]
      BY <1>1 DEF Arrive
    <3> QED BY <3>1, <3>2 DEF IInv, TypeOK
  <2>2. modbus_msg' \in Queue
    <3>1. modbus_msg \in Queue /\ "req3" \in Message
      BY DEF IInv, TypeOK, Queue, Message
    <3>2. modbus_msg' = modbus_msg \/ modbus_msg' = Post(modbus_msg, "req3")
      BY <1>1 DEF Arrive
    <3> QED BY <3>1, <3>2, PostInQueue
  <2>3. cmd_msg' \in BOOLEAN /\ idle' = idle
    BY <1>1 DEF Arrive, IInv, TypeOK
  <2>4. TypeOK'
    BY <2>1, <2>2, <2>3 DEF IInv, TypeOK, Arrive, Queue
  <2> QED BY <2>3, <2>4 DEF IInv, HeldOnlyWhileServed, RearmsUart3, Arrive
<1>2. CASE ~on[u]
  <2>1. idle' = [idle EXCEPT ![u] = TRUE] /\ UNCHANGED <<buf, cmd_msg, modbus_msg>>
    BY <1>2 DEF Arrive
  <2>2. TypeOK'
    BY <2>1 DEF IInv, TypeOK, Arrive
  <2>3. HeldOnlyWhileServed'
    BY <1>2, <2>1 DEF IInv, TypeOK, HeldOnlyWhileServed, Arrive
  <2> QED BY <2>2, <2>3 DEF IInv, RearmsUart3, Arrive
<1> QED BY <1>1, <1>2

\* A transmission that ends posts at most one message.
LEMMA SentKeeps == IInv /\ (Uart1Sent \/ Uart3Sent) => IInv'
<1> SUFFICES ASSUME IInv, Uart1Sent \/ Uart3Sent PROVE IInv'
  OBVIOUS
<1>1. modbus_msg' \in Queue
  <2>1. modbus_msg \in Queue /\ "done" \in Message
    BY DEF IInv, TypeOK, Queue, Message
  <2>2. modbus_msg' = modbus_msg \/ modbus_msg' = Post(modbus_msg, "done")
    BY DEF Uart1Sent, Uart3Sent
  <2> QED BY <2>1, <2>2, PostInQueue
<1>2. /\ sending' \in [Ports -> {"none", "reply", "stream"}] /\ sending'[3] # "stream"
      /\ asked' \subseteq Ports
  BY DEF Uart1Sent, Uart3Sent, IInv, TypeOK, Ports
<1>3. UNCHANGED <<buf, on, idle, cmd_msg, scanning, seen, task, serving, tty, tx_en, shell>>
  BY DEF Uart1Sent, Uart3Sent, ports, cmd
<1>4. TypeOK'
  BY <1>1, <1>2, <1>3 DEF IInv, TypeOK, Queue
<1> QED BY <1>3, <1>4 DEF IInv, HeldOnlyWhileServed, RearmsUart3

-----------------------------------------------------------------------------
(* cmd_task, handle_task and debug_task.                                   *)

\* Taking a message and starting a stream touch neither the ports nor the Modbus task.
LEMMA TakeKeeps == IInv /\ (CmdTake \/ CmdModbus \/ StreamStart) => IInv'
<1> SUFFICES ASSUME IInv, CmdTake \/ CmdModbus \/ StreamStart PROVE IInv'
  OBVIOUS
<1>1. UNCHANGED <<buf, on, idle, task, serving, tx_en, shell, asked>>
  BY DEF CmdTake, CmdModbus, StreamStart, ports, cmd
<1>2. modbus_msg' \in Queue
  <2>1. modbus_msg \in Queue /\ "req1" \in Message
    BY DEF IInv, TypeOK, Queue, Message
  <2>2. modbus_msg' = modbus_msg \/ modbus_msg' = Post(modbus_msg, "req1")
    BY DEF CmdTake, CmdModbus, StreamStart
  <2> QED BY <2>1, <2>2, PostInQueue
<1>3. /\ cmd_msg' \in BOOLEAN /\ scanning' \in {"no", "counted", "cleared"} /\ seen' \in Content
      /\ tty' \in {"IDLE", "CONSOLE", "MODBUS"}
  BY DEF CmdTake, CmdModbus, StreamStart, ports, cmd, IInv, TypeOK, Ports
<1>4. sending' \in [Ports -> {"none", "reply", "stream"}] /\ sending'[3] # "stream"
  BY DEF CmdTake, CmdModbus, StreamStart, IInv, TypeOK, Ports
<1>5. TypeOK'
  BY <1>1, <1>2, <1>3, <1>4 DEF IInv, TypeOK, Queue
<1> QED BY <1>1, <1>5 DEF IInv, HeldOnlyWhileServed, RearmsUart3

\* The console re-arms uart1 at any time, also under a reply; that only makes it listen.
LEMMA ConsoleKeeps == IInv /\ (CmdText \/ ShellDone) => IInv'
<1> SUFFICES ASSUME IInv, CmdText \/ ShellDone PROVE IInv'
  OBVIOUS
<1>1. \/ UNCHANGED <<ports, cmd_msg, modbus_msg>>
      \/ Rearm(1, modbus_msg)
  BY DEF CmdText, ShellDone
<1>2. /\ UNCHANGED <<seen, task, serving, sending, tx_en, asked>>
      /\ scanning' \in {"no", "counted", "cleared"} /\ shell' \in BOOLEAN
      /\ tty' \in {"IDLE", "CONSOLE", "MODBUS"}
  BY DEF CmdText, ShellDone, IInv, TypeOK
<1>3. modbus_msg \in Queue /\ 1 \in Ports
  BY DEF IInv, TypeOK, Queue, Ports
<1>4. CASE UNCHANGED <<ports, cmd_msg, modbus_msg>>
  BY <1>2, <1>4 DEF ports, IInv, TypeOK, HeldOnlyWhileServed, RearmsUart3
<1>5. CASE Rearm(1, modbus_msg)
  <2>1. /\ buf' \in [Ports -> Content]
        /\ on' \in [Ports -> BOOLEAN] /\ idle' \in [Ports -> BOOLEAN]
        /\ cmd_msg' \in BOOLEAN /\ modbus_msg' \in Queue
        /\ on'[1] /\ ~idle'[1]
        /\ \A p \in Ports \ {1} : on'[p] = on[p] /\ idle'[p] = idle[p]
    BY <1>3, <1>5, RearmKeeps DEF IInv
  <2>2. TypeOK'
    BY <1>2, <2>1 DEF IInv, TypeOK, Queue
  <2>3. HeldOnlyWhileServed'
    BY <1>2, <2>1 DEF IInv, HeldOnlyWhileServed
  <2> QED BY <1>2, <2>2, <2>3 DEF IInv, RearmsUart3
<1> QED BY <1>1, <1>4, <1>5

-----------------------------------------------------------------------------
(* modbusRTU_msg_task.                                                     *)

\* Whoever is done with a port, by whatever message, makes it listen again or goes to
\* sleep before it does.
LEMMA BackToKeeps ==
  ASSUME IInv, NEW u \in Ports, NEW q \in Queue, BackTo(u, q),
         task = "pend" \/ (task = "wait" /\ serving = u),
         tty' \in {"IDLE", "CONSOLE", "MODBUS"},
         UNCHANGED <<seen, sending, tx_en, shell, asked>>
  PROVE  IInv'
<1>0. scanning' \in {"no", "counted", "cleared"}
  BY DEF BackTo, IInv, TypeOK
<1>1. CASE u = 1
  <2>1. Rearm(1, q) /\ task' = "pend" /\ serving' = serving
    BY <1>1 DEF BackTo
  <2>2. /\ buf' \in [Ports -> Content]
        /\ on' \in [Ports -> BOOLEAN] /\ idle' \in [Ports -> BOOLEAN]
        /\ cmd_msg' \in BOOLEAN /\ modbus_msg' \in Queue
        /\ on'[1] /\ ~idle'[1]
        /\ \A p \in Ports \ {1} : on'[p] = on[p] /\ idle'[p] = idle[p]
    BY <1>1, <2>1, RearmKeeps DEF IInv
  <2>3. TypeOK'
    BY <1>0, <2>1, <2>2 DEF IInv, TypeOK, Queue
  <2>4. HeldOnlyWhileServed'
    BY <1>1, <2>1, <2>2 DEF IInv, HeldOnlyWhileServed
  <2> QED BY <2>1, <2>3, <2>4 DEF IInv, RearmsUart3
<1>2. CASE u # 1
  <2>1. /\ modbus_msg' = q /\ task' = "rearm" /\ serving' = 3 /\ u = 3
        /\ UNCHANGED <<buf, on, idle, cmd_msg>>
    BY <1>2 DEF BackTo, ports, Ports
  <2>2. TypeOK'
    BY <1>0, <2>1 DEF IInv, TypeOK, Queue, Ports
  <2>3. HeldOnlyWhileServed'
    BY <2>1 DEF IInv, HeldOnlyWhileServed
  <2> QED BY <2>1, <2>2, <2>3 DEF IInv, RearmsUart3
<1> QED BY <1>1, <1>2

\* A request is answered with its own port stopped and the other one listening.
LEMMA ServeKeeps == ASSUME IInv, NEW u \in Ports, Serve(u) PROVE IInv'
<1>1. modbus_msg' \in Queue
  BY TailInQueue DEF Serve, IInv, TypeOK, Queue
<1>2. /\ on' = [on EXCEPT ![u] = FALSE] /\ task' = "wait" /\ serving' = u
      /\ UNCHANGED <<buf, idle, cmd_msg, scanning, seen, tty, shell, asked>>
  BY DEF Serve, cmd
<1>3. /\ sending' \in [Ports -> {"none", "reply", "stream"}] /\ sending'[3] # "stream"
      /\ tx_en' \in BOOLEAN
  <2>1. Reply(u)
    BY DEF Serve
  <2>2. tx_en' \in BOOLEAN
    BY <2>1, Zenon DEF Reply, IInv, TypeOK
  <2>3. sending' = sending
          \/ sending' = [sending EXCEPT ![u] = IF sending[u] = "none" THEN "reply"
                                               ELSE sending[u]]
    BY <2>1 DEF Reply
  <2>4. sending[u] \in {"none", "reply", "stream"} /\ sending[3] # "stream" /\ 3 \in Ports
    BY DEF IInv, TypeOK, Ports
  <2> QED BY <2>2, <2>3, <2>4 DEF IInv, TypeOK
<1>4. TypeOK'
  BY <1>1, <1>2, <1>3 DEF IInv, TypeOK, Queue
<1>5. HeldOnlyWhileServed'
  <2>1. ~tx_en /\ Reply(u)
    BY DEF Serve, IInv, HeldOnlyWhileServed
  <2>2. tx_en' => u = 3
    BY <2>1, Zenon DEF Reply
  <2> QED BY <1>2, <2>2 DEF Serve, IInv, TypeOK, HeldOnlyWhileServed
<1> QED BY <1>2, <1>4, <1>5 DEF IInv, RearmsUart3

\* The task's other steps.
LEMMA TaskKeeps == IInv /\ TaskStep => IInv'
<1> SUFFICES ASSUME IInv, TaskStep PROVE IInv'
  OBVIOUS
<1>1. ASSUME NEW u \in Ports, Serve(u) PROVE IInv'
  BY <1>1, ServeKeeps
<1>2. ASSUME NEW u \in Ports, Refuse(u) PROVE IInv'
  <2>1. Tail(modbus_msg) \in Queue
    BY <1>2, TailInQueue DEF Refuse, IInv, TypeOK, Queue
  <2>2. tty' \in {"IDLE", "CONSOLE", "MODBUS"}
    BY <1>2 DEF Refuse, IInv, TypeOK
  <2> QED BY <1>2, <2>1, <2>2, BackToKeeps DEF Refuse
<1>3. CASE DropDone
  <2>1. modbus_msg' \in Queue
    BY <1>3, TailInQueue DEF DropDone, IInv, TypeOK, Queue
  <2> QED BY <1>3, <2>1 DEF DropDone, ports, cmd, IInv, TypeOK, Queue,
                           HeldOnlyWhileServed, RearmsUart3
<1>4. CASE WaitMessage
  <2>1. Tail(modbus_msg) \in Queue
    BY <1>4, TailInQueue DEF WaitMessage, IInv, TypeOK, Queue
  <2>2. tty' \in {"IDLE", "CONSOLE", "MODBUS"} /\ serving \in Ports
    BY <1>4 DEF WaitMessage, IInv, TypeOK
  <2> QED BY <1>4, <2>1, <2>2, BackToKeeps DEF WaitMessage
<1>5. CASE WaitTimeout
  <2>1. modbus_msg \in Queue /\ serving \in Ports /\ tty \in {"IDLE", "CONSOLE", "MODBUS"}
    BY DEF IInv, TypeOK, Queue
  <2> QED BY <1>5, <2>1, BackToKeeps DEF WaitTimeout
<1>6. CASE RearmUart3
  <2>1. modbus_msg \in Queue /\ 3 \in Ports
    BY DEF IInv, TypeOK, Queue, Ports
  <2>2. /\ buf' \in [Ports -> Content]
        /\ on' \in [Ports -> BOOLEAN] /\ idle' \in [Ports -> BOOLEAN]
        /\ cmd_msg' \in BOOLEAN /\ modbus_msg' \in Queue
        /\ on'[3] /\ ~idle'[3]
        /\ \A p \in Ports \ {3} : on'[p] = on[p] /\ idle'[p] = idle[p]
    BY <1>6, <2>1, RearmKeeps DEF IInv, RearmUart3
  <2>3. TypeOK'
    BY <1>6, <2>2 DEF RearmUart3, IInv, TypeOK, Queue
  <2>4. HeldOnlyWhileServed'
    BY <1>6, <2>2 DEF RearmUart3, IInv, HeldOnlyWhileServed, RearmsUart3
  <2> QED BY <1>6, <2>3, <2>4 DEF RearmUart3, IInv, RearmsUart3
<1> QED BY <1>1, <1>2, <1>3, <1>4, <1>5, <1>6 DEF TaskStep

-----------------------------------------------------------------------------
(* One master on uart3 and no other station.                               *)

\* What is typed on uart1 is text and returns, each after the echo of the last.
Alone ==
  /\ Masters \subseteq {3} /\ Bus = FALSE
  /\ Console \subseteq {"text", "line"} /\ TypeAhead = FALSE

\* uart1 only ever holds printable text, a line only until its command is done, so
\* cmd_task never takes it for a frame.
OnlyText ==
  /\ buf[1] \in {"empty", "text", "line"}
  /\ cmd_msg => buf[1] # "empty" /\ scanning = "no" /\ ~shell
  /\ scanning \in {"no", "counted"}
  /\ scanning = "counted" => seen = buf[1] /\ buf[1] # "empty" /\ ~shell
  /\ buf[1] = "line" => ~ConsoleIdle
  /\ task \in {"wait", "rearm"} => serving = 3
  /\ tty # "MODBUS"

\* The queue holds one message at most: the request of a master that waits for its
\* answer, or the completion the task waits for.
OneAtATime ==
  /\ modbus_msg \in {<<>>, <<"req3">>, <<"done">>}
  /\ modbus_msg = <<"req3">> => 3 \in asked /\ ~idle[3]
  /\ modbus_msg = <<"done">> => task = "wait"
  /\ idle[3] => 3 \in asked
  /\ task = "wait" => ~on[3]
  /\ sending[3] = "reply" =>
       /\ task = "wait" /\ modbus_msg = <<>>
       /\ tx_en /\ 3 \in asked /\ ~idle[3]

AloneInv == IInv /\ OnlyText /\ OneAtATime

\* A queue that is empty takes a message.
LEMMA PostEmpty == ASSUME NEW m PROVE Post(<<>>, m) = <<m>>
BY LinkAssumption DEF Post

\* A single master and the console.
LEMMA AloneArrivals ==
  ASSUME Alone, AloneInv, NEW u \in Ports, NEW frame \in Content, Arrive(u, frame),
         \/ u = 3 /\ 3 \notin asked /\ 3 \in asked'
         \/ u = 1 /\ frame \in {"text", "line"} /\ ConsoleIdle /\ asked' = asked
  PROVE  OnlyText' /\ OneAtATime'
<1>0. UNCHANGED <<on, scanning, seen, task, serving, tty, sending, tx_en>> /\ 1 \in Ports /\ 3 \in Ports
  BY DEF Arrive, Ports
<1>1. CASE u = 3
  <2>1. modbus_msg # <<"req3">> /\ ~idle[3] /\ sending[3] # "reply" /\ 3 \in asked'
    BY <1>1 DEF AloneInv, OneAtATime
  <2>2. buf'[1] = buf[1] /\ shell' = shell /\ cmd_msg' = cmd_msg
    BY <1>0, <1>1 DEF Arrive, AloneInv, IInv, TypeOK
  <2>3. OnlyText'
    BY <1>0, <2>2 DEF AloneInv, OnlyText, ConsoleIdle
  <2>4. CASE on[3]
    <3>1. modbus_msg' = Post(modbus_msg, "req3") /\ idle' = idle
      BY <1>1, <2>4 DEF Arrive
    <3>2. CASE modbus_msg = <<>>
      <4>1. modbus_msg' = <<"req3">>
        BY <3>1, <3>2, PostEmpty
      <4>2. <<"req3">> # <<>> /\ <<"req3">> # <<"done">>
        OBVIOUS
      <4>3. task' # "wait"
        BY <1>0, <2>4 DEF AloneInv, OneAtATime
      <4> QED BY <1>0, <2>1, <2>3, <3>1, <4>1, <4>2, <4>3 DEF OneAtATime
    <3>3. CASE modbus_msg = <<"done">>
      BY <2>4, <3>3 DEF AloneInv, OneAtATime
    <3> QED BY <2>1, <3>2, <3>3 DEF AloneInv, OneAtATime
  <2>5. CASE ~on[3]
    <3>1. modbus_msg' = modbus_msg
      BY <1>1, <2>5 DEF Arrive
    <3> QED BY <1>0, <2>1, <2>3, <3>1 DEF AloneInv, OneAtATime
  <2> QED BY <2>3, <2>4, <2>5
<1>2. CASE u = 1
  <2>1. frame \in {"text", "line"} /\ asked' = asked /\ modbus_msg' = modbus_msg
        /\ ConsoleIdle /\ shell' = shell
    BY <1>2 DEF Arrive
  <2>2. idle'[3] = idle[3]
    BY <1>0, <1>2 DEF Arrive, AloneInv, IInv, TypeOK
  <2>3. OneAtATime'
    BY <1>0, <2>1, <2>2 DEF AloneInv, OneAtATime
  <2>4. on[1]
    BY <1>0 DEF AloneInv, IInv, HeldOnlyWhileServed, OnlyText
  <2>5. buf'[1] \in {"text", "line"} /\ cmd_msg' = TRUE
    <3>1. buf[1] \in {"empty", "text"}
      BY <2>1 DEF AloneInv, OnlyText
    <3>2. Joined(buf[1], frame) = frame
      BY <2>1, <3>1 DEF Joined, Addressed
    <3>3. cmd_msg' = (cmd_msg \/ TRUE)
      BY <1>2, <2>4 DEF Arrive
    <3> QED BY <1>0, <1>2, <2>1, <2>4, <3>2, <3>3 DEF Arrive, AloneInv, IInv, TypeOK
  <2>6. OnlyText'
    BY <1>0, <2>1, <2>5 DEF AloneInv, OnlyText, ConsoleIdle
  <2> QED BY <2>3, <2>6
<1> QED BY <1>1, <1>2 DEF Ports

\* A completion is the end of the reply the task waits for.
LEMMA AloneSent ==
  ASSUME AloneInv, Uart1Sent \/ Uart3Sent
  PROVE  OnlyText' /\ OneAtATime'
<1>0. UNCHANGED <<buf, on, idle, cmd_msg, scanning, seen, task, serving, tty, tx_en, shell>>
      /\ 1 \in Ports /\ 3 \in Ports
  BY DEF Uart1Sent, Uart3Sent, ports, cmd, Ports
<1>1. OnlyText'
  BY <1>0 DEF AloneInv, OnlyText, ConsoleIdle
<1>2. CASE Uart3Sent
  <2>1. sending[3] = "reply" /\ sending'[3] = "none"
    BY <1>0, <1>2 DEF Uart3Sent, AloneInv, IInv, TypeOK
  <2>2. task = "wait" /\ modbus_msg = <<>> /\ ~idle[3]
    BY <2>1 DEF AloneInv, OneAtATime
  <2>3. modbus_msg' = <<"done">>
    BY <1>2, <2>2, PostEmpty DEF Uart3Sent
  <2>4. <<"done">> # <<"req3">> /\ <<"done">> # <<>>
    OBVIOUS
  <2>5. ~on[3]
    BY <2>2 DEF AloneInv, OneAtATime
  <2>6. OneAtATime'
    BY <1>0, <2>1, <2>2, <2>3, <2>4, <2>5 DEF OneAtATime
  <2> QED BY <1>1, <2>6
<1>3. CASE Uart1Sent
  <2>1. modbus_msg' = modbus_msg
    BY <1>3 DEF Uart1Sent, AloneInv, OnlyText
  <2>2. (3 \in asked' <=> 3 \in asked) /\ sending'[3] = sending[3]
    BY <1>0, <1>3 DEF Uart1Sent, AloneInv, IInv, TypeOK
  <2> QED BY <1>0, <1>1, <2>1, <2>2 DEF AloneInv, OneAtATime
<1> QED BY <1>2, <1>3

\* cmd_task finds text, which changes nothing on uart3.
LEMMA AloneConsole ==
  ASSUME AloneInv, CmdTake \/ CmdModbus \/ CmdText \/ ShellDone \/ StreamStart
  PROVE  OnlyText' /\ OneAtATime'
<1>0. 1 \in Ports /\ 3 \in Ports /\ ~CmdModbus /\ ~idle[1]
  BY DEF Ports, CmdModbus, AloneInv, OnlyText, Text, IInv, HeldOnlyWhileServed
<1>1. CASE CmdTake
  <2>1. /\ UNCHANGED <<buf, on, idle, modbus_msg, task, serving, sending, tx_en, shell, asked>>
        /\ seen' = buf[1] /\ tty' # "MODBUS" /\ cmd_msg /\ ~cmd_msg'
        /\ scanning' = "counted"
    BY <1>1 DEF CmdTake, ports, AloneInv, OnlyText
  <2>2. OneAtATime'
    BY <2>1 DEF AloneInv, OneAtATime
  <2> QED BY <2>1, <2>2 DEF AloneInv, OnlyText, ConsoleIdle
<1>2. CASE CmdText \/ ShellDone
  <2>1. /\ UNCHANGED <<seen, task, serving, sending, tx_en, asked>>
        /\ tty' # "MODBUS" /\ scanning' = "no" /\ ~cmd_msg
        /\ \/ CmdText /\ buf[1] # "line" /\ ~shell /\ UNCHANGED <<ports, cmd_msg, modbus_msg, shell>>
           \/ CmdText /\ shell' = TRUE /\ UNCHANGED <<ports, cmd_msg, modbus_msg>>
           \/ Rearm(1, modbus_msg)
    BY <1>2 DEF CmdText, ShellDone, Looks, AloneInv, OnlyText
  <2>2. CASE Rearm(1, modbus_msg)
    <3>1. /\ modbus_msg' = modbus_msg /\ ~cmd_msg' /\ buf'[1] = "empty"
          /\ on'[3] = on[3] /\ idle'[3] = idle[3]
      BY <1>0, <2>1, <2>2 DEF Rearm, AloneInv, IInv, TypeOK
    <3>2. OneAtATime'
      BY <2>1, <3>1 DEF AloneInv, OneAtATime
    <3> QED BY <2>1, <3>1, <3>2 DEF AloneInv, OnlyText
  <2>3. CASE UNCHANGED <<ports, cmd_msg, modbus_msg>>
    <3>1. UNCHANGED <<buf, on, idle>> /\ (buf[1] = "line" => shell')
      BY <1>2, <2>3 DEF ports, CmdText, ShellDone, Looks, Rearm, AloneInv, OnlyText, IInv, TypeOK, Ports
    <3>2. OneAtATime'
      BY <2>1, <2>3, <3>1 DEF AloneInv, OneAtATime
    <3> QED BY <2>1, <2>3, <3>1, <3>2 DEF AloneInv, OnlyText, ConsoleIdle
  <2> QED BY <2>1, <2>2, <2>3
<1>3. CASE StreamStart
  <2>1. /\ UNCHANGED <<buf, on, idle, cmd_msg, modbus_msg, scanning, seen, task, serving, tty,
                       tx_en, shell, asked>>
        /\ sending'[3] = sending[3]
    BY <1>0, <1>3 DEF StreamStart, ports, cmd, AloneInv, IInv, TypeOK
  <2> QED BY <2>1 DEF AloneInv, OnlyText, OneAtATime, ConsoleIdle
<1> QED BY <1>0, <1>1, <1>2, <1>3

\* The Modbus task waits with an empty queue, which only the completion fills.
LEMMA AloneTask ==
  ASSUME AloneInv, TaskStep
  PROVE  OnlyText' /\ OneAtATime'
<1>0. 1 \in Ports /\ 3 \in Ports /\ modbus_msg \in {<<>>, <<"req3">>, <<"done">>}
  BY DEF Ports, AloneInv, OneAtATime
<1>1. \A m : Head(<<m>>) = m /\ Tail(<<m>>) = <<>> /\ <<m>> # <<>>
  OBVIOUS
<1>2. modbus_msg # <<>> => Tail(modbus_msg) = <<>>
  BY <1>0, <1>1
<1>3. Head(modbus_msg) # "req1" \/ modbus_msg = <<>>
  BY <1>0, <1>1
<1>4. ASSUME NEW u \in Ports, Serve(u) PROVE OnlyText' /\ OneAtATime'
  <2>1. u = 3 /\ modbus_msg = <<"req3">>
    BY <1>0, <1>1, <1>3, <1>4 DEF Serve, Ports
  <2>2. 3 \in asked /\ ~idle[3]
    BY <2>1 DEF AloneInv, OneAtATime
  <2>3. modbus_msg' = <<>> /\ task' = "wait" /\ serving' = 3 /\ ~on'[3]
        /\ UNCHANGED <<buf, idle, cmd_msg, scanning, seen, tty, shell, asked>>
    BY <1>0, <1>1, <1>4, <2>1 DEF Serve, cmd, AloneInv, IInv, TypeOK
  <2>4. sending'[3] = "reply" => tx_en'
    <3>1. sending[3] # "reply"
      BY <2>1, <1>1 DEF AloneInv, OneAtATime
    <3>2. Reply(3)
      BY <1>4, <2>1 DEF Serve
    <3>3. CASE buf[3] = "query"
      BY <3>2, <3>3 DEF Reply
    <3>4. CASE buf[3] # "query"
      BY <3>1, <3>2, <3>4 DEF Reply
    <3> QED BY <3>3, <3>4
  <2>5. OneAtATime'
    BY <1>1, <2>2, <2>3, <2>4 DEF OneAtATime
  <2>6. OnlyText'
    BY <2>3 DEF AloneInv, OnlyText, ConsoleIdle
  <2> QED BY <2>5, <2>6
<1>5. CASE RearmUart3
  <2>1. /\ task = "rearm" /\ task' = "pend" /\ Rearm(3, modbus_msg)
        /\ UNCHANGED <<scanning, seen, serving, tty, sending, shell, asked>>
    BY <1>5 DEF RearmUart3
  <2>2. buf'[1] = buf[1] /\ ~idle'[3] /\ cmd_msg' = cmd_msg
    BY <1>0, <2>1 DEF Rearm, AloneInv, IInv, TypeOK
  <2>3. sending[3] # "reply" /\ modbus_msg # <<"done">>
    BY <2>1 DEF AloneInv, OneAtATime
  <2>4. modbus_msg' \in {<<>>, <<"req3">>} /\ (modbus_msg' = <<"req3">> => 3 \in asked)
    <3>1. CASE idle[3]
      <4>1. modbus_msg = <<>> /\ 3 \in asked
        BY <1>0, <2>3, <3>1 DEF AloneInv, OneAtATime
      <4>2. modbus_msg' = <<"req3">>
        BY <2>1, <3>1, <4>1, PostEmpty DEF Rearm
      <4> QED BY <4>1, <4>2
    <3>2. CASE ~idle[3]
      <4>1. modbus_msg' = modbus_msg
        BY <2>1, <3>2 DEF Rearm
      <4> QED BY <1>0, <2>3, <4>1 DEF AloneInv, OneAtATime
    <3> QED BY <3>1, <3>2
  <2>5. OneAtATime'
    <3>1. modbus_msg' # <<"done">>
      BY <2>4
    <3> QED BY <2>1, <2>2, <2>3, <2>4, <3>1 DEF OneAtATime
  <2> QED BY <2>1, <2>2, <2>5 DEF AloneInv, OnlyText, ConsoleIdle
<1>6. ASSUME \/ \E u \in Ports : Refuse(u)
             \/ WaitMessage \/ WaitTimeout
      PROVE  OnlyText' /\ OneAtATime'
  <2>1. /\ BackTo(3, <<>>)
        /\ UNCHANGED <<seen, sending, tx_en, shell, asked>>
        /\ tty' # "MODBUS" /\ sending[3] # "reply"
        /\ modbus_msg = <<"req3">> \/ task = "wait"
    <3>1. CASE \E u \in Ports : Refuse(u)
      <4>1. PICK u \in Ports : Refuse(u)
        BY <3>1
      <4>2. u = 3 /\ modbus_msg = <<"req3">>
        BY <1>0, <1>1, <1>3, <4>1 DEF Refuse, Ports
      <4> QED BY <1>2, <4>1, <4>2 DEF Refuse, AloneInv, OnlyText, OneAtATime
    <3>2. CASE WaitMessage
      <4>1. serving = 3 /\ sending[3] # "reply" /\ tty' # "MODBUS"
        BY <3>2 DEF WaitMessage, AloneInv, OnlyText, OneAtATime
      <4> QED BY <1>2, <3>2, <4>1 DEF WaitMessage
    <3>3. CASE WaitTimeout
      BY <3>3 DEF WaitTimeout, AloneInv, OnlyText
    <3> QED BY <1>6, <3>1, <3>2, <3>3
  <2>2. /\ modbus_msg' = <<>> /\ task' = "rearm" /\ serving' = 3
        /\ UNCHANGED <<buf, on, idle, cmd_msg, scanning>>
    BY <2>1 DEF BackTo, ports
  <2>3. OneAtATime'
    BY <1>1, <2>1, <2>2 DEF AloneInv, OneAtATime
  <2> QED BY <2>1, <2>2, <2>3 DEF AloneInv, OnlyText, ConsoleIdle
<1>7. CASE DropDone
  <2>1. modbus_msg = <<"done">> /\ task = "pend"
    BY <1>0, <1>1, <1>7 DEF DropDone
  <2> QED BY <2>1 DEF AloneInv, OneAtATime
<1> QED BY <1>4, <1>5, <1>6, <1>7 DEF TaskStep

-----------------------------------------------------------------------------
(* The theorems.                                                           *)

\* At start-up both ports listen and the queue is empty.
LEMMA InitInv == Init => IInv
<1> SUFFICES ASSUME Init PROVE IInv
  OBVIOUS
<1>1. modbus_msg \in Seq(Message) /\ Len(modbus_msg) <= QueueLen
  BY LinkAssumption DEF Init
<1>2. /\ buf \in [Ports -> Content] /\ on \in [Ports -> BOOLEAN] /\ idle \in [Ports -> BOOLEAN]
      /\ sending \in [Ports -> {"none", "reply", "stream"}] /\ sending[3] # "stream"
  BY DEF Init, Ports, Content
<1>3. TypeOK
  BY <1>1, <1>2 DEF Init, TypeOK, Ports, Content
<1> QED BY <1>3 DEF Init, IInv, HeldOnlyWhileServed, RearmsUart3

\* Every step keeps the inductive invariant.
LEMMA NextInv == IInv /\ [Next]_vars => IInv'
<1> SUFFICES ASSUME IInv, [Next]_vars PROVE IInv'
  OBVIOUS
<1> USE LinkAssumption
<1>1. ASSUME NEW u \in Ports, NEW frame \in Frames, Ask(u, frame) PROVE IInv'
  BY <1>1, ArriveKeeps DEF Ask, IInv, TypeOK, Content
<1>2. ASSUME NEW keys \in Console, Type(keys) PROVE IInv'
  <2>1. keys \in Content
    BY DEF Typed, Content, Text
  <2> QED BY <1>2, <2>1, ArriveKeeps DEF Type, IInv, TypeOK, Ports
<1>3. CASE Overhear
  BY <1>3, ArriveKeeps DEF Overhear, IInv, TypeOK, Content, Ports
<1>4. CASE GiveUp
  BY <1>4 DEF GiveUp, ports, cmd, IInv, TypeOK, HeldOnlyWhileServed, RearmsUart3
<1>5. CASE Uart1Sent \/ Uart3Sent
  BY <1>5, SentKeeps
<1>6. CASE CmdTake \/ CmdModbus \/ StreamStart
  BY <1>6, TakeKeeps
<1>7. CASE CmdText \/ ShellDone
  BY <1>7, ConsoleKeeps
<1>8. CASE TaskStep
  BY <1>8, TaskKeeps
<1>9. CASE UNCHANGED vars
  BY <1>9 DEF vars, IInv, TypeOK, HeldOnlyWhileServed, RearmsUart3
<1> QED BY <1>1, <1>2, <1>3, <1>4, <1>5, <1>6, <1>7, <1>8, <1>9 DEF Next

\* The inductive invariant of the serial links.
THEOREM LinkInvariant == Spec => []IInv
<1>1. Init => IInv
  BY InitInv
<1>2. IInv /\ [Next]_vars => IInv'
  BY NextInv
<1> QED BY <1>1, <1>2, PTL DEF Spec

\* Type correctness: the queue of modbusRTU_msg_task never holds more than it can.
THEOREM LinkTypeCorrect == Spec => []TypeOK
<1>1. IInv => TypeOK
  BY DEF IInv
<1> QED BY <1>1, LinkInvariant, PTL

\* No path leaves a port stopped that is not being served, whatever messages are lost,
\* dropped or taken for another.
THEOREM NeverStoppedUnserved == Spec => []HeldOnlyWhileServed
<1>1. IInv => HeldOnlyWhileServed
  BY DEF IInv
<1> QED BY <1>1, LinkInvariant, PTL

\* A single master that gave up waits for nothing: the board is quiet.
LEMMA AloneGiveUp == ASSUME AloneInv, GiveUp PROVE OnlyText' /\ OneAtATime'
<1>1. /\ task = "pend" /\ modbus_msg = <<>> /\ sending[3] = "none"
      /\ UNCHANGED <<buf, on, idle, cmd_msg, scanning, seen, modbus_msg, task, serving, tty,
                     sending, tx_en, shell>>
  BY DEF GiveUp, BoardQuiet, ports, cmd, Ports
<1>2. ~idle[3]
  BY <1>1 DEF AloneInv, IInv, TypeOK, HeldOnlyWhileServed, Ports
<1>3. OnlyText'
  BY <1>1 DEF AloneInv, OnlyText, ConsoleIdle
<1>4. modbus_msg # <<"req3">> /\ modbus_msg # <<"done">>
  BY <1>1
<1>5. OneAtATime'
  BY <1>1, <1>2, <1>4 DEF OneAtATime
<1> QED BY <1>3, <1>5

\* Every step keeps what a single master relies on.
LEMMA AloneNext == ASSUME Alone PROVE AloneInv /\ [Next]_vars => AloneInv'
<1> SUFFICES ASSUME AloneInv, [Next]_vars PROVE OnlyText' /\ OneAtATime'
  BY NextInv DEF AloneInv
<1> USE LinkAssumption
<1>1. ASSUME NEW u \in Ports, NEW frame \in Frames, Ask(u, frame)
      PROVE  OnlyText' /\ OneAtATime'
  <2>1. u = 3 /\ 3 \notin asked /\ 3 \in asked' /\ frame \in Content
    BY <1>1 DEF Alone, Ask, Content
  <2> QED BY <1>1, <2>1, AloneArrivals DEF Ask
<1>2. ASSUME NEW keys \in Console, Type(keys) PROVE OnlyText' /\ OneAtATime'
  <2>1. keys \in {"text", "line"} /\ keys \in Content /\ 1 \in Ports /\ ConsoleIdle
    BY <1>2 DEF Alone, Type, Content, Text, Ports
  <2> QED BY <1>2, <2>1, AloneArrivals DEF Type
<1>3. CASE Overhear
  BY <1>3 DEF Alone, Overhear
<1>4. CASE GiveUp
  BY <1>4, AloneGiveUp
<1>5. CASE Uart1Sent \/ Uart3Sent
  BY <1>5, AloneSent
<1>6. CASE CmdTake \/ CmdModbus \/ CmdText \/ ShellDone \/ StreamStart
  BY <1>6, AloneConsole
<1>7. CASE TaskStep
  BY <1>7, AloneTask
<1>8. CASE UNCHANGED vars
  BY <1>8 DEF vars, AloneInv, OnlyText, OneAtATime, ConsoleIdle
<1> QED BY <1>1, <1>2, <1>3, <1>4, <1>5, <1>6, <1>7, <1>8 DEF Next

\* At start-up there is nothing on either port.
LEMMA AloneInit == Init => AloneInv
<1> SUFFICES ASSUME Init PROVE OnlyText /\ OneAtATime
  BY InitInv DEF AloneInv
<1>1. modbus_msg # <<"req3">> /\ modbus_msg # <<"done">>
  BY DEF Init
<1> QED BY <1>1 DEF Init, OnlyText, OneAtATime, Ports

\* With one master on a bus it does not share, the transceiver of uart3 drives it until
\* the last byte of every reply, whatever lines are typed on uart1 meanwhile: the property
\* that the run link_cut refutes with one key that is not printable.
THEOREM SingleMasterReplies == ASSUME Alone PROVE Spec => []ReplyWhole
<1>1. Init => AloneInv
  BY AloneInit
<1>2. AloneInv /\ [Next]_vars => AloneInv'
  BY AloneNext
<1>3. AloneInv => ReplyWhole
  BY DEF AloneInv, OneAtATime, ReplyWhole
<1> QED BY <1>1, <1>2, <1>3, PTL DEF Spec

-----------------------------------------------------------------------------
(* What the master of uart3 sees.                                          *)

\* Where its exchange with the board is.
Phase ==
  IF sending[3] = "reply" THEN "replying" ELSE IF 3 \in asked THEN "asked" ELSE "free"

\* The variables of the instance in these terms.
LEMMA ExchangeVars == Exchange!vars = <<Phase, tx_en>>
BY DEF Exchange!vars, Phase

\* A step behind the master's back.
LEMMA Unseen ==
  ASSUME sending'[3] = sending[3], 3 \in asked' <=> 3 \in asked, tx_en' = tx_en
  PROVE  [Exchange!Next]_(Exchange!vars)
<1>1. Phase' = Phase
  BY DEF Phase
<1>2. Exchange!vars' = <<Phase', tx_en'>>
  BY DEF Exchange!vars, Phase
<1> QED BY <1>1, <1>2, ExchangeVars

\* The steps it sees.
LEMMA Seen ==
  ASSUME \/ Phase = "free" /\ Phase' = "asked" /\ tx_en' = tx_en
         \/ Phase = "asked" /\ Phase' = "replying" /\ ~tx_en /\ tx_en' = TRUE
         \/ Phase = "replying" /\ Phase' = "free" /\ tx_en' = tx_en
         \/ Phase = "asked" /\ Phase' = "free" /\ ~tx_en /\ tx_en' = tx_en
         \/ Phase # "replying" /\ Phase' = Phase /\ tx_en /\ tx_en' = FALSE
  PROVE  Exchange!Next
BY DEF Exchange!Next, Exchange!Ask, Exchange!Answer, Exchange!Complete, Exchange!Release,
       Exchange!GiveUp, Phase

\* What the Modbus task shows of itself: the answer to a query, and the return of the bus.
LEMMA TaskSeen == ASSUME AloneInv, TaskStep PROVE [Exchange!Next]_(Exchange!vars)
<1>0. 3 \in Ports /\ tx_en \in BOOLEAN
  BY DEF Ports, AloneInv, IInv, TypeOK
<1>1. ASSUME NEW u \in Ports, Serve(u) PROVE [Exchange!Next]_(Exchange!vars)
  <2>1. u = 3 /\ modbus_msg = <<"req3">> /\ task = "pend"
    <3>1. \A m : Head(<<m>>) = m
      OBVIOUS
    <3> QED BY <1>1, <3>1 DEF Serve, Ports, AloneInv, OneAtATime
  <2>2. 3 \in asked /\ sending[3] = "none" /\ ~tx_en
    BY <1>0, <2>1 DEF AloneInv, OneAtATime, IInv, TypeOK, HeldOnlyWhileServed
  <2>3. Reply(3) /\ asked' = asked
    BY <1>1, <2>1 DEF Serve
  <2>4. CASE buf[3] = "query"
    <3>1. sending'[3] = "reply" /\ tx_en' = TRUE
      BY <1>0, <2>2, <2>3, <2>4 DEF Reply, AloneInv, IInv, TypeOK
    <3>2. Phase = "asked" /\ Phase' = "replying"
      BY <2>2, <3>1 DEF Phase
    <3> QED BY <2>2, <3>1, <3>2, Seen
  <2>5. CASE buf[3] # "query"
    BY <2>3, <2>5, Unseen DEF Reply
  <2> QED BY <2>4, <2>5
<1>2. ASSUME (\E u \in Ports : Refuse(u)) \/ DropDone \/ WaitMessage \/ WaitTimeout
      PROVE  [Exchange!Next]_(Exchange!vars)
  BY <1>2, Unseen DEF Refuse, DropDone, WaitMessage, WaitTimeout
<1>3. CASE RearmUart3
  <2>1. UNCHANGED <<sending, asked>> /\ tx_en' = FALSE /\ sending[3] # "reply"
    BY <1>3 DEF RearmUart3, AloneInv, OneAtATime
  <2>2. Phase' = Phase /\ Phase # "replying"
    BY <2>1 DEF Phase
  <2> QED BY <1>0, <2>1, <2>2, Seen, Unseen
<1> QED BY <1>1, <1>2, <1>3 DEF TaskStep

\* With one master on a bus it does not share, and only lines typed on uart1, the board
\* implements RequestReply: it speaks only when it is asked, once for a request, and holds
\* the bus from the first byte of its answer to the last and not for a second one.
THEOREM SingleMasterServed == ASSUME Alone PROVE Spec => AnswersRequests
<1>1. Init => Exchange!Init
  BY DEF Init, Exchange!Init, Ports
<1>2. AloneInv /\ [Next]_vars => [Exchange!Next]_(Exchange!vars)
  <2> SUFFICES ASSUME AloneInv, [Next]_vars PROVE [Exchange!Next]_(Exchange!vars)
    OBVIOUS
  <2>1. ASSUME NEW u \in Ports, NEW frame \in Frames, Ask(u, frame)
        PROVE  [Exchange!Next]_(Exchange!vars)
    <3>1. /\ 3 \notin asked /\ 3 \in asked'
          /\ UNCHANGED <<sending, tx_en>>
      BY <2>1 DEF Alone, Ask, Arrive
    <3>2. sending[3] # "reply"
      BY <3>1 DEF AloneInv, OneAtATime
    <3>3. Phase = "free" /\ Phase' = "asked"
      BY <3>1, <3>2 DEF Phase
    <3> QED BY <3>1, <3>3, Seen
  <2>2. CASE (\E keys \in Console : Type(keys)) \/ Overhear
    BY <2>2, Unseen DEF Type, Overhear, Arrive
  <2>3. CASE GiveUp
    <3>1. /\ asked' = {} /\ sending[3] = "none" /\ ~tx_en
          /\ UNCHANGED <<sending, tx_en>>
      BY <2>3 DEF GiveUp, BoardQuiet, Ports, AloneInv, IInv, HeldOnlyWhileServed
    <3>2. Phase' = "free" /\ Phase \in {"free", "asked"}
      BY <3>1 DEF Phase
    <3>3. CASE Phase = "asked"
      BY <3>1, <3>2, <3>3, Seen
    <3>4. CASE Phase = "free"
      BY <3>1, <3>4, Unseen DEF Phase
    <3> QED BY <3>2, <3>3, <3>4
  <2>4. CASE Uart3Sent
    <3>1. sending[3] = "reply" /\ sending'[3] = "none" /\ 3 \notin asked' /\ tx_en' = tx_en
      BY <2>4 DEF Uart3Sent, AloneInv, IInv, TypeOK, Ports
    <3>2. Phase = "replying" /\ Phase' = "free"
      BY <3>1 DEF Phase
    <3> QED BY <3>1, <3>2, Seen
  <2>5. CASE Uart1Sent \/ StreamStart
    <3>1. sending'[3] = sending[3] /\ tx_en' = tx_en /\ (3 \in asked' <=> 3 \in asked)
      BY <2>5 DEF Uart1Sent, StreamStart, AloneInv, IInv, TypeOK, Ports
    <3> QED BY <3>1, Unseen
  <2>6. CASE CmdTake \/ CmdModbus \/ CmdText \/ ShellDone
    BY <2>6, Unseen DEF CmdTake, CmdModbus, CmdText, ShellDone
  <2>7. CASE TaskStep
    BY <2>7, TaskSeen
  <2>8. CASE UNCHANGED vars
    BY <2>8, Unseen DEF vars
  <2> QED BY <2>1, <2>2, <2>3, <2>4, <2>5, <2>6, <2>7, <2>8 DEF Next
<1>3. Init => AloneInv
  BY AloneInit
<1>4. AloneInv /\ [Next]_vars => AloneInv'
  BY AloneNext
<1> QED BY <1>1, <1>2, <1>3, <1>4, PTL DEF Spec, AnswersRequests, Exchange!Spec

-----------------------------------------------------------------------------
(* The master asks again.                                                  *)

\* What is in the buffer of a listening port is on its way to the task, or the task has
\* refused it and is about to clear the buffer.
Announced == on[3] /\ buf[3] # "empty" => modbus_msg = <<"req3">> \/ task = "rearm"

\* Whenever a master may give up, its port listens to an empty buffer and the bus is free,
\* so that what it sends next is served as it is.
QuietIsReady == BoardQuiet => on[3] /\ ~idle[3] /\ buf[3] = "empty" /\ ~tx_en

\* Every step keeps it.
LEMMA AnnouncedNext ==
  ASSUME Alone, AloneInv, Announced, [Next]_vars
  PROVE  Announced'
<1>0. 1 \in Ports /\ 3 \in Ports
  BY DEF Ports
<1>1. ASSUME UNCHANGED <<on, modbus_msg, task>>, buf'[3] = buf[3] PROVE Announced'
  BY <1>1 DEF Announced
<1>2. ASSUME NEW u \in Ports, NEW frame \in Frames, Ask(u, frame) PROVE Announced'
  <2>1. u = 3 /\ 3 \notin asked /\ Arrive(3, frame)
    BY <1>2 DEF Alone, Ask
  <2>2. CASE on[3]
    <3>1. modbus_msg = <<>>
      BY <2>1, <2>2 DEF AloneInv, OneAtATime
    <3>2. modbus_msg' = <<"req3">>
      BY <2>1, <2>2, <3>1, PostEmpty DEF Arrive
    <3> QED BY <3>2 DEF Announced
  <2>3. CASE ~on[3]
    BY <2>1, <2>3 DEF Arrive, Announced
  <2> QED BY <2>2, <2>3
<1>3. ASSUME NEW keys \in Console, Type(keys) PROVE Announced'
  <2>1. UNCHANGED <<on, modbus_msg, task>> /\ buf'[3] = buf[3]
    BY <1>0, <1>3 DEF Type, Arrive, AloneInv, IInv, TypeOK
  <2> QED BY <1>1, <2>1
<1>4. CASE Overhear
  BY <1>4 DEF Alone, Overhear
<1>5. CASE GiveUp
  BY <1>1, <1>5 DEF GiveUp, ports
<1>6. CASE Uart1Sent
  <2>1. UNCHANGED <<on, modbus_msg, task, buf>>
    BY <1>6 DEF Uart1Sent, ports, AloneInv, OnlyText
  <2> QED BY <1>1, <2>1
<1>7. CASE Uart3Sent
  <2>1. sending[3] = "reply"
    BY <1>0, <1>7 DEF Uart3Sent, AloneInv, IInv, TypeOK
  <2>2. ~on[3] /\ on' = on
    BY <1>7, <2>1 DEF Uart3Sent, ports, AloneInv, OneAtATime
  <2> QED BY <2>2 DEF Announced
<1>8. CASE CmdTake \/ CmdModbus \/ StreamStart
  <2>1. ~CmdModbus
    BY DEF CmdModbus, AloneInv, OnlyText, Text
  <2> QED BY <1>1, <1>8, <2>1 DEF CmdTake, StreamStart, ports
<1>9. CASE CmdText \/ ShellDone
  <2>1. /\ task' = task
        /\ UNCHANGED <<ports, cmd_msg, modbus_msg>> \/ Rearm(1, modbus_msg)
    BY <1>9 DEF CmdText, ShellDone
  <2>2. on'[3] = on[3] /\ buf'[3] = buf[3] /\ modbus_msg' = modbus_msg
    BY <1>0, <2>1 DEF Rearm, ports, AloneInv, IInv, TypeOK
  <2> QED BY <2>1, <2>2 DEF Announced
<1>10. CASE TaskStep
  <2>0. \A m : Head(<<m>>) = m
    OBVIOUS
  <2>1. ASSUME NEW u \in Ports, Serve(u) PROVE Announced'
    <3>1. u = 3
      BY <2>0, <2>1 DEF Serve, Ports, AloneInv, OneAtATime
    <3>2. ~on'[3]
      BY <1>0, <2>1, <3>1 DEF Serve, AloneInv, IInv, TypeOK
    <3> QED BY <3>2 DEF Announced
  <2>2. ASSUME NEW u \in Ports, Refuse(u) PROVE Announced'
    <3>1. u = 3
      BY <2>0, <2>2 DEF Refuse, Ports, AloneInv, OneAtATime
    <3> QED BY <2>2, <3>1 DEF Refuse, BackTo, Announced
  <2>3. CASE DropDone
    BY <2>0, <2>3 DEF DropDone, AloneInv, OneAtATime
  <2>4. CASE WaitMessage \/ WaitTimeout
    <3>1. serving = 3
      BY <2>4 DEF WaitMessage, WaitTimeout, AloneInv, OnlyText
    <3> QED BY <2>4, <3>1 DEF WaitMessage, WaitTimeout, BackTo, Announced
  <2>5. CASE RearmUart3
    <3>1. Rearm(3, modbus_msg) /\ task = "rearm"
      BY <2>5 DEF RearmUart3
    <3>2. CASE idle[3]
      <4>1. modbus_msg = <<>>
        BY <3>1, <3>2 DEF AloneInv, OneAtATime
      <4>2. modbus_msg' = <<"req3">>
        BY <3>1, <3>2, <4>1, PostEmpty DEF Rearm
      <4> QED BY <4>2 DEF Announced
    <3>3. CASE ~idle[3]
      <4>1. buf'[3] = "empty"
        BY <1>0, <3>1, <3>3 DEF Rearm, AloneInv, IInv, TypeOK
      <4> QED BY <4>1 DEF Announced
    <3> QED BY <3>2, <3>3
  <2> QED BY <1>10, <2>1, <2>2, <2>3, <2>4, <2>5 DEF TaskStep
<1>11. CASE UNCHANGED vars
  BY <1>1, <1>11 DEF vars
<1> QED BY <1>2, <1>3, <1>4, <1>5, <1>6, <1>7, <1>8, <1>9, <1>10, <1>11 DEF Next

\* A master alone that gives up finds its port listening, its buffer empty and the bus free,
\* whatever became of its request, if only lines are typed on uart1.
THEOREM GivenUpIsReady == ASSUME Alone PROVE Spec => []QuietIsReady
<1>1. Init => AloneInv /\ Announced
  BY AloneInit DEF Init, Announced, Ports
<1>2. AloneInv /\ Announced /\ [Next]_vars => AloneInv' /\ Announced'
  BY AloneNext, AnnouncedNext
<1>3. AloneInv /\ Announced => QuietIsReady
  <2> SUFFICES ASSUME AloneInv, Announced, BoardQuiet
               PROVE  on[3] /\ ~idle[3] /\ buf[3] = "empty" /\ ~tx_en
    BY DEF QuietIsReady
  <2>1. task = "pend" /\ modbus_msg = <<>> /\ modbus_msg # <<"req3">>
    BY DEF BoardQuiet
  <2>2. on[3] /\ ~idle[3] /\ ~tx_en
    BY <2>1 DEF AloneInv, IInv, HeldOnlyWhileServed, Ports, TypeOK
  <2> QED BY <2>1, <2>2 DEF Announced
<1> QED BY <1>1, <1>2, <1>3, PTL DEF Spec
=============================================================================
