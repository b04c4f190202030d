------------------------------ MODULE ModbusLink ------------------------------
(***************************************************************************)
(* The two serial ports of the board and the tasks that serve them: the    *)
(* receive and transmit interrupts of driver/usart.c, cmd_task, which      *)
(* tells a Modbus frame from console text on uart1, modbusRTU_msg_task,    *)
(* which answers the requests of both ports from one message queue, and    *)
(* the tasks that share uart1 with them (handle_task, debug_task).         *)
(*                                                                         *)
(* A receive DMA is never stopped by an arrival: bytes accumulate until    *)
(* the port is re-armed.  The idle-line interrupt of a stopped port stays  *)
(* pending and fires when the port is re-armed.  Each step of a task runs  *)
(* from one blocking call to the next and waits for the tasks of higher    *)
(* priority (Modbus 5, debug 6, cmd 7, handle 16); cmd_task takes two, for *)
(* the Modbus task and the transmit interrupt come between them.           *)
(*                                                                         *)
(* Abstracted: what a request asks for and answers (a frame is a query the *)
(* board knows, one with an unknown function, or anything else), the bytes *)
(* of what is typed (never the board's address first, nor 256 printable    *)
(* ones), what the console prints, the greeting of led1_task at start-up.  *)
(***************************************************************************)
EXTENDS Naturals, Sequences

CONSTANTS
  Masters,    \* the ports with a Modbus master: a subset of {1, 3}
  Bus,        \* whether frames of other stations are heard on uart3
  Console,    \* the kinds of bursts typed on uart1: a subset of Typed
  TypeAhead,  \* whether they come before the last one is echoed or its command done
  Streams,    \* whether debug_task streams captures over uart1
  Frames,     \* the kinds of frame a master sends
  QueueLen    \* MODBUSRTU_MSG_SIZE

Ports == {1, 3}
Addressed == {"query", "unknown"}

\* Printable text; a key that is not, alone or after text; a carriage return that
\* ends a line.  All but the last byte is printable.
Text == {"text", "control", "edited", "line"}

\* Anything else has a byte that is not printable before its last.
Content == {"empty", "other"} \cup Addressed \cup Text

\* What is typed or sent at once; "other" is what an arrow key sends, or a line that
\* ends in CR LF.
Typed == {"text", "control", "line", "other"}
Message == {"req1", "req3", "done"}

ASSUME LinkAssumption ==
  /\ Masters \subseteq Ports
  /\ {Bus, TypeAhead, Streams} \subseteq BOOLEAN
  /\ Console \subseteq Typed
  /\ Frames \subseteq Addressed
  /\ QueueLen \in Nat \ {0}

VARIABLES
  buf,        \* what each receive DMA has stored since its port was re-armed
  on,         \* whether its DMA and its idle interrupt are enabled
  idle,       \* an idle line was seen while the interrupt was disabled
  cmd_msg,    \* a 0x55 waits in the queue of cmd_task
  scanning,   \* cmd_task has counted the bytes and not yet looked at them; "cleared"
              \* when the buffer was re-armed since
  seen,       \* what cmd_task counted last: uart1_rec_count
  modbus_msg, \* the queue of modbusRTU_msg_task
  task,       \* where modbusRTU_msg_task is
  serving,    \* the port it serves
  tty,        \* my_env.tty
  sending,    \* what each transmit DMA is sending
  tx_en,      \* HMI_RS485_TX_EN, the direction of uart3's transceiver
  shell,      \* handle_task runs a command
  asked       \* the masters that wait for a reply

ports == <<buf, on, idle>>
cmd == <<cmd_msg, scanning, seen>>
vars == <<buf, on, idle, cmd_msg, scanning, seen, modbus_msg, task,
          serving, tty, sending, tx_en, shell, asked>>

Init ==
  /\ buf = [u \in Ports |-> "empty"]
  /\ on = [u \in Ports |-> TRUE]
  /\ idle = [u \in Ports |-> FALSE]
  /\ cmd_msg = FALSE /\ scanning = "no" /\ seen = "empty"
  /\ modbus_msg = <<>> /\ task = "pend" /\ serving = 1
  /\ tty = "IDLE"
  /\ sending = [u \in Ports |-> "none"] /\ tx_en = FALSE
  /\ shell = FALSE
  /\ asked = {}

-----------------------------------------------------------------------------
(* Helpers.                                                                *)

\* Plausible bug: the last free slot is not the last.
PostOneMore(q, m) == IF Len(q) <= QueueLen THEN Append(q, m) ELSE q

\* OSQPost: a full queue drops the message.
Post(q, m) == IF Len(q) < QueueLen THEN Append(q, m) ELSE q

\* What a buffer holds after another burst: its first byte stays the address, and what
\* was typed last does not stay the last byte.
Joined(old, new) ==
  CASE old = "empty" -> new
    [] old \in Addressed \cup {"other"} -> old
    [] old = "text" /\ new \in {"text", "line"} -> new
    [] old = "text" /\ new = "control" -> "edited"
    [] OTHER -> "other"

\* The last byte of a burst that met a stopped port is stored on re-arming, unless
\* the interrupt reads it first.
Leftover(u) == {"empty"} \cup IF u = 1 THEN {"text", "control", "line"} ELSE {"other"}

\* Plausible bug: the idle interrupt stays disabled.
RearmDeaf(u, q) ==
  /\ buf' = [buf EXCEPT ![u] = "empty"]
  /\ cmd_msg' = cmd_msg
  /\ modbus_msg' = q
  /\ UNCHANGED <<on, idle>>

\* start_uart1_receive, start_uart3_receive: q is the queue the caller leaves.
Rearm(u, q) ==
  /\ \E left \in IF idle[u] THEN Leftover(u) ELSE {"empty"} :
       buf' = [buf EXCEPT ![u] = left]
  /\ on' = [on EXCEPT ![u] = TRUE]
  /\ idle' = [idle EXCEPT ![u] = FALSE]
  /\ cmd_msg' = (cmd_msg \/ (u = 1 /\ idle[u]))
  /\ modbus_msg' = IF u = 3 /\ idle[u] THEN Post(q, "req3") ELSE q

-----------------------------------------------------------------------------
(* The interrupts.                                                         *)

\* A burst of bytes and the idle line after it: USART1_IRQHandler tells cmd_task,
\* USART3_IRQHandler the Modbus task.
Arrive(u, frame) ==
  /\ IF on[u]
     THEN /\ buf' = [buf EXCEPT ![u] = Joined(@, frame)]
          /\ cmd_msg' = (cmd_msg \/ u = 1)
          /\ modbus_msg' = IF u = 3 THEN Post(modbus_msg, "req3") ELSE modbus_msg
          /\ UNCHANGED idle
     ELSE /\ idle' = [idle EXCEPT ![u] = TRUE]
          /\ UNCHANGED <<buf, cmd_msg, modbus_msg>>
  /\ UNCHANGED <<on, scanning, seen, task, serving, tty, sending, tx_en,
                 shell>>

\* DMA1_Channel4_IRQHandler: a completion goes where the tty says.
Uart1Sent ==
  /\ sending[1] # "none"
  /\ sending' = [sending EXCEPT ![1] = "none"]
  /\ modbus_msg' = IF tty = "MODBUS" THEN Post(modbus_msg, "done") ELSE modbus_msg
  /\ asked' = IF sending[1] = "reply" THEN asked \ {1} ELSE asked
  /\ UNCHANGED <<ports, cmd, task, serving, tty, tx_en, shell>>

\* DMA1_Channel2_IRQHandler.
Uart3Sent ==
  /\ sending[3] # "none"
  /\ sending' = [sending EXCEPT ![3] = "none"]
  /\ modbus_msg' = Post(modbus_msg, "done")
  /\ asked' = asked \ {3}
  /\ UNCHANGED <<ports, cmd, task, serving, tty, tx_en, shell>>

-----------------------------------------------------------------------------
(* cmd_task, handle_task and debug_task.                                   *)

\* The Modbus task is blocked, so the others run.
ModbusBlocked == task = "rearm" \/ modbus_msg = <<>>

\* The message and the count are taken and the tty becomes the console.  A burst whose
\* last byte is a Ctrl-C only sets sys_break once it is one, also if it is a frame; of
\* an empty buffer the byte before it is looked at, which may be any.
CmdTake ==
  /\ ModbusBlocked
  /\ cmd_msg /\ scanning = "no"
  /\ cmd_msg' = FALSE
  /\ seen' = buf[1]
  /\ \/ tty' = "CONSOLE" /\ scanning' = "counted"
     \/ /\ tty = "CONSOLE" /\ buf[1] \notin {"text", "line"}
        /\ UNCHANGED <<tty, scanning>>
  /\ UNCHANGED <<ports, modbus_msg, task, serving, sending, tx_en, shell, asked>>

\* What the counted bytes may look like: in a buffer that was cleared since, what they
\* were or what came in their place, of which any beginning may be counted.
Looks ==
  IF scanning = "counted" THEN {seen}
  ELSE {seen} \cup IF buf[1] = "other" THEN Text ELSE {buf[1]}

\* One of the counted bytes before the last is not printable, or is a zero since the
\* buffer was cleared.  With a count of 0 the loop runs into the zeros of the buffer.
CmdModbus ==
  /\ ModbusBlocked
  /\ scanning # "no"
  /\ seen \notin Text \/ (scanning = "cleared" /\ seen # "control")
  /\ scanning' = "no"
  /\ tty' = "MODBUS"
  /\ modbus_msg' = Post(modbus_msg, "req1")
  /\ UNCHANGED <<ports, cmd_msg, seen, task, serving, sending, tx_en, shell, asked>>

\* Console text: a return starts a command, a tilde or a backspace alone re-arms the
\* port, anything else is echoed and stays in the buffer.
CmdText ==
  /\ ModbusBlocked
  /\ scanning # "no" /\ seen # "empty"
  /\ Looks \cap Text # {}
  /\ scanning' = "no"
  /\ \/ "line" \in Looks /\ shell' = TRUE /\ UNCHANGED <<ports, cmd_msg, modbus_msg>>
     \/ Looks \cap {"text", "control"} # {} /\ Rearm(1, modbus_msg) /\ UNCHANGED shell
     \/ /\ seen # "line" \/ scanning = "cleared"
        /\ UNCHANGED <<ports, cmd_msg, modbus_msg, shell>>
  /\ UNCHANGED <<seen, task, serving, tty, sending, tx_en, asked>>

\* The end of a command.
ShellDone ==
  /\ ModbusBlocked /\ ~cmd_msg /\ scanning = "no"
  /\ shell
  /\ shell' = FALSE
  /\ tty' = "IDLE"
  /\ Rearm(1, modbus_msg)
  /\ UNCHANGED <<scanning, seen, task, serving, sending, tx_en, asked>>

\* debug_task sends a capture; a transmit DMA that is busy ignores the start.
StreamStart ==
  /\ ModbusBlocked
  /\ Streams /\ sending[1] = "none"
  /\ sending' = [sending EXCEPT ![1] = "stream"]
  /\ UNCHANGED <<ports, cmd, modbus_msg, task, serving, tty, tx_en, shell, asked>>

-----------------------------------------------------------------------------
(* modbusRTU_msg_task.                                                     *)

\* The test of the length and the address.  The length of a uart1 request is the one
\* cmd_task counted, which a later burst may have overtaken.
MayServe(u) == buf[u] \in Addressed /\ (u = 1 => seen \notin {"empty", "control"})
MayRefuse(u) == buf[u] \notin Addressed \/ (u = 1 /\ seen \notin Addressed)

\* modbus_analyze answers a known function with one transmission; the exception for
\* an unknown one is built while modbus_ch is 0, so RS485_SendData starts nothing.
\* A transmit DMA that is busy ignores the start.
Reply(u) ==
  IF buf[u] = "query"
  THEN /\ sending' = [sending EXCEPT ![u] = IF @ = "none" THEN "reply" ELSE @]
       /\ tx_en' = (tx_en \/ u = 3)
  ELSE UNCHANGED <<sending, tx_en>>

\* The request is answered with the port stopped.
Serve(u) ==
  /\ task = "pend" /\ modbus_msg # <<>>
  /\ Head(modbus_msg) = (IF u = 1 THEN "req1" ELSE "req3")
  /\ MayServe(u)
  /\ modbus_msg' = Tail(modbus_msg)
  /\ on' = [on EXCEPT ![u] = FALSE]
  /\ Reply(u)
  /\ task' = "wait" /\ serving' = u
  /\ UNCHANGED <<buf, idle, cmd, tty, shell, asked>>

\* Plausible bug: after a lost completion uart1 is not re-armed.
BackToDeaf(u, q) ==
  IF u = 1
  THEN /\ modbus_msg' = q /\ task' = "pend"
       /\ UNCHANGED <<ports, cmd_msg, scanning, serving>>
  ELSE /\ modbus_msg' = q /\ task' = "rearm" /\ serving' = 3
       /\ UNCHANGED <<ports, cmd_msg, scanning>>

\* start_uart1_receive returns at once, and may have cleared what cmd_task is about to
\* look at; start_uart3_receive first sleeps a tick.
BackTo(u, q) ==
  IF u = 1
  THEN /\ Rearm(1, q) /\ task' = "pend"
       /\ scanning' = IF scanning = "no" THEN "no" ELSE "cleared"
       /\ UNCHANGED serving
  ELSE /\ modbus_msg' = q /\ task' = "rearm" /\ serving' = 3
       /\ UNCHANGED <<ports, cmd_msg, scanning>>

Refuse(u) ==
  /\ task = "pend" /\ modbus_msg # <<>>
  /\ Head(modbus_msg) = (IF u = 1 THEN "req1" ELSE "req3")
  /\ MayRefuse(u)
  /\ BackTo(u, Tail(modbus_msg))
  /\ UNCHANGED <<seen, tty, sending, tx_en, shell, asked>>

\* A completion nobody waits for is neither request.
DropDone ==
  /\ task = "pend" /\ modbus_msg # <<>> /\ Head(modbus_msg) = "done"
  /\ modbus_msg' = Tail(modbus_msg)
  /\ UNCHANGED <<ports, cmd, task, serving, tty, sending, tx_en, shell, asked>>

\* Any message ends the wait for the completion, also the next request, which is lost.
WaitMessage ==
  /\ task = "wait" /\ modbus_msg # <<>>
  /\ tty' = IF Head(modbus_msg) = "done" /\ serving = 1 /\ tty = "MODBUS"
            THEN "IDLE" ELSE tty
  /\ BackTo(serving, Tail(modbus_msg))
  /\ UNCHANGED <<seen, sending, tx_en, shell, asked>>

\* Plausible bug: a timeout shorter than a reply.
WaitTimeoutShort ==
  /\ task = "wait" /\ modbus_msg = <<>>
  /\ BackTo(serving, modbus_msg)
  /\ UNCHANGED <<seen, tty, sending, tx_en, shell, asked>>

\* The longest reply takes 22 ms of the 100 ms waited.
WaitTimeout ==
  /\ task = "wait" /\ modbus_msg = <<>> /\ sending[serving] # "reply"
  /\ BackTo(serving, modbus_msg)
  /\ UNCHANGED <<seen, tty, sending, tx_en, shell, asked>>

\* Plausible bug: the transceiver is not turned back.
RearmUart3Driving ==
  /\ task = "rearm"
  /\ Rearm(3, modbus_msg)
  /\ task' = "pend"
  /\ UNCHANGED <<scanning, seen, serving, tty, sending, tx_en, shell, asked>>

\* start_uart3_receive after its sleep.
RearmUart3 ==
  /\ task = "rearm"
  /\ Rearm(3, modbus_msg)
  /\ tx_en' = FALSE
  /\ task' = "pend"
  /\ UNCHANGED <<scanning, seen, serving, tty, sending, shell, asked>>

TaskStep ==
  \/ \E u \in Ports : Serve(u) \/ Refuse(u)
  \/ DropDone \/ WaitMessage \/ WaitTimeout \/ RearmUart3

-----------------------------------------------------------------------------
(* The masters and the lines.                                              *)

\* A master asks again only after the reply, or after a timeout longer than
\* anything the board does.
Ask(u, frame) ==
  /\ u \in Masters \ asked
  /\ asked' = asked \cup {u}
  /\ Arrive(u, frame)

ConsoleIdle == ~cmd_msg /\ scanning = "no" /\ ~shell

BoardQuiet ==
  /\ task = "pend" /\ modbus_msg = <<>>
  /\ ConsoleIdle
  /\ \A u \in Ports : sending[u] = "none"

GiveUp ==
  /\ BoardQuiet /\ asked # {}
  /\ asked' = {}
  /\ UNCHANGED <<ports, cmd, modbus_msg, task, serving, tty, sending, tx_en, shell>>

\* Another station of the bus talks while its master waits for none of this board.
Overhear ==
  /\ Bus /\ 3 \notin asked
  /\ Arrive(3, "other")
  /\ UNCHANGED asked

Type(keys) ==
  /\ TypeAhead \/ ConsoleIdle
  /\ Arrive(1, keys)
  /\ UNCHANGED asked

Next ==
  \/ \E u \in Ports, frame \in Frames : Ask(u, frame)
  \/ \E keys \in Console : Type(keys)
  \/ GiveUp \/ Overhear
  \/ Uart1Sent \/ Uart3Sent
  \/ CmdTake \/ CmdModbus \/ CmdText \/ ShellDone \/ StreamStart
  \/ TaskStep

Spec == Init /\ [][Next]_vars

\* Transmissions end and tasks that can run do; masters retry when they give up.
Fairness ==
  /\ WF_vars(Uart1Sent) /\ WF_vars(Uart3Sent)
  /\ WF_vars(CmdTake) /\ WF_vars(CmdModbus \/ CmdText) /\ WF_vars(ShellDone)
  /\ WF_vars(TaskStep) /\ WF_vars(GiveUp)

FairSpec == Spec /\ Fairness

-----------------------------------------------------------------------------
(* Properties.                                                             *)

\* The types of the variables.
TypeOK ==
  /\ buf \in [Ports -> Content]
  /\ on \in [Ports -> BOOLEAN] /\ idle \in [Ports -> BOOLEAN]
  /\ cmd_msg \in BOOLEAN /\ scanning \in {"no", "counted", "cleared"} /\ seen \in Content
  /\ modbus_msg \in Seq(Message) /\ Len(modbus_msg) <= QueueLen
  /\ task \in {"pend", "wait", "rearm"} /\ serving \in Ports
  /\ tty \in {"IDLE", "CONSOLE", "MODBUS"}
  /\ sending \in [Ports -> {"none", "reply", "stream"}] /\ sending[3] # "stream"
  /\ tx_en \in BOOLEAN /\ shell \in BOOLEAN
  /\ asked \subseteq Ports

\* A port is deaf only while a request that came in on it is being answered: whatever
\* messages are lost, dropped or taken for another, no path leaves it stopped, and no
\* idle line is left pending on a port that listens.  The board drives the bus of uart3
\* only while it serves it.
HeldOnlyWhileServed ==
  /\ \A u \in Ports :
       /\ ~on[u] => task \in {"wait", "rearm"} /\ serving = u
       /\ idle[u] => ~on[u]
  /\ tx_en => task \in {"wait", "rearm"} /\ serving = 3

\* Neither port stays deaf, whatever the masters, the console and the streams do.
NeverDeaf == \A u \in Ports : []<>on[u]

\* The board does not hold the bus: its transceiver is always turned back to receive.
BusReleased == []<>~tx_en

\* The transceiver is not turned round under a reply that the DMA is sending.
ReplyWhole == sending[3] = "reply" => tx_en

\* A master alone on the bus of uart3 sees what RequestReply promises, if what is typed on
\* uart1 is lines that wait for their echo: cmd_task makes anything else a request, and
\* a request ends the wait for the reply.
Exchange == INSTANCE RequestReply WITH
              exchange <- IF sending[3] = "reply" THEN "replying"
                          ELSE IF 3 \in asked THEN "asked" ELSE "free",
              driving <- tx_en
AnswersRequests == Exchange!Spec

\* Every request that is served is answered by a transmission.
ServedIsAnswered ==
  [][\A u \in Ports : Serve(u) => sending'[u] = "reply"]_vars

\* A master that keeps asking for what the board knows is answered again and again: no
\* lost message, no late completion and no exchange given up leaves the task or the port
\* where it serves no more.
Answered ==
  \A u \in Masters :
    []<><<Ask(u, "query")>>_vars => []<>(sending[u] = "reply")
=============================================================================
