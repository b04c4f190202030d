------------------------------ MODULE Registers ------------------------------
(***************************************************************************)
(* The holding registers of ModbusRTU.c, shared without a lock.  Modbus_03 *)
(* copies them into the reply and Modbus_06 and Modbus_16 write them, byte *)
(* by byte, high byte first.  The interrupt counts the pieces in the two   *)
(* registers of total_count_sum, io_task clears them, and the interrupt    *)
(* may set any other register, such as the threshold of a channel.         *)
(*                                                                         *)
(* A register is its two bytes.  A count of 126 registers or more is not   *)
(* modelled: no reply has room for it.  The frames are those of ModbusLink *)
(* and the parameters that a write saves those of ParamStore.              *)
(***************************************************************************)
EXTENDS Naturals

CONSTANTS
  Base,  \* 256
  Num,   \* MODBUS_REG_NUM
  High   \* 499, the high half of total_count_sum.data_hl; the low half follows

ASSUME RegistersAssumption ==
  /\ Base \in Nat \ {0, 1} /\ Num \in Nat /\ High \in Nat /\ High + 1 < Num

Low == High + 1
Reg == 0..(Num - 1)
Byte == 0..(Base - 1)
Part == {"hi", "lo"}
Word == [Part -> Byte]

VARIABLES
  hold,     \* Modbus_HoldReg
  op,       \* the handler: Modbus_03 reads, Modbus_06 and Modbus_16 write
  start,    \* startRegAddr
  count,    \* RegNum
  i,        \* its loop
  part,     \* the byte it is to move next; a low byte is written by a load and a store
  reply,    \* the registers in RS485_tx_buf
  word,     \* what the request writes to this register
  got,      \* what the load found there
  from,     \* history: the total when the read began
  carried,  \* history: since then, a byte of the total was carried into the next
  meddled   \* history: since then, the total was cleared; or the register was
            \* changed by another hand since its write began

request == <<op, start, count, i, part>>
buffer == <<reply, word, got>>
vars == <<hold, op, start, count, i, part, reply, word, got, from, carried, meddled>>

Zero == [p \in Part |-> 0]
Full == [p \in Part |-> Base - 1]
Total == <<hold[High], hold[Low]>>

Init ==
  /\ hold = [r \in Reg |-> Zero]
  /\ op = "idle" /\ start = 0 /\ count = 0 /\ i = 0 /\ part = "hi"
  /\ reply = [r \in Reg |-> Zero] /\ word = Zero /\ got = Zero
  /\ from = <<Zero, Zero>> /\ carried = FALSE /\ meddled = FALSE

\* The register that the loop is at.
Here == start + i

-----------------------------------------------------------------------------
(* The other hands.                                                        *)

\* Plausible bug: the low byte is counted by itself.
IncByte(w) == [w EXCEPT !["lo"] = w["lo"] + 1]

\* A half-word that is counted up.
Inc(w) ==
  IF w["lo"] < Base - 1 THEN [w EXCEPT !["lo"] = w["lo"] + 1]
  ELSE IF w["hi"] < Base - 1 THEN [p \in Part |-> IF p = "hi" THEN w["hi"] + 1 ELSE 0]
  ELSE Zero

\* Register r is the last one that the handler wrote, in whole or in part.
Writing(r) == op = "write" /\ IF part = "hi" THEN i > 0 /\ r + 1 = Here ELSE r = Here

\* The interrupt counts a piece.  Bound: the total does not wrap.
Count ==
  /\ Total # <<Full, Full>>
  /\ hold' = [hold EXCEPT ![Low] = Inc(@),
                          ![High] = IF hold[Low] = Full THEN Inc(@) ELSE @]
  /\ carried' = (carried \/ (op = "read" /\ hold[Low]["lo"] = Base - 1))
  /\ meddled' = (meddled \/ Writing(Low) \/ Writing(High))
  /\ UNCHANGED <<request, buffer, from>>

\* counter_data_clear, called by io_task, in a critical section.
Clear ==
  /\ hold' = [hold EXCEPT ![Low] = Zero, ![High] = Zero]
  /\ meddled' = (meddled \/ op = "read" \/ Writing(Low) \/ Writing(High))
  /\ UNCHANGED <<request, buffer, from, carried>>

\* The interrupt sets a register of its own.
Set(r, w) ==
  /\ r \notin {Low, High}
  /\ hold' = [hold EXCEPT ![r] = w]
  /\ meddled' = (meddled \/ Writing(r))
  /\ UNCHANGED <<request, buffer, from, carried>>

-----------------------------------------------------------------------------
(* The handlers.                                                           *)

\* The test of the code, in its signed arithmetic: a count of 0 passes.
InRange(a, n) == a + n <= Num

\* A request that is out of range is refused, and changes nothing here.
Accept(kind, a, n) ==
  /\ op = "idle" /\ InRange(a, n)
  /\ op' = kind /\ start' = a /\ count' = n /\ i' = 0 /\ part' = "hi"
  /\ from' = IF kind = "read" THEN Total ELSE from
  /\ UNCHANGED <<hold, buffer, carried, meddled>>

\* Plausible bug: the low byte is copied first.
ReadByteLow ==
  /\ op = "read" /\ i < count
  /\ reply' = [reply EXCEPT ![Here] =
                 [@ EXCEPT ![IF part = "hi" THEN "lo" ELSE "hi"] =
                    hold[Here][IF part = "hi" THEN "lo" ELSE "hi"]]]
  /\ IF part = "hi" THEN part' = "lo" /\ i' = i ELSE part' = "hi" /\ i' = i + 1
  /\ UNCHANGED <<hold, op, start, count, word, got, from, carried, meddled>>

\* The register is loaded once for each of its bytes.
ReadByte ==
  /\ op = "read" /\ i < count
  /\ reply' = [reply EXCEPT ![Here] = [@ EXCEPT ![part] = hold[Here][part]]]
  /\ IF part = "hi" THEN part' = "lo" /\ i' = i ELSE part' = "hi" /\ i' = i + 1
  /\ UNCHANGED <<hold, op, start, count, word, got, from, carried, meddled>>

\* Plausible bug: the low byte of before is not taken away.
WriteHighOver(w) ==
  /\ op = "write" /\ i < count /\ part = "hi"
  /\ hold' = [hold EXCEPT ![Here] = [@ EXCEPT !["hi"] = w["hi"]]]
  /\ word' = w /\ part' = "load" /\ meddled' = FALSE
  /\ UNCHANGED <<op, start, count, i, reply, got, from, carried>>

\* The high byte is stored with a low byte of 0.
WriteHigh(w) ==
  /\ op = "write" /\ i < count /\ part = "hi"
  /\ hold' = [hold EXCEPT ![Here] = [Zero EXCEPT !["hi"] = w["hi"]]]
  /\ word' = w /\ part' = "load" /\ meddled' = FALSE
  /\ UNCHANGED <<op, start, count, i, reply, got, from, carried>>

\* The low byte is joined with |=, a load and a store.
LoadLow ==
  /\ op = "write" /\ part = "load"
  /\ got' = hold[Here] /\ part' = "lo"
  /\ UNCHANGED <<hold, op, start, count, i, reply, word, from, carried, meddled>>

\* What | may make of two bytes.
Or(a, b) == {x \in Byte : x >= a /\ x >= b /\ x <= a + b}

StoreLow ==
  /\ op = "write" /\ part = "lo"
  /\ \E x \in Or(got["lo"], word["lo"]) :
       hold' = [hold EXCEPT ![Here] = [got EXCEPT !["lo"] = x]]
  /\ part' = "hi" /\ i' = i + 1 /\ got' = Zero
  /\ UNCHANGED <<op, start, count, reply, word, from, carried, meddled>>

\* The reply is sent, and what the handler kept is of no further use.
Answer ==
  /\ op # "idle" /\ i = count
  /\ op' = "idle" /\ start' = 0 /\ count' = 0 /\ i' = 0
  /\ reply' = [r \in Reg |-> Zero] /\ word' = Zero /\ got' = Zero
  /\ from' = <<Zero, Zero>> /\ carried' = FALSE /\ meddled' = FALSE
  /\ UNCHANGED <<hold, part>>

Next ==
  \/ Count \/ Clear
  \/ \E r \in Reg, w \in Word : Set(r, w)
  \/ \E kind \in {"read", "write"}, a \in 0..Num, n \in 0..Num : Accept(kind, a, n)
  \/ ReadByte
  \/ \E w \in Word : WriteHigh(w)
  \/ LoadLow \/ StoreLow \/ Answer

Spec == Init /\ [][Next]_vars

-----------------------------------------------------------------------------
(* Properties.                                                             *)

\* The types of the variables: no address is past the last register.
TypeOK ==
  /\ hold \in [Reg -> Word]
  /\ op \in {"idle", "read", "write"} /\ start \in Nat /\ count \in Nat
  /\ start + count <= Num /\ i \in 0..count
  /\ part \in {"hi", "load", "lo"}
  /\ reply \in [Reg -> Word] /\ word \in Word /\ got \in Word
  /\ from \in Word \X Word /\ carried \in BOOLEAN /\ meddled \in BOOLEAN

\* u is v or less.
AtMost(u, v) ==
  \/ u["hi"] < v["hi"]
  \/ u["hi"] = v["hi"] /\ u["lo"] <= v["lo"]
PairAtMost(u, v) ==
  \/ u[1] # v[1] /\ AtMost(u[1], v[1])
  \/ u[1] = v[1] /\ AtMost(u[2], v[2])

\* The reply holds both halves of the total.
Reported == op = "read" /\ start <= High /\ Low < Here

\* A total that is read while pieces fall is never ahead of the count, and is behind the
\* count of the moment when the request came only if a byte was carried meanwhile.
NeverAhead ==
  Reported /\ ~meddled
    => /\ PairAtMost(<<reply[High], reply[Low]>>, Total)
       /\ ~carried => PairAtMost(from, <<reply[High], reply[Low]>>)

\* Unless another hand changes it, a register that is being written never shows more than
\* what the host writes, so that a threshold does not rise above a light that is above the
\* new one, and at the end it shows just that.
WriteLands ==
  \A r \in Reg :
    Writing(r) /\ ~meddled
      => /\ AtMost(hold[r], word)
         /\ part = "hi" => hold[r] = word
=============================================================================
