--------------------------- MODULE Registers_proofs ---------------------------
(***************************************************************************)
(* Proofs about Registers for every number of registers and every size of  *)
(* a byte: the types, that a total read while pieces fall is never ahead   *)
(* of the count, and that a write lands.  A word is never compared as a    *)
(* number: high bytes first, and low bytes when those are equal.           *)
(***************************************************************************)
EXTENDS Registers, TLAPS

\* Byte p of register r has been copied.
Done(r, p) == r < Here \/ (r = Here /\ part = "lo" /\ p = "hi")

\* What has been copied of the total is, byte by byte, no more than the count is there;
\* and without a carry it is what the count still is there, but for the last byte.
Copied ==
  /\ Done(High, "hi") => reply[High]["hi"] <= hold[High]["hi"]
  /\ Done(High, "lo") => AtMost(reply[High], hold[High])
  /\ Done(Low, "hi")
       => \/ reply[High] # hold[High]
          \/ reply[Low]["hi"] <= hold[Low]["hi"]
  /\ Done(Low, "lo")
       => reply[High] # hold[High] \/ AtMost(reply[Low], hold[Low])

Uncarried ==
  /\ from[1] = hold[High]
  /\ from[2]["hi"] = hold[Low]["hi"] /\ from[2]["lo"] <= hold[Low]["lo"]
  /\ Done(High, "hi") => reply[High]["hi"] = hold[High]["hi"]
  /\ Done(High, "lo") => reply[High] = hold[High]
  /\ Done(Low, "hi") => reply[Low]["hi"] = hold[Low]["hi"]
  /\ Done(Low, "lo") => from[2]["lo"] <= reply[Low]["lo"]

Reads ==
  op = "read" /\ start <= High /\ ~meddled => Copied /\ (~carried => Uncarried)

\* A register in the making has a low byte of 0.
Writes ==
  op = "write" /\ ~meddled
    => /\ part # "hi" => hold[Here] = [Zero EXCEPT !["hi"] = word["hi"]]
       /\ part = "lo" => got = hold[Here]
       /\ part = "hi" /\ i > 0 => hold[Here - 1] = word

\* The loop of the handler.
Loop ==
  /\ op = "idle" => part = "hi"
  /\ op = "read" => part # "load"
  /\ part # "hi" => i < count

\* The inductive invariant.
IInv == TypeOK /\ Loop /\ Reads /\ Writes

-----------------------------------------------------------------------------
(* Words.                                                                  *)

LEMMA Positions == High \in Reg /\ Low \in Reg /\ High # Low /\ Low = High + 1
  BY RegistersAssumption DEF Reg, Low

\* A word is its two bytes.
LEMMA Bytes ==
  ASSUME NEW u \in Word, NEW v \in Word, u["hi"] = v["hi"], u["lo"] = v["lo"]
  PROVE  u = v
  BY DEF Word, Part

LEMMA ByteTypes ==
  /\ \A w \in Word : w["hi"] \in Byte /\ w["lo"] \in Byte
  /\ Byte \subseteq Nat /\ 0 \in Byte /\ Zero \in Word /\ Full \in Word
  /\ Zero["hi"] = 0 /\ Zero["lo"] = 0
  /\ Full["hi"] = Base - 1 /\ Full["lo"] = Base - 1
  BY RegistersAssumption DEF Word, Part, Byte, Zero, Full

\* Counting up a half-word that is not full makes it larger, and carries only from a low
\* byte that is full.
LEMMA IncLarger ==
  ASSUME NEW w \in Word
  PROVE  /\ Inc(w) \in Word
         /\ w # Full => AtMost(w, Inc(w)) /\ w # Inc(w) /\ w["hi"] <= Inc(w)["hi"]
         /\ w["lo"] # Base - 1
              => Inc(w)["hi"] = w["hi"] /\ Inc(w)["lo"] = w["lo"] + 1
<1>0. w["hi"] \in Nat /\ w["lo"] \in Nat
  BY ByteTypes
<1>1. CASE w["lo"] < Base - 1
  <2>1. Inc(w) = [w EXCEPT !["lo"] = w["lo"] + 1]
    BY <1>1 DEF Inc
  <2>2. w["lo"] + 1 \in Byte
    BY <1>1, ByteTypes, RegistersAssumption DEF Byte
  <2>3. Inc(w) \in Word /\ Inc(w)["hi"] = w["hi"] /\ Inc(w)["lo"] = w["lo"] + 1
    BY <2>1, <2>2 DEF Word, Part
  <2>4. AtMost(w, Inc(w)) /\ w # Inc(w)
    BY <1>0, <2>3 DEF AtMost
  <2> QED BY <1>0, <1>1, <2>3, <2>4
<1>2. CASE ~(w["lo"] < Base - 1)
  <2>1. w["lo"] = Base - 1
    BY <1>2, ByteTypes, RegistersAssumption DEF Byte
  <2>2. CASE w["hi"] < Base - 1
    <3>1. Inc(w) = [p \in Part |-> IF p = "hi" THEN w["hi"] + 1 ELSE 0]
      BY <1>2, <2>2 DEF Inc
    <3>2. w["hi"] + 1 \in Byte
      BY <2>2, ByteTypes, RegistersAssumption DEF Byte
    <3>3. Inc(w) \in Word /\ Inc(w)["hi"] = w["hi"] + 1
      BY <3>1, <3>2, ByteTypes DEF Word, Part
    <3>4. AtMost(w, Inc(w)) /\ w # Inc(w)
      BY <1>0, <3>3 DEF AtMost
    <3> QED BY <1>0, <2>1, <3>3, <3>4
  <2>3. CASE ~(w["hi"] < Base - 1)
    <3>1. w["hi"] = Base - 1
      BY <2>3, ByteTypes, RegistersAssumption DEF Byte
    <3>2. w = Full
      BY <2>1, <3>1, ByteTypes, Bytes
    <3> QED BY <1>2, <2>1, <2>3, <3>2, ByteTypes DEF Inc
  <2> QED BY <2>2, <2>3
<1> QED BY <1>1, <1>2

LEMMA AtMostOrder ==
  ASSUME NEW u \in Word, NEW v \in Word, NEW w \in Word
  PROVE  /\ AtMost(u, u)
         /\ AtMost(u, v) => u["hi"] <= v["hi"]
         /\ AtMost(u, v) /\ AtMost(v, w) => AtMost(u, w)
         /\ AtMost(u, v) /\ AtMost(v, u) => u = v
<1>1. /\ u["hi"] \in Nat /\ v["hi"] \in Nat /\ w["hi"] \in Nat
      /\ u["lo"] \in Nat /\ v["lo"] \in Nat /\ w["lo"] \in Nat
  BY ByteTypes
<1>2. AtMost(u, u) /\ (AtMost(u, v) => u["hi"] <= v["hi"])
  BY <1>1 DEF AtMost
<1>3. AtMost(u, v) /\ AtMost(v, w) => AtMost(u, w)
  BY <1>1 DEF AtMost
<1>4. AtMost(u, v) /\ AtMost(v, u) => u = v
  BY <1>1, Bytes DEF AtMost
<1> QED BY <1>2, <1>3, <1>4

\* What the interrupt does to the total: the high half is left alone and the low one is
\* larger, or the high half is larger.
LEMMA TotalGrows ==
  ASSUME TypeOK, Count
  PROVE  /\ hold' \in [Reg -> Word]
         /\ \A r \in Reg \ {High, Low} : hold'[r] = hold[r]
         /\ \/ hold'[High] = hold[High] /\ AtMost(hold[Low], hold'[Low])
            \/ hold'[High] # hold[High] /\ AtMost(hold[High], hold'[High])
         /\ hold[Low]["lo"] # Base - 1
              => /\ hold'[High] = hold[High] /\ hold'[Low]["hi"] = hold[Low]["hi"]
                 /\ hold[Low]["lo"] <= hold'[Low]["lo"]
<1>1. hold[High] \in Word /\ hold[Low] \in Word
  BY Positions DEF TypeOK
<1>2. /\ hold'[Low] = Inc(hold[Low])
      /\ hold'[High] = IF hold[Low] = Full THEN Inc(hold[High]) ELSE hold[High]
      /\ \A r \in Reg \ {High, Low} : hold'[r] = hold[r]
  BY Positions DEF Count, TypeOK
<1>3. hold' \in [Reg -> Word]
  BY <1>1, IncLarger DEF Count, TypeOK
<1>4. CASE hold[Low] = Full
  <2>1. hold[High] # Full
    BY <1>4 DEF Count, Total
  <2> QED BY <1>1, <1>2, <1>3, <1>4, <2>1, IncLarger, ByteTypes
<1>5. CASE hold[Low] # Full
  <2>1. hold[Low]["lo"] \in Nat
    BY <1>1, ByteTypes
  <2> QED BY <1>1, <1>2, <1>3, <1>5, <2>1, IncLarger
<1> QED BY <1>4, <1>5

-----------------------------------------------------------------------------
(* The other hands.                                                        *)

\* A piece is counted: the total only grows under a read.
LEMMA CountKeeps == ASSUME IInv, Count PROVE IInv'
<1>1. /\ UNCHANGED <<op, start, count, i, part, reply, word, got, from>>
      /\ carried' = (carried \/ (op = "read" /\ hold[Low]["lo"] = Base - 1))
      /\ meddled' = (meddled \/ Writing(Low) \/ Writing(High))
  BY DEF Count, request, buffer
<1>2. TypeOK
  BY DEF IInv
<1>3. TypeOK' /\ Loop'
  BY <1>1, <1>2, TotalGrows DEF TypeOK, IInv, Loop, Writing
<1>4. Reads'
  <2> SUFFICES ASSUME op = "read", start <= High, ~meddled
               PROVE  Copied' /\ (~carried' => Uncarried')
    BY <1>1 DEF Reads
  <2>1. Copied /\ (~carried => Uncarried)
    BY DEF IInv, Reads
  <2>2. /\ hold[High] \in Word /\ hold[Low] \in Word /\ hold'[High] \in Word
        /\ hold'[Low] \in Word /\ reply[High] \in Word /\ reply[Low] \in Word
    BY <1>2, TotalGrows, Positions DEF TypeOK
  <2>3. /\ hold[High]["hi"] \in Nat /\ hold[Low]["hi"] \in Nat /\ hold[Low]["lo"] \in Nat
        /\ hold'[High]["hi"] \in Nat /\ hold'[Low]["hi"] \in Nat /\ hold'[Low]["lo"] \in Nat
        /\ reply[High]["hi"] \in Nat /\ reply[Low]["hi"] \in Nat
    BY <2>2, ByteTypes
  <2>4. \A r, p : Done(r, p)' <=> Done(r, p)
    BY <1>1 DEF Done, Here
  <2>5. Copied'
    <3>1. CASE hold'[High] = hold[High] /\ AtMost(hold[Low], hold'[Low])
      <4>1. hold[Low]["hi"] <= hold'[Low]["hi"]
        BY <2>2, <3>1, AtMostOrder
      <4>2. AtMost(reply[Low], hold[Low]) => AtMost(reply[Low], hold'[Low])
        BY <2>2, <3>1, AtMostOrder
      <4>3. reply[Low]["hi"] <= hold[Low]["hi"] => reply[Low]["hi"] <= hold'[Low]["hi"]
        BY <2>3, <4>1
      <4> QED BY <1>1, <2>1, <2>4, <3>1, <4>2, <4>3 DEF Copied
    <3>2. CASE hold'[High] # hold[High] /\ AtMost(hold[High], hold'[High])
      <4>1. hold[High]["hi"] <= hold'[High]["hi"]
        BY <2>2, <3>2, AtMostOrder
      <4>2. reply[High]["hi"] <= hold[High]["hi"] => reply[High]["hi"] <= hold'[High]["hi"]
        BY <2>3, <4>1
      <4>3. AtMost(reply[High], hold[High])
              => AtMost(reply[High], hold'[High]) /\ reply[High] # hold'[High]
        BY <2>2, <3>2, AtMostOrder
      <4>4. Done(Low, "hi") \/ Done(Low, "lo") => Done(High, "lo")
        BY <1>2, RegistersAssumption DEF Done, Here, Low, TypeOK
      <4> QED BY <1>1, <2>1, <2>4, <4>2, <4>3, <4>4 DEF Copied
    <3> QED BY <1>2, <3>1, <3>2, TotalGrows
  <2>6. ASSUME ~carried' PROVE Uncarried'
    <3>1. ~carried /\ hold[Low]["lo"] # Base - 1
      BY <1>1, <2>6
    <3>2. /\ hold'[High] = hold[High] /\ hold'[Low]["hi"] = hold[Low]["hi"]
          /\ hold[Low]["lo"] <= hold'[Low]["lo"]
      BY <1>2, <3>1, TotalGrows
    <3>3. from[2]["lo"] \in Nat
      BY <1>2, ByteTypes DEF TypeOK
    <3>4. from[2]["lo"] <= hold'[Low]["lo"]
      BY <2>1, <2>3, <3>1, <3>2, <3>3 DEF Uncarried
    <3> QED BY <1>1, <2>1, <2>4, <3>1, <3>2, <3>4 DEF Uncarried
  <2> QED BY <2>5, <2>6
<1>5. Writes'
  <2> SUFFICES ASSUME op = "write", ~meddled'
               PROVE  /\ part # "hi" => hold'[Here] = [Zero EXCEPT !["hi"] = word["hi"]]
                      /\ part = "lo" => got = hold'[Here]
                      /\ part = "hi" /\ i > 0 => hold'[Here - 1] = word
    BY <1>1 DEF Writes, Here, Zero
  <2>1. ~meddled /\ ~Writing(Low) /\ ~Writing(High)
    BY <1>1
  <2>2. start \in Nat /\ i \in 0..count /\ count \in Nat /\ start + count <= Num /\ Num \in Nat
    BY <1>2, RegistersAssumption DEF TypeOK
  <2>3. CASE part # "hi"
    <3>1. Here \in Reg \ {High, Low}
      BY <2>1, <2>2, <2>3 DEF IInv, Loop, Writing, Here, Reg
    <3> QED BY <1>2, <2>1, <2>3, <3>1, TotalGrows DEF IInv, Writes
  <2>4. CASE part = "hi" /\ i > 0
    <3>1. Here - 1 \in Reg /\ (Here - 1) + 1 = Here
      BY <2>2, <2>4 DEF Here, Reg
    <3>2. Here - 1 # High /\ Here - 1 # Low
      BY <2>1, <2>4, <3>1 DEF Writing
    <3> QED BY <1>2, <2>1, <2>4, <3>1, <3>2, TotalGrows DEF IInv, Writes
  <2> QED BY <2>3, <2>4
<1> QED BY <1>3, <1>4, <1>5 DEF IInv

\* Another hand changes a register of the handler only leaving its mark.
LEMMA OthersKeep ==
  ASSUME IInv, NEW S \in SUBSET Reg, hold' \in [Reg -> Word],
         \A r \in Reg \ S : hold'[r] = hold[r],
         UNCHANGED <<op, start, count, i, part, reply, word, got, from, carried>>,
         meddled' \in BOOLEAN, meddled => meddled',
         op = "read" /\ S \cap {High, Low} # {} => meddled',
         \A r \in S : Writing(r) => meddled'
  PROVE  IInv'
<1>1. TypeOK' /\ Loop'
  BY DEF TypeOK, IInv, Loop
<1>2. Reads'
  <2> SUFFICES ASSUME op = "read", start <= High, ~meddled'
               PROVE  Copied' /\ (~carried' => Uncarried')
    BY DEF Reads
  <2>1. hold'[High] = hold[High] /\ hold'[Low] = hold[Low]
    BY Positions
  <2>2. \A r, p : Done(r, p)' <=> Done(r, p)
    BY DEF Done, Here
  <2>3. Copied /\ (~carried => Uncarried)
    BY DEF IInv, Reads
  <2> QED BY <2>1, <2>2, <2>3 DEF Copied, Uncarried
<1>3. Writes'
  <2> SUFFICES ASSUME op = "write", ~meddled'
               PROVE  /\ part # "hi" => hold'[Here] = [Zero EXCEPT !["hi"] = word["hi"]]
                      /\ part = "lo" => got = hold'[Here]
                      /\ part = "hi" /\ i > 0 => hold'[Here - 1] = word
    BY DEF Writes, Here, Zero
  <2>2. start \in Nat /\ i \in 0..count /\ count \in Nat /\ start + count <= Num /\ Num \in Nat
    BY RegistersAssumption DEF IInv, TypeOK
  <2>3. CASE part # "hi"
    <3>1. Here \in Reg /\ Writing(Here)
      BY <2>2, <2>3 DEF IInv, Loop, Writing, Here, Reg
    <3> QED BY <2>3, <3>1 DEF IInv, Writes
  <2>4. CASE part = "hi" /\ i > 0
    <3>1. Here - 1 \in Reg /\ (Here - 1) + 1 = Here
      BY <2>2, <2>4 DEF Here, Reg
    <3>2. Writing(Here - 1)
      BY <2>4, <3>1 DEF Writing
    <3> QED BY <2>4, <3>1, <3>2 DEF IInv, Writes
  <2> QED BY <2>3, <2>4
<1> QED BY <1>1, <1>2, <1>3 DEF IInv

LEMMA ClearKeeps == ASSUME IInv, Clear PROVE IInv'
<1>1. hold' \in [Reg -> Word] /\ \A r \in Reg \ {High, Low} : hold'[r] = hold[r]
  BY Positions, ByteTypes DEF Clear, IInv, TypeOK
<1>2. UNCHANGED <<op, start, count, i, part, reply, word, got, from, carried>>
  BY DEF Clear, request, buffer
<1>3. /\ meddled' \in BOOLEAN /\ (meddled => meddled') /\ (op = "read" => meddled')
      /\ \A r \in {High, Low} : Writing(r) => meddled'
  BY DEF Clear, IInv, TypeOK, Writing
<1>4. {High, Low} \in SUBSET Reg
  BY Positions
<1> QED BY <1>1, <1>2, <1>3, <1>4, OthersKeep

LEMMA SetKeeps == ASSUME IInv, NEW r \in Reg, NEW w \in Word, Set(r, w) PROVE IInv'
<1>1. hold' \in [Reg -> Word] /\ \A s \in Reg \ {r} : hold'[s] = hold[s]
  BY DEF Set, IInv, TypeOK
<1>2. UNCHANGED <<op, start, count, i, part, reply, word, got, from, carried>>
  BY DEF Set, request, buffer
<1>3. /\ meddled' \in BOOLEAN /\ (meddled => meddled') /\ {r} \cap {High, Low} = {}
      /\ \A s \in {r} : Writing(s) => meddled'
  BY DEF Set, IInv, TypeOK, Writing
<1> QED BY <1>1, <1>2, <1>3, OthersKeep

-----------------------------------------------------------------------------
(* The handlers.                                                           *)

LEMMA AcceptKeeps ==
  ASSUME IInv, NEW kind \in {"read", "write"}, NEW a \in 0..Num, NEW n \in 0..Num,
         Accept(kind, a, n)
  PROVE  IInv'
<1>1. TypeOK'
  <2>1. from' \in Word \X Word
    BY Positions DEF Accept, Total, IInv, TypeOK
  <2>2. /\ start' \in Nat /\ count' \in Nat /\ start' + count' <= Num /\ i' \in 0..count'
    BY RegistersAssumption DEF Accept, InRange, Reg
  <2> QED BY <2>1, <2>2 DEF Accept, buffer, IInv, TypeOK
<1>2. Loop' /\ Writes'
  BY DEF Accept, Loop, Writes
<1>3. Reads'
  <2> SUFFICES ASSUME kind = "read", a <= High PROVE Copied' /\ Uncarried'
    BY DEF Accept, Reads
  <2>1. /\ Here' = a /\ part' = "hi" /\ from' = <<hold[High], hold[Low]>> /\ hold' = hold
    BY DEF Accept, Here, Total, Reg
  <2>2. ~Done(High, "hi")' /\ ~Done(High, "lo")' /\ ~Done(Low, "hi")' /\ ~Done(Low, "lo")'
    BY <2>1, RegistersAssumption DEF Done, Low, Reg
  <2>3. hold[Low]["lo"] \in Nat
    BY Positions, ByteTypes DEF IInv, TypeOK
  <2> QED BY <2>1, <2>2, <2>3 DEF Copied, Uncarried
<1> QED BY <1>1, <1>2, <1>3 DEF IInv

\* A byte is copied after those above it.
LEMMA ReadKeeps == ASSUME IInv, ReadByte PROVE IInv'
<1>1. /\ op = "read" /\ i < count /\ part \in {"hi", "lo"}
      /\ start \in Nat /\ i \in Nat /\ count \in Nat /\ start + count <= Num /\ Num \in Nat
      /\ High \in Nat
  BY RegistersAssumption DEF ReadByte, IInv, TypeOK, Loop
<1>2. Here \in Reg /\ hold[Here] \in Word /\ reply[Here] \in Word
  BY <1>1 DEF IInv, TypeOK, Here, Reg
<1>3. /\ reply'[Here] \in Word /\ reply'[Here][part] = hold[Here][part]
      /\ \A p \in Part \ {part} : reply'[Here][p] = reply[Here][p]
      /\ \A r \in Reg \ {Here} : reply'[r] = reply[r]
      /\ reply' \in [Reg -> Word]
  BY <1>1, <1>2, ByteTypes DEF ReadByte, IInv, TypeOK, Word, Part
<1>4. UNCHANGED <<hold, op, start, count, word, got, from, carried, meddled>>
  BY DEF ReadByte
<1>5. /\ part = "hi" => part' = "lo" /\ i' = i
      /\ part = "lo" => part' = "hi" /\ i' = i + 1
  BY <1>1 DEF ReadByte
<1>6. TypeOK' /\ Loop' /\ Writes'
  BY <1>1, <1>3, <1>4, <1>5 DEF IInv, TypeOK, Loop, Writes
<1>7. Reads'
  <2> SUFFICES ASSUME start <= High, ~meddled PROVE Copied' /\ (~carried => Uncarried')
    BY <1>4 DEF Reads
  <2>1. Copied /\ (~carried => Uncarried)
    BY <1>1 DEF IInv, Reads
  <2>2. /\ hold[High] \in Word /\ hold[Low] \in Word
        /\ reply[High] \in Word /\ reply[Low] \in Word
        /\ reply'[High] \in Word /\ reply'[Low] \in Word
    BY <1>3, Positions DEF IInv, TypeOK
  <2>3. /\ hold[High]["hi"] \in Nat /\ hold[Low]["hi"] \in Nat
        /\ hold[High]["lo"] \in Nat /\ hold[Low]["lo"] \in Nat
        /\ reply[High]["hi"] \in Nat /\ reply[Low]["hi"] \in Nat
        /\ reply[High]["lo"] \in Nat /\ reply[Low]["lo"] \in Nat
    BY <2>2, ByteTypes
  <2>4. CASE Here # High /\ Here # Low
    <3>1. /\ reply'[High] = reply[High] /\ reply'[Low] = reply[Low]
      BY <1>3, <2>4, Positions
    <3>2. \A r \in {High, Low}, p \in Part : Done(r, p)' <=> Done(r, p)
      BY <1>1, <1>4, <1>5, <2>4, Positions DEF Done, Here
    <3> QED BY <1>4, <2>1, <3>1, <3>2 DEF Copied, Uncarried, Part
  <2>5. CASE Here = High
    <3>1. ~Done(Low, "hi")' /\ ~Done(Low, "lo")' /\ reply'[Low] = reply[Low]
      BY <1>1, <1>3, <1>4, <1>5, <2>5, Positions DEF Done, Here
    <3>2. CASE part = "hi"
      <4>1. /\ ~Done(High, "lo")' /\ reply'[High]["hi"] = hold[High]["hi"]
        BY <1>1, <1>3, <1>4, <1>5, <2>5, <3>2, Positions DEF Done, Here
      <4> QED BY <1>4, <2>1, <2>3, <3>1, <4>1 DEF Copied, Uncarried
    <3>3. CASE part = "lo"
      <4>1. Done(High, "hi") /\ reply'[High]["hi"] = reply[High]["hi"]
        BY <1>3, <2>5, <3>3 DEF Done, Part
      <4>2. reply'[High]["lo"] = hold[High]["lo"]
        BY <1>3, <2>5, <3>3
      <4>3. AtMost(reply'[High], hold[High])
        BY <2>1, <2>3, <4>1, <4>2 DEF Copied, AtMost
      <4>4. ~carried => reply'[High] = hold[High]
        BY <2>1, <2>2, <4>1, <4>2, Bytes DEF Uncarried
      <4> QED BY <1>4, <2>1, <2>3, <3>1, <4>1, <4>3, <4>4 DEF Copied, Uncarried
    <3> QED BY <1>1, <3>2, <3>3
  <2>6. CASE Here = Low
    <3>1. Done(High, "hi") /\ Done(High, "lo") /\ reply'[High] = reply[High]
      BY <1>1, <1>3, <2>6, Positions DEF Done
    <3>2. CASE part = "hi"
      <4>1. /\ ~Done(Low, "lo")' /\ reply'[Low]["hi"] = hold[Low]["hi"]
        BY <1>1, <1>3, <1>4, <1>5, <2>6, <3>2, Positions DEF Done, Here
      <4> QED BY <1>4, <2>1, <2>3, <3>1, <4>1 DEF Copied, Uncarried
    <3>3. CASE part = "lo"
      <4>1. Done(Low, "hi") /\ reply'[Low]["hi"] = reply[Low]["hi"]
        BY <1>3, <2>6, <3>3 DEF Done, Part
      <4>2. reply'[Low]["lo"] = hold[Low]["lo"]
        BY <1>3, <2>6, <3>3
      <4>3. reply[High] # hold[High] \/ AtMost(reply'[Low], hold[Low])
        BY <2>1, <2>3, <4>1, <4>2 DEF Copied, AtMost
      <4> QED BY <1>4, <2>1, <2>3, <3>1, <4>1, <4>2, <4>3 DEF Copied, Uncarried
    <3> QED BY <1>1, <3>2, <3>3
  <2> QED BY <2>4, <2>5, <2>6
<1> QED BY <1>6, <1>7 DEF IInv

\* The high byte is stored alone.
LEMMA WriteHighKeeps == ASSUME IInv, NEW w \in Word, WriteHigh(w) PROVE IInv'
<1>1. Here \in Reg /\ i < count
  BY RegistersAssumption DEF WriteHigh, IInv, TypeOK, Here, Reg
<1>2. [Zero EXCEPT !["hi"] = w["hi"]] \in Word
  BY ByteTypes DEF Word, Part
<1>3. TypeOK' /\ Loop'
  BY <1>1, <1>2 DEF WriteHigh, IInv, TypeOK, Loop
<1>4. Writes'
  <2>1. hold'[Here] = [Zero EXCEPT !["hi"] = word'["hi"]] /\ Here' = Here /\ part' = "load"
    BY <1>1 DEF WriteHigh, IInv, TypeOK, Here
  <2> QED BY <2>1 DEF Writes, Zero
<1>5. Reads'
  BY DEF WriteHigh, Reads
<1> QED BY <1>3, <1>4, <1>5 DEF IInv

LEMMA LoadLowKeeps == ASSUME IInv, LoadLow PROVE IInv'
<1>1. Here \in Reg
  BY RegistersAssumption DEF LoadLow, IInv, TypeOK, Loop, Here, Reg
<1>2. TypeOK' /\ Loop'
  BY <1>1 DEF LoadLow, IInv, TypeOK, Loop
<1>3. Writes' /\ Reads'
  BY DEF LoadLow, IInv, Writes, Reads, Here, Zero
<1> QED BY <1>2, <1>3 DEF IInv

\* The low byte joins a low byte of 0.
LEMMA StoreLowKeeps == ASSUME IInv, StoreLow PROVE IInv'
<1>1. PICK x \in Or(got["lo"], word["lo"]) :
        hold' = [hold EXCEPT ![Here] = [got EXCEPT !["lo"] = x]]
  BY DEF StoreLow
<1>2. /\ op = "write" /\ part = "lo" /\ part' = "hi" /\ i' = i + 1 /\ got' = Zero
      /\ UNCHANGED <<op, start, count, reply, word, from, carried, meddled>>
  BY DEF StoreLow
<1>3. /\ Here \in Reg /\ i < count /\ i \in Nat /\ start \in Nat /\ count \in Nat
  BY <1>2, RegistersAssumption DEF IInv, TypeOK, Loop, Here, Reg
<1>4. x \in Byte /\ x >= word["lo"] /\ x <= got["lo"] + word["lo"]
  BY DEF Or
<1>5. [got EXCEPT !["lo"] = x] \in Word
  BY <1>4 DEF IInv, TypeOK, Word, Part
<1>6. hold' \in [Reg -> Word]
  BY <1>1, <1>5 DEF IInv, TypeOK
<1>7. TypeOK' /\ Loop'
  BY <1>2, <1>3, <1>6, ByteTypes DEF IInv, TypeOK, Loop
<1>8. Reads'
  BY <1>2 DEF Reads
<1>9. Writes'
  <2>1. Here' - 1 = Here
    BY <1>2, <1>3 DEF Here
  <2>2. ASSUME ~meddled PROVE hold'[Here] = word
    <3>1. got = [Zero EXCEPT !["hi"] = word["hi"]]
      BY <1>2, <2>2 DEF IInv, Writes
    <3>2. got["hi"] = word["hi"] /\ got["lo"] = 0
      BY <3>1, ByteTypes DEF Word, Part, Zero
    <3>3. word \in Word /\ word["lo"] \in Nat /\ got \in Word
      BY ByteTypes DEF IInv, TypeOK
    <3>4. x = word["lo"]
      BY <1>4, <3>2, <3>3, ByteTypes
    <3>5. hold'[Here] = [got EXCEPT !["lo"] = x]
      BY <1>1, <1>3 DEF IInv, TypeOK
    <3>6. hold'[Here]["hi"] = word["hi"] /\ hold'[Here]["lo"] = word["lo"]
      BY <3>2, <3>3, <3>4, <3>5 DEF Word, Part
    <3> QED BY <1>3, <1>6, <3>3, <3>6, Bytes
  <2> QED BY <1>2, <2>1, <2>2 DEF Writes
<1> QED BY <1>7, <1>8, <1>9 DEF IInv

LEMMA AnswerKeeps == ASSUME IInv, Answer PROVE IInv'
<1>1. part = "hi"
  BY DEF Answer, IInv, Loop, TypeOK
<1>2. TypeOK'
  <2>1. Zero \in Word /\ [r \in Reg |-> Zero] \in [Reg -> Word]
        /\ <<Zero, Zero>> \in Word \X Word
    BY ByteTypes
  <2>2. 0 + 0 <= Num /\ 0 \in 0..0
    BY RegistersAssumption
  <2> QED BY <2>1, <2>2 DEF Answer, IInv, TypeOK
<1>3. Loop' /\ Reads' /\ Writes'
  BY <1>1 DEF Answer, Loop, Reads, Writes
<1> QED BY <1>2, <1>3 DEF IInv

\* Every step keeps the invariant.
LEMMA NextKeeps == IInv /\ [Next]_vars => IInv'
<1> SUFFICES ASSUME IInv, [Next]_vars PROVE IInv'
  OBVIOUS
<1>1. CASE Next
  BY <1>1, CountKeeps, ClearKeeps, SetKeeps, AcceptKeeps, ReadKeeps, WriteHighKeeps,
     LoadLowKeeps, StoreLowKeeps, AnswerKeeps
     DEF Next
<1>2. CASE UNCHANGED vars
  BY <1>2 DEF vars, IInv, TypeOK, Loop, Reads, Writes, Copied, Uncarried, Done, Here, Zero
<1> QED BY <1>1, <1>2

LEMMA InitIInv == Init => IInv
<1> SUFFICES ASSUME Init PROVE IInv
  OBVIOUS
<1>1. TypeOK
  <2>1. Zero \in Word /\ [r \in Reg |-> Zero] \in [Reg -> Word]
        /\ <<Zero, Zero>> \in Word \X Word
    BY ByteTypes
  <2>2. 0 + 0 <= Num /\ 0 \in 0..0
    BY RegistersAssumption
  <2> QED BY <2>1, <2>2 DEF Init, TypeOK
<1>2. Loop /\ Reads /\ Writes
  BY DEF Init, Loop, Reads, Writes
<1> QED BY <1>1, <1>2 DEF IInv

LEMMA Invariant == Spec => []IInv
  BY InitIInv, NextKeeps, PTL DEF Spec

\* Type correctness: a handler that passed the test on its addresses stays within the
\* registers.
THEOREM RegistersTypeCorrect == Spec => []TypeOK
<1>1. IInv => TypeOK
  BY DEF IInv
<1> QED BY <1>1, Invariant, PTL

\* The total that is read is never ahead of the count.
THEOREM TotalNeverAhead == Spec => []NeverAhead
<1>1. IInv => NeverAhead
  <2> SUFFICES ASSUME IInv, Reported, ~meddled
               PROVE  /\ PairAtMost(<<reply[High], reply[Low]>>, Total)
                      /\ ~carried => PairAtMost(from, <<reply[High], reply[Low]>>)
    BY DEF NeverAhead
  <2>1. Copied /\ (~carried => Uncarried)
    BY DEF IInv, Reads, Reported
  <2>2. /\ Done(High, "hi") /\ Done(High, "lo") /\ Done(Low, "hi") /\ Done(Low, "lo")
    BY RegistersAssumption DEF Reported, Done, Low, Here, IInv, TypeOK
  <2>3. PairAtMost(<<reply[High], reply[Low]>>, Total)
    BY <2>1, <2>2 DEF PairAtMost, Total, Copied
  <2>4. ASSUME ~carried PROVE PairAtMost(from, <<reply[High], reply[Low]>>)
    <3>1. from[1] = reply[High] /\ from[2]["hi"] = reply[Low]["hi"]
          /\ from[2]["lo"] <= reply[Low]["lo"]
      BY <2>1, <2>2, <2>4 DEF Uncarried
    <3> QED BY <3>1 DEF PairAtMost, AtMost
  <2> QED BY <2>3, <2>4
<1> QED BY <1>1, Invariant, PTL

\* A write that no other hand meddles with lands.
THEOREM WritesLand == Spec => []WriteLands
<1>1. IInv => WriteLands
  <2> SUFFICES ASSUME IInv, NEW r \in Reg, Writing(r), ~meddled
               PROVE  AtMost(hold[r], word) /\ (part = "hi" => hold[r] = word)
    BY DEF WriteLands
  <2>1. word \in Word /\ word["hi"] \in Nat /\ word["lo"] \in Nat
    BY ByteTypes DEF IInv, TypeOK
  <2>2. CASE part = "hi"
    <3>1. r = Here - 1 /\ i > 0
      BY <2>2 DEF Writing, Reg, Here, IInv, TypeOK
    <3>2. hold[r] = word
      BY <2>2, <3>1 DEF IInv, Writes, Writing
    <3> QED BY <2>1, <3>2, AtMostOrder
  <2>3. CASE part # "hi"
    <3>1. hold[r] = [Zero EXCEPT !["hi"] = word["hi"]]
      BY <2>3 DEF IInv, Writes, Writing
    <3>2. hold[r]["hi"] = word["hi"] /\ hold[r]["lo"] = 0
      BY <3>1, ByteTypes DEF Zero, Part
    <3> QED BY <2>1, <2>3, <3>2 DEF AtMost
  <2> QED BY <2>2, <2>3
<1> QED BY <1>1, Invariant, PTL
=============================================================================
