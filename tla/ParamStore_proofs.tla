--------------------------- MODULE ParamStore_proofs ---------------------------
(***************************************************************************)
(* The invariants of ParamStore for every layout of the record: whatever   *)
(* the host writes and wherever restarts cut a save short, no half-word is *)
(* programmed twice, the page is the last record or a beginning of it, and *)
(* what a request made differ from it is owed a save.                      *)
(***************************************************************************)
EXTENDS ParamStore, TLAPS

LastReg == BaseNum + ExNum

\* The save that is being written: the record of the host's parameters with the flag
\* set; in the page, all up to next is written and all from there to last is erased.
Saving ==
  phase \in {"erase", "program"} =>
    /\ buf[0] = MAGIC
    /\ \A r \in Saved \ (Spare \cup behind) : buf[r] = regs[r]

Erasing == phase = "erase" => next = 0 /\ last = PageLen - 1

Programming ==
  phase = "program" =>
    /\ ~cut
    /\ last >= LastReg /\ next <= last + 1
    /\ \A i \in Record : stored[i] = buf[i]
    /\ \A i \in Record : i < next => page[i] = buf[i]
    /\ \A i \in Page : next <= i /\ i <= last => page[i] = ERASED

\* A registered board that runs has the flag in its flash.
RunsOnFlag == phase = "run" /\ reg_info => page[0] = MAGIC
FlagFirst == (\E i \in Record : page[i] # ERASED) => page[0] = MAGIC

IInv ==
  /\ TypeOK
  /\ Saving /\ Erasing /\ Programming
  /\ RunsOnFlag /\ FlagFirst
  /\ StoredWhole /\ CutIsPrefix /\ SaveOwed

\* The places of the record are places of the page.
LEMMA Places ==
  /\ LastReg \in Nat \ {0} /\ LastReg < PageLen
  /\ Record \subseteq Page /\ Record = 0 .. LastReg
  /\ Saved \subseteq Record /\ 0 \in Record
  /\ NullCell \in Cells
  /\ \A r \in Saved \cup {NullCell} : Cell(r) \in Cells
  /\ \A r \in Saved \ Spare : Cell(r) = r /\ r \in Cells
  /\ Cells \ {NullCell} \subseteq Record
  BY RecordAssumption
  DEF LastReg, Record, Page, Saved, NullCell, Cell, Cells

\* At start-up the page is erased.
LEMMA InitInv == Init => IInv
<1> SUFFICES ASSUME Init PROVE IInv
  OBVIOUS
<1> USE Places, RecordAssumption, ValueAssumption
<1>1. TypeOK
  <2>1. last \in Page /\ next \in 0 .. PageLen
    BY DEF Init, Page, LastReg
  <2>2. page \in [Page -> Value] /\ stored \in [Record -> Value]
    BY DEF Init
  <2>3. regs \in [Cells -> Value] /\ buf = page
    BY DEF Init
  <2> QED BY <2>1, <2>2, <2>3 DEF Init, TypeOK
<1>2. CutIsPrefix
  <2>1. 0 \in 0 .. BaseNum + ExNum + 1
    BY DEF LastReg
  <2>2. \A i \in Record : page[i] = IF i < 0 THEN stored[i] ELSE ERASED
    BY DEF Init, Record
  <2> QED BY <2>1, <2>2 DEF CutIsPrefix
<1>3. Saving /\ Erasing /\ Programming /\ RunsOnFlag /\ FlagFirst /\ StoredWhole /\ SaveOwed
  BY DEF Init, Saving, Erasing, Programming, RunsOnFlag, FlagFirst, StoredWhole, SaveOwed
<1> QED BY <1>1, <1>2, <1>3 DEF IInv

\* The record that StartWrite is given is in the types and carries the flag; starting to
\* write it keeps the invariant of the page.
LEMMA StartKeeps ==
  ASSUME NEW rec \in [Record -> Value], IInv, StartWrite(rec),
         phase \in {"off", "run"}
  PROVE  /\ phase' \in {"erase", "program"}
         /\ buf' \in [Page -> Value] /\ next' \in 0 .. PageLen /\ last' \in Page
         /\ stored' \in [Record -> Value] /\ cut' \in BOOLEAN /\ page' = page
         /\ \A i \in Record : buf'[i] = rec[i]
         /\ Erasing' /\ Programming' /\ FlagFirst' /\ StoredWhole' /\ CutIsPrefix'
         /\ behind' = {}
<1> USE Places, RecordAssumption, ValueAssumption
<1>0. page' = page /\ next' = 0 /\ behind' = {} /\ buf' = [i \in Page |-> IF i \in Record THEN rec[i] ELSE page[i]]
  BY DEF StartWrite
<1>1. buf' \in [Page -> Value] /\ \A i \in Record : buf'[i] = rec[i]
  BY <1>0 DEF IInv, TypeOK
<1>2. FlagFirst'
  BY <1>0 DEF IInv, FlagFirst
<1>3. CASE NeedsErase
  <2>1. phase' = "erase" /\ last' = PageLen - 1 /\ stored' = stored /\ cut' = cut
    BY <1>3 DEF StartWrite
  <2>2. last' \in Page /\ next' \in 0 .. PageLen
    BY <2>1, <1>0 DEF Page
  <2>3. StoredWhole'
    BY <1>0, <2>1 DEF IInv, StoredWhole
  <2>4. Erasing' /\ Programming' /\ CutIsPrefix'
    BY <1>0, <2>1 DEF IInv, Erasing, Programming, CutIsPrefix
  <2> QED BY <1>0, <1>1, <1>2, <2>1, <2>2, <2>3, <2>4 DEF IInv, TypeOK
<1>4. CASE ~NeedsErase
  <2>1. phase' = "program" /\ last' = BaseNum + ExNum /\ stored' = rec /\ cut' = FALSE
    BY <1>4 DEF StartWrite
  <2>2. last' \in Page /\ next' \in 0 .. PageLen /\ stored' \in [Record -> Value]
    BY <2>1, <1>0 DEF Page, LastReg
  <2>3. \A i \in Record : page[i] = ERASED
    BY <1>4 DEF NeedsErase
  <2>4. Programming'
    <3>1. \A i \in Page : 0 <= i /\ i <= last' => page'[i] = ERASED
      BY <1>0, <2>1, <2>3 DEF LastReg, Page
    <3> QED BY <1>0, <1>1, <2>1, <3>1 DEF Programming, LastReg
  <2>5. CutIsPrefix'
    <3>1. \A i \in Record : page'[i] = IF i < 0 THEN stored'[i] ELSE ERASED
      BY <1>0, <2>3 DEF LastReg
    <3>2. 0 \in 0 .. BaseNum + ExNum + 1
      BY DEF LastReg
    <3> QED BY <3>1, <3>2 DEF CutIsPrefix
  <2>6. Erasing' /\ StoredWhole'
    BY <2>1 DEF Erasing, StoredWhole
  <2> QED BY <1>0, <1>1, <1>2, <2>1, <2>2, <2>4, <2>5, <2>6
<1> QED BY <1>3, <1>4

-----------------------------------------------------------------------------
(* The flash controller.                                                   *)

\* An erase leaves nothing but erased half-words.
LEMMA EraseKeeps == IInv /\ Erase => IInv'
<1> SUFFICES ASSUME IInv, Erase PROVE IInv'
  OBVIOUS
<1> USE Places, RecordAssumption, ValueAssumption
<1>1. TypeOK'
  BY DEF IInv, Erase, TypeOK
<1>2. Saving'
  BY DEF IInv, Erase, Saving
<1>3. Erasing' /\ Programming'
  BY DEF IInv, Erase, Erasing, Programming, TypeOK, Page, LastReg
<1>4. CutIsPrefix'
  <2>1. \A i \in Record : page'[i] = IF i < 0 THEN stored'[i] ELSE ERASED
    BY DEF Erase, LastReg
  <2>2. 0 \in 0 .. BaseNum + ExNum + 1
    BY DEF LastReg
  <2> QED BY <2>1, <2>2 DEF CutIsPrefix
<1>5. RunsOnFlag' /\ FlagFirst' /\ StoredWhole' /\ SaveOwed'
  BY DEF Erase, RunsOnFlag, FlagFirst, StoredWhole, SaveOwed
<1> QED BY <1>1, <1>2, <1>3, <1>4, <1>5 DEF IInv

\* A half-word is programmed where the page is erased, so it is not refused.
LEMMA ProgramKeeps == IInv /\ Program => IInv'
<1> SUFFICES ASSUME IInv, Program PROVE IInv'
  OBVIOUS
<1> USE Places, RecordAssumption, ValueAssumption
<1>1. next \in Page /\ next \in Nat /\ last \in Page
  BY DEF IInv, TypeOK, Program, Page
<1>2. page[next] = ERASED
  BY <1>1 DEF IInv, Programming, Program
<1>3. page' = [page EXCEPT ![next] = buf[next]]
  BY <1>2 DEF Program, Programmed
<1>4. TypeOK'
  <2>1. page' \in [Page -> Value]
    BY <1>1, <1>3 DEF IInv, TypeOK
  <2>2. next' \in 0 .. PageLen
    BY <1>1 DEF Program, Page
  <2> QED BY <2>1, <2>2 DEF IInv, Program, TypeOK
<1>5. Saving' /\ Erasing'
  BY DEF IInv, Program, Saving, Erasing
<1>6. Programming'
  <2>1. \A i \in Record : i < next' => page'[i] = buf[i]
    BY <1>1, <1>3 DEF IInv, Programming, Program, TypeOK, LastReg
  <2>2. \A i \in Page : next' <= i /\ i <= last => page'[i] = ERASED
    BY <1>1, <1>3 DEF IInv, Programming, Program, TypeOK, Page
  <2>3. next' <= last + 1
    BY <1>1 DEF Program, Page
  <2> QED BY <2>1, <2>2, <2>3 DEF IInv, Programming, Program
<1>7. FlagFirst'
  <2>1. page'[0] = buf[0]
    BY <1>1, <1>3 DEF IInv, Programming, Program, TypeOK
  <2> QED BY <2>1 DEF IInv, Saving, Program, FlagFirst
<1>8. CutIsPrefix'
  <2>1. \A i \in Record : page'[i] = IF i < next + 1 THEN stored[i] ELSE ERASED
    BY <1>1, <1>3 DEF IInv, Programming, Program, TypeOK, Page, LastReg
  <2>2. CASE next + 1 \in 0 .. BaseNum + ExNum + 1
    BY <2>1, <2>2 DEF CutIsPrefix, Program
  <2>3. CASE next + 1 \notin 0 .. BaseNum + ExNum + 1
    <3>1. \A i \in Record : page'[i] = IF i < LastReg + 1 THEN stored[i] ELSE ERASED
      BY <1>1, <2>1, <2>3 DEF LastReg
    <3>2. LastReg + 1 \in 0 .. BaseNum + ExNum + 1
      BY DEF LastReg
    <3> QED BY <3>1, <3>2 DEF CutIsPrefix, Program, LastReg
  <2> QED BY <2>2, <2>3
<1>9. RunsOnFlag' /\ StoredWhole' /\ SaveOwed'
  BY DEF Program, RunsOnFlag, StoredWhole, SaveOwed
<1> QED BY <1>4, <1>5, <1>6, <1>7, <1>8, <1>9 DEF IInv

\* A save that is done has stored what the registers hold.
LEMMA DoneKeeps == IInv /\ Done => IInv'
<1> SUFFICES ASSUME IInv, Done PROVE IInv'
  OBVIOUS
<1> USE Places, RecordAssumption, ValueAssumption
<1>1. \A i \in Record : page[i] = buf[i] /\ stored[i] = buf[i]
  BY DEF IInv, TypeOK, Done, Programming, Page, LastReg
<1>2. TypeOK'
  BY DEF IInv, TypeOK, Done, store
<1>3. RunsOnFlag' /\ FlagFirst' /\ StoredWhole' /\ CutIsPrefix'
  BY <1>1 DEF IInv, Done, store, RunsOnFlag, FlagFirst, StoredWhole, CutIsPrefix, Saving
<1>4. Saving' /\ Erasing' /\ Programming'
  BY DEF Done, Saving, Erasing, Programming
<1>5. SaveOwed'
  <2>1. \A r \in Saved \ (Spare \cup behind) : regs'[r] = regs[r]
    BY DEF IInv, TypeOK, Done, NullCell, Saved
  <2> QED BY <1>1, <2>1 DEF IInv, Done, store, SaveOwed, Saving
<1> QED BY <1>2, <1>3, <1>4, <1>5 DEF IInv

-----------------------------------------------------------------------------
(* The saves.                                                              *)

\* A save of what the registers hold once the request has written them.
LEMMA SaveKeeps ==
  ASSUME IInv, phase = "run", NEW caller \in {"fc06", "fc16"},
         regs' \in [Cells -> Value], Save(caller)
  PROVE  IInv'
<1> USE Places, RecordAssumption, ValueAssumption
<1>1. CASE reg_info
  <2> DEFINE rec == [i \in Record |-> IF i = 0 THEN page[0] ELSE regs'[Cell(i)]]
  <2>1. StartWrite(rec) /\ request' = caller /\ data_change_flag' = FALSE
        /\ is_registered' = is_registered /\ reg_info' = reg_info
    BY <1>1 DEF Save
  <2>2. rec \in [Record -> Value]
    <3>1. ASSUME NEW i \in Record PROVE rec[i] \in Value
      <4>1. CASE i = 0
        BY <4>1 DEF IInv, TypeOK
      <4>2. CASE i # 0
        <5>1. i \in Saved
          BY <4>2 DEF Record, Saved
        <5> QED BY <4>2, <5>1
      <4> QED BY <4>1, <4>2
    <3> QED BY <3>1
  <2>3. /\ phase' \in {"erase", "program"}
        /\ buf' \in [Page -> Value] /\ next' \in 0 .. PageLen /\ last' \in Page
        /\ stored' \in [Record -> Value] /\ cut' \in BOOLEAN /\ page' = page
        /\ \A i \in Record : buf'[i] = rec[i]
        /\ Erasing' /\ Programming' /\ FlagFirst' /\ StoredWhole' /\ CutIsPrefix'
        /\ behind' = {}
    <3> HIDE DEF rec
    <3> QED BY <2>1, <2>2, StartKeeps
  <2>4. TypeOK'
    BY <2>1, <2>3 DEF IInv, TypeOK
  <2>5. Saving'
    <3>1. buf'[0] = page[0] /\ page[0] = MAGIC
      BY <1>1, <2>3 DEF IInv, RunsOnFlag
    <3>2. ASSUME NEW r \in Saved \ (Spare \cup behind') PROVE buf'[r] = regs'[r]
      <4>1. r \in Record /\ r # 0 /\ Cell(r) = r
        BY DEF Saved
      <4>2. rec[r] = regs'[r]
        BY <4>1
      <4> HIDE DEF rec
      <4> QED BY <2>3, <4>1, <4>2
    <3> QED BY <3>1, <3>2 DEF Saving
  <2>6. RunsOnFlag' /\ SaveOwed'
    BY <2>3 DEF RunsOnFlag, SaveOwed
  <2> QED BY <2>3, <2>4, <2>5, <2>6 DEF IInv
<1>2. CASE ~reg_info
  <2>1. /\ is_registered' = FALSE /\ data_change_flag' = (caller = "fc16")
        /\ UNCHANGED <<phase, request, page, buf, next, last, stored, cut, behind, reg_info>>
    BY <1>2 DEF Save, store
  <2>2. TypeOK'
    BY <2>1 DEF IInv, TypeOK
  <2>3. Saving' /\ Erasing' /\ Programming' /\ RunsOnFlag' /\ SaveOwed'
    BY <1>2, <2>1 DEF Saving, Erasing, Programming, RunsOnFlag, SaveOwed
  <2>4. FlagFirst' /\ StoredWhole' /\ CutIsPrefix'
    BY <2>1 DEF IInv, FlagFirst, StoredWhole, CutIsPrefix
  <2> QED BY <2>2, <2>3, <2>4 DEF IInv
<1> QED BY <1>1, <1>2

\* A start-up that writes nothing.
LEMMA BootKeeps == IInv /\ (BootUnregistered \/ BootLoad) => IInv'
<1> SUFFICES ASSUME IInv, BootUnregistered \/ BootLoad PROVE IInv'
  OBVIOUS
<1> USE Places, RecordAssumption, ValueAssumption
<1>1. phase' = "run" /\ UNCHANGED <<request, data_change_flag, reg_info, page, buf, next,
                                    last, stored, cut, behind>>
      /\ is_registered' \in BOOLEAN /\ phase # "program"
  BY DEF BootUnregistered, BootLoad, store
<1>2. regs' \in [Cells -> Value]
  <2>1. CASE BootUnregistered
    BY <2>1 DEF BootUnregistered, Zeroed
  <2>2. CASE BootLoad
    BY <2>2 DEF BootLoad, IInv, TypeOK
  <2> QED BY <2>1, <2>2
<1>3. TypeOK'
  BY <1>1, <1>2 DEF IInv, TypeOK
<1>4. Saving' /\ Erasing' /\ Programming'
  BY <1>1 DEF Saving, Erasing, Programming
<1>5. FlagFirst' /\ StoredWhole' /\ CutIsPrefix'
  BY <1>1 DEF IInv, FlagFirst, StoredWhole, CutIsPrefix
<1>6. RunsOnFlag' /\ SaveOwed'
  <2>1. CASE BootUnregistered
    BY <1>1, <2>1 DEF BootUnregistered, RunsOnFlag, SaveOwed
  <2>2. CASE BootLoad
    <3>1. \A r \in Saved \ (Spare \cup behind) : regs'[r] = page[r]
      BY <2>2 DEF BootLoad, NullCell, Saved
    <3> QED BY <1>1, <2>2, <3>1 DEF BootLoad, RunsOnFlag, SaveOwed
  <2> QED BY <2>1, <2>2
<1> QED BY <1>3, <1>4, <1>5, <1>6 DEF IInv

\* check_para_flag writes the defaults with its own flag.
LEMMA DefaultsKeep == IInv /\ BootDefaults => IInv'
<1> SUFFICES ASSUME IInv, BootDefaults PROVE IInv'
  OBVIOUS
<1> USE Places, RecordAssumption, ValueAssumption
<1> DEFINE rec == [i \in Record |-> IF i = 0 THEN MAGIC ELSE Defaults[Cell(i)]]
<1>1. StartWrite(rec) /\ regs' = Defaults /\ request' = "boot" /\ phase = "off"
      /\ UNCHANGED <<data_change_flag, is_registered, reg_info>>
  BY DEF BootDefaults
<1>2. Defaults \in [Cells -> Value]
  BY DEF Defaults, Zeroed
<1>3. rec \in [Record -> Value]
  <2>1. ASSUME NEW i \in Record PROVE rec[i] \in Value
    <3>1. CASE i = 0
      BY <3>1
    <3>2. CASE i # 0
      <4>1. i \in Saved
        BY <3>2 DEF Record, Saved
      <4> QED BY <1>2, <3>2, <4>1
    <3> QED BY <3>1, <3>2
  <2> QED BY <2>1
<1>4. /\ phase' \in {"erase", "program"}
      /\ buf' \in [Page -> Value] /\ next' \in 0 .. PageLen /\ last' \in Page
      /\ stored' \in [Record -> Value] /\ cut' \in BOOLEAN /\ page' = page
      /\ \A i \in Record : buf'[i] = rec[i]
      /\ Erasing' /\ Programming' /\ FlagFirst' /\ StoredWhole' /\ CutIsPrefix'
      /\ behind' = {}
  <2> HIDE DEF rec
  <2> QED BY <1>1, <1>3, StartKeeps
<1>5. TypeOK'
  BY <1>1, <1>2, <1>4 DEF IInv, TypeOK
<1>6. Saving'
  <2>1. buf'[0] = MAGIC
    BY <1>4
  <2>2. ASSUME NEW r \in Saved \ (Spare \cup behind') PROVE buf'[r] = regs'[r]
    <3>1. r \in Record /\ r # 0 /\ Cell(r) = r
      BY DEF Saved
    <3>2. rec[r] = regs'[r]
      BY <1>1, <3>1
    <3> HIDE DEF rec
    <3> QED BY <1>4, <3>1, <3>2
  <2> QED BY <2>1, <2>2 DEF Saving
<1>7. RunsOnFlag' /\ SaveOwed'
  BY <1>4 DEF RunsOnFlag, SaveOwed
<1> QED BY <1>4, <1>5, <1>6, <1>7 DEF IInv

-----------------------------------------------------------------------------
(* The requests and the surroundings.                                      *)

\* A request 06 saves; one for a register outside the record changes none of it.
LEMMA Fc06Keeps ==
  ASSUME IInv, NEW r \in Saved \cup {NullCell}, NEW v \in Value, Fc06(r, v) \/ Fc06Other(v)
  PROVE  IInv'
<1> USE Places, RecordAssumption, ValueAssumption
<1>1. CASE Fc06(r, v)
  <2>1. regs' \in [Cells -> Value]
    BY <1>1 DEF Fc06, IInv, TypeOK
  <2>2. phase = "run" /\ Save("fc06")
    BY <1>1 DEF Fc06
  <2> QED BY <2>1, <2>2, SaveKeeps
<1>2. CASE Fc06Other(v)
  <2>1. /\ phase = "run" /\ regs' \in [Cells -> Value]
        /\ \A q \in Saved \ Spare : regs'[q] = regs[q]
        /\ UNCHANGED <<phase, request, data_change_flag, is_registered, reg_info,
                       page, buf, next, last, stored, cut, behind>>
    BY <1>2 DEF Fc06Other, IInv, TypeOK, store, NullCell, Saved
  <2>2. TypeOK'
    BY <2>1 DEF IInv, TypeOK
  <2>3. Saving' /\ Erasing' /\ Programming' /\ RunsOnFlag' /\ FlagFirst'
    BY <2>1 DEF IInv, Saving, Erasing, Programming, RunsOnFlag, FlagFirst
  <2>4. StoredWhole' /\ CutIsPrefix' /\ SaveOwed'
    BY <2>1 DEF IInv, StoredWhole, CutIsPrefix, SaveOwed
  <2> QED BY <2>2, <2>3, <2>4 DEF IInv
<1> QED BY <1>1, <1>2

\* A request 16 saves or sets the flag.
LEMMA Fc16Keeps ==
  ASSUME IInv, NEW rs, NEW edge, NEW v \in Value, Fc16(rs, edge, v)
  PROVE  IInv'
<1> USE Places, RecordAssumption, ValueAssumption
<1>1. regs' \in [Cells -> Value] /\ phase = "run"
  BY DEF Fc16, IInv, TypeOK
<1>2. CASE data_change_flag \/ rs \cap Base # {} \/ edge
  <2>1. Save("fc16")
    BY <1>2 DEF Fc16
  <2> QED BY <1>1, <2>1, SaveKeeps
<1>3. CASE ~(data_change_flag \/ rs \cap Base # {} \/ edge)
  <2>1. /\ data_change_flag' = TRUE
        /\ UNCHANGED <<phase, request, is_registered, reg_info,
                       page, buf, next, last, stored, cut, behind>>
    BY <1>3 DEF Fc16, store
  <2>2. TypeOK'
    BY <1>1, <2>1 DEF IInv, TypeOK
  <2>3. Saving' /\ Erasing' /\ Programming' /\ RunsOnFlag' /\ FlagFirst'
    BY <1>1, <2>1 DEF IInv, Saving, Erasing, Programming, RunsOnFlag, FlagFirst
  <2>4. StoredWhole' /\ CutIsPrefix' /\ SaveOwed'
    BY <2>1 DEF IInv, StoredWhole, CutIsPrefix, SaveOwed
  <2> QED BY <2>2, <2>3, <2>4 DEF IInv
<1> QED BY <1>2, <1>3

\* What the detector or the console changes is noted as changed behind the store's back.
LEMMA BehindKeeps ==
  ASSUME IInv, NEW r \in Live \cup Watch, NEW v \in Value, Behind(r, v)
  PROVE  IInv'
<1> USE Places, RecordAssumption, ValueAssumption
<1>1. /\ regs' \in [Cells -> Value] /\ behind' = behind \cup {r}
      /\ \A q \in Saved \ (Spare \cup behind') : regs'[q] = regs[q]
      /\ UNCHANGED <<phase, request, data_change_flag, is_registered, reg_info,
                     page, buf, next, last, stored, cut>>
  BY DEF Behind, IInv, TypeOK, flash
<1>2. TypeOK'
  BY <1>1 DEF IInv, TypeOK
<1>3. Saving' /\ Erasing' /\ Programming' /\ RunsOnFlag' /\ FlagFirst'
  BY <1>1 DEF IInv, Saving, Erasing, Programming, RunsOnFlag, FlagFirst
<1>4. StoredWhole' /\ CutIsPrefix' /\ SaveOwed'
  BY <1>1 DEF IInv, StoredWhole, CutIsPrefix, SaveOwed
<1> QED BY <1>2, <1>3, <1>4 DEF IInv

\* A restart leaves the page as it is and notes whether its record is complete.
LEMMA RestartKeeps == IInv /\ Restart => IInv'
<1> SUFFICES ASSUME IInv, Restart PROVE IInv'
  OBVIOUS
<1> USE Places, RecordAssumption, ValueAssumption
<1>1. phase' = "off" /\ page' = page /\ stored' = stored
  BY DEF Restart
<1>2. TypeOK'
  <2>1. next' \in 0 .. PageLen /\ last' \in Page
    BY DEF Restart, Page, LastReg
  <2>2. regs' \in [Cells -> Value]
    BY DEF Restart
  <2>3. cut' \in BOOLEAN
    BY DEF Restart
  <2> QED BY <1>1, <2>1, <2>2, <2>3 DEF IInv, TypeOK, Restart
<1>3. Saving' /\ Erasing' /\ Programming' /\ RunsOnFlag' /\ SaveOwed'
  BY <1>1 DEF Saving, Erasing, Programming, RunsOnFlag, SaveOwed
<1>4. FlagFirst' /\ CutIsPrefix'
  BY <1>1 DEF IInv, FlagFirst, CutIsPrefix
<1>5. StoredWhole'
  <2>1. CASE phase = "program" /\ ~cut'
    <3>1. ~(next <= LastReg)
      BY <2>1 DEF Restart, LastReg
    <3>2. \A i \in Record : page[i] = buf[i] /\ stored[i] = buf[i]
      BY <2>1, <3>1 DEF IInv, TypeOK, Programming
    <3> QED BY <1>1, <3>2 DEF StoredWhole
  <2>2. CASE phase # "program" /\ ~cut'
    BY <1>1, <2>2 DEF IInv, StoredWhole, Restart
  <2>3. CASE cut'
    BY <2>3 DEF StoredWhole
  <2> QED BY <2>1, <2>2, <2>3
<1> QED BY <1>2, <1>3, <1>4, <1>5 DEF IInv

\* The board is off while it is registered.
LEMMA RegisterKeeps == IInv /\ Register => IInv'
<1> SUFFICES ASSUME IInv, Register PROVE IInv'
  OBVIOUS
<1>1. /\ phase = "off" /\ reg_info' = TRUE
      /\ UNCHANGED <<phase, request, regs, data_change_flag, is_registered,
                     page, buf, next, last, stored, cut, behind>>
  BY DEF Register, store
<1> QED BY <1>1 DEF IInv, TypeOK, Saving, Erasing, Programming, RunsOnFlag, FlagFirst,
                   StoredWhole, CutIsPrefix, SaveOwed

-----------------------------------------------------------------------------
(* The theorems.                                                           *)

\* Every step keeps the inductive invariant.
LEMMA NextInv == IInv /\ [Next]_vars => IInv'
<1> SUFFICES ASSUME IInv, [Next]_vars PROVE IInv'
  OBVIOUS
<1>1. CASE Erase
  BY <1>1, EraseKeeps
<1>2. CASE Program
  BY <1>2, ProgramKeeps
<1>3. CASE Done
  BY <1>3, DoneKeeps
<1>4. CASE BootUnregistered \/ BootLoad
  BY <1>4, BootKeeps
<1>5. CASE BootDefaults
  BY <1>5, DefaultsKeep
<1>6. ASSUME NEW v \in Written,
             \/ \E r \in Saved \cup {NullCell} : Fc06(r, v)
             \/ Fc06Other(v)
      PROVE  IInv'
  BY <1>6, Fc06Keeps, ValueAssumption
<1>7. ASSUME NEW v \in Written,
             \/ \E lo, hi \in Base : Fc16(lo .. hi, FALSE, v)
             \/ \E lo, hi \in Ex : Fc16(lo .. hi, FALSE, v)
             \/ \E lo \in Base : Fc16(lo .. BaseNum, TRUE, v)
             \/ Fc16({NullCell}, FALSE, v)
      PROVE  IInv'
  BY <1>7, Fc16Keeps, ValueAssumption
<1>8. ASSUME NEW v \in Written,
             \/ \E r \in Live : Measure(r, v)
             \/ \E r \in Watch : SetWatch(r, v)
      PROVE  IInv'
  BY <1>8, BehindKeeps, ValueAssumption DEF Measure, SetWatch
<1>9. CASE Restart
  BY <1>9, RestartKeeps
<1>10. CASE Register
  BY <1>10, RegisterKeeps
<1>11. CASE UNCHANGED vars
  BY <1>11 DEF vars, IInv, TypeOK, Saving, Erasing, Programming, RunsOnFlag, FlagFirst,
               StoredWhole, CutIsPrefix, SaveOwed
<1> QED BY <1>1, <1>2, <1>3, <1>4, <1>5, <1>6, <1>7, <1>8, <1>9, <1>10, <1>11 DEF Next

\* The inductive invariant of the parameter store.
THEOREM StoreInvariant == Spec => []IInv
<1>1. Init => IInv
  BY InitInv
<1>2. IInv /\ [Next]_vars => IInv'
  BY NextInv
<1> QED BY <1>1, <1>2, PTL DEF Spec

\* Type correctness: no address of STMFLASH_Write leaves the sector.
THEOREM StoreTypeCorrect == Spec => []TypeOK
<1>1. IInv => TypeOK
  BY DEF IInv
<1> QED BY <1>1, StoreInvariant, PTL

\* No half-word is programmed that is not erased, wherever earlier saves were cut.
THEOREM ProgramsOnlyErased == Spec => []ProgramsErased
<1>1. IInv => ProgramsErased
  <2> SUFFICES ASSUME IInv, phase = "program", next <= last PROVE page[next] = ERASED
    BY DEF ProgramsErased
  <2>1. next \in Page
    BY RecordAssumption DEF IInv, TypeOK, Page
  <2> QED BY <2>1, RecordAssumption DEF IInv, TypeOK, Programming, Page
<1> QED BY <1>1, StoreInvariant, PTL

\* Unless a restart cut it, the page is the last record that was written.
THEOREM RecordIsWhole == Spec => []StoredWhole
<1>1. IInv => StoredWhole
  BY DEF IInv
<1> QED BY <1>1, StoreInvariant, PTL

\* If a restart cut it, the page is a beginning of the last record with erased registers
\* behind it.
THEOREM PageIsARecord == Spec => []CutIsPrefix
<1>1. IInv => CutIsPrefix
  BY DEF IInv
<1> QED BY <1>1, StoreInvariant, PTL

\* The flag is in every record that is written and reaches the page before its registers.
THEOREM FlagComesFirst == Spec => []FlagWritten
<1>1. IInv => FlagWritten
  BY DEF IInv, Saving, FlagFirst, FlagWritten
<1> QED BY <1>1, StoreInvariant, PTL

\* Between two saves of a registered board with no save owed, every parameter is in the
\* flash but those that something other than a request has changed since the last record.
THEOREM DifferenceIsOwed == Spec => []SaveOwed
<1>1. IInv => SaveOwed
  BY DEF IInv
<1> QED BY <1>1, StoreInvariant, PTL
-----------------------------------------------------------------------------
(* The refinement.                                                         *)

\* The abstract state as the page has it.
Mapped(n) == [i \in Record |-> IF i < n THEN stored[i] ELSE ERASED]
IsWriting == phase = "program" /\ next <= LastReg
SavedPage == [i \in Record |-> page[i]]
State == IF IsWriting THEN "writing" ELSE IF cut THEN "cut" ELSE "whole"

\* What the instance's definitions are in these terms.
LEMMA MappedDefinitions ==
  /\ Parameters!Place = Record
  /\ Parameters!vars = <<SavedPage, stored, State>>
  /\ \A n : Parameters!Beginning(stored, n) = Mapped(n)
  /\ \A n : Parameters!Beginning(stored', n) = Mapped(n)'
  BY DEF Parameters!Place, Parameters!vars, Parameters!Beginning, Record, Mapped, SavedPage,
         State, IsWriting, LastReg

\* A step that leaves the record alone and neither starts nor stops one.
LEMMA Unmoved ==
  ASSUME SavedPage' = SavedPage, UNCHANGED <<stored, cut>>, IsWriting' <=> IsWriting
  PROVE  UNCHANGED Parameters!vars
<1>1. State' = State
  BY DEF State
<1>2. Parameters!vars' = <<SavedPage', stored', State'>>
  BY MappedDefinitions DEF Parameters!vars, SavedPage, State, IsWriting, LastReg
<1> QED BY <1>1, <1>2, MappedDefinitions

LEMMA Stutters ==
  ASSUME UNCHANGED <<page, stored, cut>>, IsWriting' <=> IsWriting
  PROVE  UNCHANGED Parameters!vars
  BY Unmoved DEF SavedPage

\* A record is begun on an erased page.
LEMMA Replaces ==
  ASSUME IInv', ~IsWriting, IsWriting', \A i \in Record : page'[i] = ERASED
  PROVE  Parameters!Replace
<1> USE Places
<1>1. stored' \in [Record -> Value]
  BY DEF IInv, TypeOK
<1>2. stored'[0] = MAGIC
  BY DEF IInv, Saving, Programming, IsWriting
<1>3. SavedPage' = Mapped(0)'
  BY DEF SavedPage, Mapped, Record
<1>4. State # "writing" /\ State' = "writing"
  BY DEF State
<1> QED BY <1>1, <1>2, <1>3, <1>4, MappedDefinitions
        DEF Parameters!Replace, SavedPage, State, IsWriting, LastReg

\* Starting to write begins a record or, where the page is erased first, changes nothing.
LEMMA StartMaps ==
  ASSUME NEW rec, IInv, IInv', StartWrite(rec), phase \in {"off", "run"}
  PROVE  Parameters!Replace \/ UNCHANGED Parameters!vars
<1> USE Places
<1>1. ~IsWriting /\ page' = page
  BY DEF IsWriting, StartWrite
<1>2. CASE NeedsErase
  <2>1. UNCHANGED <<page, stored, cut>> /\ ~IsWriting'
    BY <1>2 DEF StartWrite, IsWriting
  <2> QED BY <1>1, <2>1, Stutters
<1>3. CASE ~NeedsErase
  <2>1. IsWriting'
    BY <1>3 DEF StartWrite, IsWriting
  <2>2. \A i \in Record : page'[i] = ERASED
    BY <1>1, <1>3 DEF NeedsErase
  <2> QED BY <1>1, <2>1, <2>2, Replaces
<1> QED BY <1>2, <1>3

\* A half-word of the record is the next value of it; one behind it is nothing.
LEMMA ProgramMaps ==
  ASSUME IInv, Program
  PROVE  Parameters!Put \/ UNCHANGED Parameters!vars
<1> USE Places, RecordAssumption
<1>1. next \in Nat /\ next <= last /\ last \in Page /\ page[next] = ERASED /\ ~cut
  BY DEF Program, IInv, TypeOK, Programming, Page
<1>2. /\ page' = [page EXCEPT ![next] = buf[next]] /\ next' = next + 1
      /\ UNCHANGED <<phase, stored, cut>> /\ phase = "program"
  BY <1>1 DEF Program, Programmed
<1>3. page \in [Page -> Value] /\ stored \in [Record -> Value]
  BY DEF IInv, TypeOK
<1>4. CASE next <= LastReg
  <2>1. next \in Record /\ IsWriting
    BY <1>1, <1>2, <1>4 DEF IsWriting
  <2>2. \A i \in Record : page[i] = IF i < next THEN stored[i] ELSE ERASED
    BY <1>1, <1>2, <1>4 DEF IInv, Programming, Page, Record
  <2>3. SavedPage = Mapped(next)
    BY <2>2 DEF SavedPage, Mapped
  <2>4. \A i \in Record : page'[i] = IF i < next + 1 THEN stored[i] ELSE ERASED
    BY <1>1, <1>2, <1>3, <2>1, <2>2 DEF IInv, Programming, Record
  <2>5. SavedPage' = Mapped(next + 1)
    BY <1>2, <2>4 DEF SavedPage, Mapped
  <2>6. State = "writing" /\ State' = IF next = LastReg THEN "whole" ELSE "writing"
    BY <1>1, <1>2, <1>4, <2>1 DEF State, IsWriting
  <2> QED BY <1>2, <2>1, <2>3, <2>5, <2>6, MappedDefinitions
          DEF Parameters!Put, SavedPage, State, IsWriting, LastReg
<1>5. CASE ~(next <= LastReg)
  <2>1. ~IsWriting /\ ~IsWriting'
    BY <1>1, <1>2, <1>5 DEF IsWriting
  <2>2. SavedPage' = SavedPage
    BY <1>1, <1>2, <1>3, <1>5 DEF SavedPage
  <2> QED BY <1>2, <2>1, <2>2, Unmoved
<1> QED BY <1>4, <1>5

\* A restart before the last value stops the record.
LEMMA RestartMaps ==
  ASSUME IInv, Restart
  PROVE  Parameters!Stop \/ UNCHANGED Parameters!vars
<1>1. UNCHANGED <<page, stored>> /\ ~IsWriting' /\ cut' = (cut \/ IsWriting)
      /\ cut \in BOOLEAN
  BY DEF Restart, IsWriting, LastReg, IInv, TypeOK
<1>2. CASE IsWriting
  BY <1>1, <1>2, MappedDefinitions
  DEF Parameters!Stop, SavedPage, State, IsWriting, LastReg
<1>3. CASE ~IsWriting
  BY <1>1, <1>3, Stutters
<1> QED BY <1>2, <1>3

\* A save starts to write, or on a board that is not registered writes nothing.
LEMMA SaveMaps ==
  ASSUME NEW caller, IInv, IInv', phase = "run", Save(caller)
  PROVE  Parameters!Replace \/ UNCHANGED Parameters!vars
<1>1. CASE reg_info
  BY <1>1, StartMaps DEF Save
<1>2. CASE ~reg_info
  BY <1>2, Stutters DEF Save, store, IsWriting
<1> QED BY <1>1, <1>2

\* Every step is one of the abstract specification or changes nothing of it.
LEMMA StepMaps ==
  ASSUME IInv, IInv', [Next]_vars
  PROVE  [Parameters!Next]_(Parameters!vars)
<1> USE DEF Parameters!Next
<1>1. CASE Erase
  <2>1. ~IsWriting /\ IsWriting' /\ \A i \in Record : page'[i] = ERASED
    BY <1>1, Places DEF IInv, Erasing, Erase, IsWriting
  <2> QED BY <2>1, Replaces
<1>2. CASE Program
  BY <1>2, ProgramMaps
<1>3. CASE Done
  <2>1. ~IsWriting /\ ~IsWriting'
    BY <1>3, Places DEF IInv, TypeOK, Programming, Done, IsWriting, Page, LastReg
  <2> QED BY <1>3, <2>1, Stutters DEF Done, store
<1>4. CASE BootUnregistered \/ BootLoad \/ Register
  BY <1>4, Stutters DEF BootUnregistered, BootLoad, Register, store, IsWriting
<1>5. CASE BootDefaults
  BY <1>5, StartMaps DEF BootDefaults
<1>6. ASSUME NEW v, \/ \E r \in Saved \cup {NullCell} : Fc06(r, v)
                    \/ Fc06Other(v)
      PROVE  [Parameters!Next]_(Parameters!vars)
  <2>1. CASE \E r \in Saved \cup {NullCell} : Fc06(r, v)
    BY <2>1, SaveMaps DEF Fc06
  <2>2. CASE Fc06Other(v)
    BY <2>2, Stutters DEF Fc06Other, store, IsWriting
  <2> QED BY <1>6, <2>1, <2>2
<1>7. ASSUME NEW v, NEW rs, NEW edge, Fc16(rs, edge, v)
      PROVE  [Parameters!Next]_(Parameters!vars)
  <2>1. CASE data_change_flag \/ rs \cap Base # {} \/ edge
    BY <1>7, <2>1, SaveMaps DEF Fc16
  <2>2. CASE ~(data_change_flag \/ rs \cap Base # {} \/ edge)
    BY <1>7, <2>2, Stutters DEF Fc16, store, IsWriting
  <2> QED BY <2>1, <2>2
<1>8. ASSUME NEW v, NEW r, Measure(r, v) \/ SetWatch(r, v)
      PROVE  [Parameters!Next]_(Parameters!vars)
  BY <1>8, Stutters DEF Measure, SetWatch, Behind, flash, IsWriting
<1>9. CASE Restart
  BY <1>9, RestartMaps
<1>10. CASE UNCHANGED vars
  BY <1>10, Stutters DEF vars, IsWriting
<1> QED BY <1>1, <1>2, <1>3, <1>4, <1>5, <1>6, <1>7, <1>8, <1>9, <1>10 DEF Next

\* The page keeps to SavedParameters, for every layout of the record.
THEOREM StoreImplements == Spec => SavesParameters
<1>1. Init => Parameters!Init
  <2> SUFFICES ASSUME Init PROVE Parameters!Init
    OBVIOUS
  <2>1. SavedPage = stored /\ State = "whole"
    BY Places DEF Init, SavedPage, State, IsWriting
  <2> QED BY <2>1 DEF Init, Parameters!Init, Parameters!Place, SavedPage, State, IsWriting,
                      LastReg, Record
<1>2. IInv /\ IInv' /\ [Next]_vars => [Parameters!Next]_(Parameters!vars)
  BY StepMaps
<1> QED BY <1>1, <1>2, StoreInvariant, PTL DEF Spec, SavesParameters, Parameters!Spec
=============================================================================
