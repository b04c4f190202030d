------------------------------ MODULE ParamStore ------------------------------
(***************************************************************************)
(* The parameters that survive a restart: the holding registers 30..99 and *)
(* 512..543, which save_para copies to a page of the flash behind a flag   *)
(* and reads back when the board starts, and the write requests 06 and 16  *)
(* that change them.  A restart (power, or the reset command that io_task  *)
(* runs above the Modbus task) may come between any two operations of the  *)
(* flash controller.                                                       *)
(*                                                                         *)
(* A register of the record is named by its place in it: 1..BaseNum are    *)
(* the registers from 30 on, the ExNum after them those from 512 on.  All  *)
(* registers nothing is mapped to share the cell Modbus_HoldReg_NULL.      *)
(*                                                                         *)
(* Abstracted: half-words are members of Value; one value is written to    *)
(* all registers of a request 16; the registers outside the record are     *)
(* one, unmapped.  An erase or a half-word, once started, completes.  The  *)
(* two malloc of save_para are the only ones of the program and never fail.*)
(***************************************************************************)
EXTENDS Naturals

CONSTANTS
  BaseNum,     \* MODBUS_SAVE_DATA_NUM
  ExNum,       \* MODBUS_SAVE_DATA_NUM_EX
  PageLen,     \* half-words of a flash sector
  Spare,       \* the registers of the record nothing is mapped to
  Live,        \* those the detector changes while it runs
  Watch,       \* those a console command changes: set_watch_ch
  Factory,     \* those check_para_flag gives a value: STD_V_OFFSET and others
  FactoryValue,\* that value
  Value,       \* the half-words considered
  Written,     \* those the host writes and the detector measures
  MAGIC,       \* PARA_MAGIC_NUM
  ERASED,      \* what an erased half-word reads: 0xFFFF
  NullValue    \* the 999 of Modbus_HoldReg_NULL

Saved == 1 .. BaseNum + ExNum
Base == 1 .. BaseNum
Ex == BaseNum + 1 .. BaseNum + ExNum
Record == 0 .. BaseNum + ExNum    \* s_para_data_file: para_flag and the registers
Page == 0 .. PageLen - 1

\* The variable behind a register: its own, or Modbus_HoldReg_NULL.
NullCell == 0
Cell(r) == IF r \in Saved \ Spare THEN r ELSE NullCell
Cells == (Saved \ Spare) \cup {NullCell}

ASSUME RecordAssumption ==
  /\ BaseNum \in Nat \ {0} /\ ExNum \in Nat
  /\ PageLen \in Nat /\ BaseNum + ExNum < PageLen
  /\ Spare \subseteq Saved
  /\ Live \subseteq Saved \ Spare /\ Watch \subseteq Saved \ Spare
  /\ Factory \subseteq Saved \ Spare

ASSUME ValueAssumption ==
  /\ {0, FactoryValue, MAGIC, ERASED, NullValue} \subseteq Value
  /\ Written \subseteq Value
  /\ MAGIC # ERASED

VARIABLES
  phase,            \* "off", "run", or what the flash controller does next
  request,          \* the caller of the save that runs
  regs,             \* the cells of the registers
  data_change_flag,
  is_registered,    \* my_env.is_registered
  reg_info,         \* the registration page holds the hash of this chip
  page,             \* the flash page of the parameters
  buf, next, last,  \* what is being programmed, from where, up to where
  stored,           \* history: the record the page was last written with
  cut,              \* history: a restart came before its last half-word
  behind            \* history: the registers that something other than a request has
                    \* changed since the last record was made

flash == <<page, buf, next, last, stored, cut>>
store == <<page, buf, next, last, stored, cut, behind>>
vars == <<phase, request, regs, data_change_flag, is_registered, reg_info,
          page, buf, next, last, stored, cut, behind>>

Init ==
  /\ phase = "off" /\ request = "none"
  /\ regs = [c \in Cells |-> 0]
  /\ data_change_flag = FALSE
  /\ is_registered = FALSE /\ reg_info = FALSE
  /\ page = [i \in Page |-> ERASED]
  /\ buf = page /\ next = 0 /\ last = 0
  /\ stored = [i \in Record |-> ERASED]
  /\ cut = FALSE /\ behind = {}

-----------------------------------------------------------------------------
(* STMFLASH_Write.                                                         *)

\* Plausible bug: the check for old data starts behind the flag.
NeedsEraseAfterFlag == \E i \in Record \ {0} : page[i] # ERASED

NeedsErase == \E i \in Record : page[i] # ERASED

\* The old sector with the record in it is written if it must be erased first, the
\* record alone if not.
StartWrite(rec) ==
  /\ buf' = [i \in Page |-> IF i \in Record THEN rec[i] ELSE page[i]]
  /\ next' = 0 /\ behind' = {}
  /\ IF NeedsErase
     THEN /\ phase' = "erase" /\ last' = PageLen - 1
          /\ UNCHANGED <<stored, cut>>
     ELSE /\ phase' = "program" /\ last' = BaseNum + ExNum
          /\ stored' = rec /\ cut' = FALSE
  /\ UNCHANGED page

\* Plausible bug: nothing is erased.
EraseNothing ==
  /\ phase = "erase"
  /\ phase' = "program"
  /\ stored' = [i \in Record |-> buf[i]] /\ cut' = FALSE
  /\ UNCHANGED <<request, regs, data_change_flag, is_registered, reg_info,
                 page, buf, next, last, behind>>

Erase ==
  /\ phase = "erase"
  /\ page' = [i \in Page |-> ERASED]
  /\ phase' = "program"
  /\ stored' = [i \in Record |-> buf[i]] /\ cut' = FALSE
  /\ UNCHANGED <<request, regs, data_change_flag, is_registered, reg_info,
                 buf, next, last, behind>>

\* The controller refuses a half-word that is not erased, unless it becomes zero.
Programmed(old, new) == IF old = ERASED \/ new = 0 THEN new ELSE old

\* Plausible bug: a byte address advanced in half-words.
ProgramTwice ==
  /\ phase = "program" /\ next <= last
  /\ page' = [page EXCEPT ![next] = Programmed(@, buf[next])]
  /\ next' = next + 2
  /\ UNCHANGED <<phase, request, regs, data_change_flag, is_registered, reg_info,
                 buf, last, stored, cut, behind>>

Program ==
  /\ phase = "program" /\ next <= last
  /\ page' = [page EXCEPT ![next] = Programmed(@, buf[next])]
  /\ next' = next + 1
  /\ UNCHANGED <<phase, request, regs, data_change_flag, is_registered, reg_info,
                 buf, last, stored, cut, behind>>

-----------------------------------------------------------------------------
(* save_para.                                                              *)

\* The end of a save, and of the request that asked for it: 16 sets the flag again.
\* At start-up the record just written is copied back to the registers it came from.
Done ==
  /\ phase = "program" /\ next > last
  /\ phase' = "run" /\ request' = "none"
  /\ is_registered' = TRUE
  /\ data_change_flag' = (request = "fc16")
  /\ regs' = IF request = "boot" THEN [regs EXCEPT ![NullCell] = NullValue] ELSE regs
  /\ UNCHANGED <<reg_info, store>>

\* save_para(1) with the flag set; the flag of the record is the one in the flash.
Save(caller) ==
  /\ IF reg_info
     THEN /\ StartWrite([i \in Record |-> IF i = 0 THEN page[0] ELSE regs'[Cell(i)]])
          /\ request' = caller
          /\ data_change_flag' = FALSE
          /\ UNCHANGED is_registered
     ELSE /\ is_registered' = FALSE
          /\ data_change_flag' = (caller = "fc16")
          /\ UNCHANGED <<phase, request, store>>
  /\ UNCHANGED reg_info

\* The cells when Modbus_RegMap calls save_para(0), and check_para_flag's values.
Zeroed == [c \in Cells |-> IF c = NullCell THEN NullValue ELSE 0]
Defaults == [c \in Cells |-> IF c \in Factory THEN FactoryValue ELSE Zeroed[c]]

BootUnregistered ==
  /\ phase = "off" /\ ~reg_info
  /\ phase' = "run" /\ is_registered' = FALSE
  /\ regs' = Zeroed
  /\ UNCHANGED <<request, data_change_flag, reg_info, store>>

\* Plausible bug: the flag is not looked at.
BootLoadAlways ==
  /\ phase = "off" /\ reg_info
  /\ phase' = "run" /\ is_registered' = TRUE
  /\ regs' = [c \in Cells |-> IF c = NullCell THEN NullValue ELSE page[c]]
  /\ UNCHANGED <<request, data_change_flag, reg_info, store>>

BootLoad ==
  /\ phase = "off" /\ reg_info /\ page[0] = MAGIC
  /\ phase' = "run" /\ is_registered' = TRUE
  /\ regs' = [c \in Cells |-> IF c = NullCell THEN NullValue ELSE page[c]]
  /\ UNCHANGED <<request, data_change_flag, reg_info, store>>

\* check_para_flag writes a record with its own flag.
BootDefaults ==
  /\ phase = "off" /\ reg_info /\ page[0] # MAGIC
  /\ regs' = Defaults
  /\ request' = "boot"
  /\ StartWrite([i \in Record |-> IF i = 0 THEN MAGIC ELSE Defaults[Cell(i)]])
  /\ UNCHANGED <<data_change_flag, is_registered, reg_info>>

-----------------------------------------------------------------------------
(* The requests.  Only a board that idles takes one.                       *)

\* Modbus_06_Handle: the saved registers and the one after each of the two ranges.
Fc06(r, v) ==
  /\ phase = "run"
  /\ regs' = [regs EXCEPT ![Cell(r)] = v]
  /\ Save("fc06")

\* A register outside the record, not next to it.
Fc06Other(v) ==
  /\ phase = "run"
  /\ regs' = [regs EXCEPT ![NullCell] = v]
  /\ UNCHANGED <<phase, request, data_change_flag, is_registered, reg_info, store>>

\* Plausible bug: only a request that saves sets the flag.
Fc16Forgetting(rs, edge, v) ==
  /\ phase = "run"
  /\ regs' = [c \in Cells |-> IF c \in {Cell(r) : r \in rs} THEN v ELSE regs[c]]
  /\ IF data_change_flag \/ rs \cap Base # {} \/ edge
     THEN Save("fc16")
     ELSE UNCHANGED <<phase, request, data_change_flag, is_registered, reg_info,
                      store>>

\* Modbus_16_Handle: only the registers from 30 on, or an earlier request, make it
\* save; "edge" is the register 100 after them.
Fc16(rs, edge, v) ==
  /\ phase = "run"
  /\ regs' = [c \in Cells |-> IF c \in {Cell(r) : r \in rs} THEN v ELSE regs[c]]
  /\ IF data_change_flag \/ rs \cap Base # {} \/ edge
     THEN Save("fc16")
     ELSE /\ data_change_flag' = TRUE
          /\ UNCHANGED <<phase, request, is_registered, reg_info, store>>

\* A register is changed behind the back of the store: no flag is set.
Behind(r, v) ==
  /\ regs' = [regs EXCEPT ![r] = v]
  /\ behind' = behind \cup {r}
  /\ UNCHANGED <<phase, request, data_change_flag, is_registered, reg_info, flash>>

\* The interrupts and calibrations write their registers at any time; start_task runs
\* with interrupts disabled.
Measure(r, v) ==
  /\ phase # "off" /\ request # "boot"
  /\ Behind(r, v)

\* The command "set watch" of the console; handle_task runs while the Modbus task waits.
SetWatch(r, v) ==
  /\ phase = "run"
  /\ Behind(r, v)

-----------------------------------------------------------------------------
(* The surroundings.                                                       *)

\* do_reset, or the power fails: the memory is cleared, the flash is not.
Restart ==
  /\ phase # "off"
  /\ phase' = "off" /\ request' = "none"
  /\ regs' = [c \in Cells |-> 0]
  /\ data_change_flag' = FALSE /\ is_registered' = FALSE
  /\ cut' = (cut \/ (phase = "program" /\ next <= BaseNum + ExNum))
  /\ buf' = page /\ next' = 0 /\ last' = 0 /\ behind' = {}
  /\ UNCHANGED <<reg_info, page, stored>>

\* The registration page is written by a programming tool.
Register ==
  /\ phase = "off" /\ ~reg_info
  /\ reg_info' = TRUE
  /\ UNCHANGED <<phase, request, regs, data_change_flag, is_registered, store>>

Next ==
  \/ Erase \/ Program \/ Done
  \/ BootUnregistered \/ BootLoad \/ BootDefaults
  \/ \E v \in Written :
       \/ \E r \in Saved \cup {NullCell} : Fc06(r, v)
       \/ Fc06Other(v)
       \/ \E lo, hi \in Base : Fc16(lo .. hi, FALSE, v)
       \/ \E lo, hi \in Ex : Fc16(lo .. hi, FALSE, v)
       \/ \E lo \in Base : Fc16(lo .. BaseNum, TRUE, v)
       \/ Fc16({NullCell}, FALSE, v)
       \/ \E r \in Live : Measure(r, v)
       \/ \E r \in Watch : SetWatch(r, v)
  \/ Restart \/ Register

Spec == Init /\ [][Next]_vars

-----------------------------------------------------------------------------
(* Properties.                                                             *)

\* The types of the variables.
TypeOK ==
  /\ phase \in {"off", "run", "erase", "program"}
  /\ request \in {"none", "boot", "fc06", "fc16"}
  /\ regs \in [Cells -> Value]
  /\ data_change_flag \in BOOLEAN
  /\ is_registered \in BOOLEAN /\ reg_info \in BOOLEAN
  /\ page \in [Page -> Value] /\ buf \in [Page -> Value]
  /\ next \in 0 .. PageLen /\ last \in Page
  /\ stored \in [Record -> Value]
  /\ cut \in BOOLEAN
  /\ behind \subseteq Live \cup Watch

\* Every half-word STMFLASH_Write programs is erased when it does, whatever was cut
\* short before it and whichever values look like an erased page: none is refused.
ProgramsErased == phase = "program" /\ next <= last => page[next] = ERASED

\* Unless a restart cut it, the page holds the last record it was written with.
StoredWhole ==
  ~cut /\ phase # "program" => \A i \in Record : page[i] = stored[i]

\* A save that was cut leaves the beginning of its record and erased registers behind
\* it, never a mixture with an older record.
CutIsPrefix ==
  \E n \in 0 .. BaseNum + ExNum + 1 :
    \A i \in Record : page[i] = IF i < n THEN stored[i] ELSE ERASED

\* A record is never written without the flag that makes the next start read it, and
\* the flag is the first half-word of it that is written.
FlagWritten ==
  /\ phase \in {"erase", "program"} => buf[0] = MAGIC
  /\ (\E i \in Record : page[i] # ERASED) => page[0] = MAGIC

\* Between two saves of a registered board every parameter is in the flash, unless the
\* flag is set that makes the next write save all of them, or it was changed behind the
\* back of the store since: no request, save or restart leaves another one unsaved.
SaveOwed ==
  phase = "run" /\ reg_info /\ ~data_change_flag
    => \A r \in Saved \ (Spare \cup behind) : regs[r] = page[r]

\* The page keeps to what SavedParameters promises: a save replaces the record at once,
\* writes it from the flag on, and only a restart stops it.
Parameters == INSTANCE SavedParameters WITH
                Last <- BaseNum + ExNum, FLAG <- MAGIC, EMPTY <- ERASED,
                saved <- [i \in Record |-> page[i]],
                record <- stored,
                state <- IF phase = "program" /\ next <= BaseNum + ExNum THEN "writing"
                         ELSE IF cut THEN "cut" ELSE "whole"
SavesParameters == Parameters!Spec
=============================================================================
