---------------------------- MODULE SavedParameters ----------------------------
(***************************************************************************)
(* What a board promises of its parameters: at any time its memory holds   *)
(* the last record it was given, or a beginning of it while it is written  *)
(* or when the board was stopped before the end.  A record is replaced at  *)
(* once, so that of two records nothing is ever mixed, and each bears the  *)
(* flag that makes the next start read it.                                 *)
(***************************************************************************)
EXTENDS Naturals

CONSTANTS
  Last,    \* the places of a record are 0..Last
  Value,
  FLAG,    \* the first value of a record
  EMPTY    \* what a place holds where nothing is written

VARIABLES
  saved,   \* what the memory holds
  record,  \* the last record it was given
  state    \* "whole", "writing" or "cut"

vars == <<saved, record, state>>

Place == 0..Last
Beginning(rec, n) == [p \in Place |-> IF p < n THEN rec[p] ELSE EMPTY]

Init ==
  /\ record = [p \in Place |-> EMPTY]
  /\ saved = record
  /\ state = "whole"

\* A record is given: nothing is left of the one before.
Replace ==
  /\ state # "writing"
  /\ record' \in [Place -> Value] /\ record'[0] = FLAG
  /\ saved' = Beginning(record', 0)
  /\ state' = "writing"

\* The next of its values is written; the last makes it whole.
Put ==
  /\ state = "writing"
  /\ \E n \in Place :
       /\ saved = Beginning(record, n) /\ saved' = Beginning(record, n + 1)
       /\ state' = IF n = Last THEN "whole" ELSE "writing"
  /\ UNCHANGED record

\* The board is stopped.
Stop ==
  /\ state = "writing"
  /\ state' = "cut"
  /\ UNCHANGED <<saved, record>>

Next == Replace \/ Put \/ Stop

Spec == Init /\ [][Next]_vars
=============================================================================
