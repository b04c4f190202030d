---------------------------- MODULE PieceCounter ----------------------------
(***************************************************************************)
(* What a counting board promises its host: on every channel a piece first *)
(* enters the beam and then leaves it, and it is counted exactly when it   *)
(* leaves, once on its channel and once in the total, however many         *)
(* channels see a piece at the same moment.  A recalibration may drop the  *)
(* pieces that are in the beam; it never counts them.                      *)
(***************************************************************************)
EXTENDS Naturals, FiniteSets

CONSTANT Channel

VARIABLES
  present,   \* the channels with a piece in the beam
  count,     \* pieces counted on each channel since it was last restarted
  total      \* pieces counted on all channels since the last clear

vars == <<present, count, total>>

Init ==
  /\ present = {}
  /\ count = [c \in Channel |-> 0]
  /\ total = 0

\* One interrupt: the pieces of "enter" arrive, those of "leave" are counted and
\* the channels of "restart" begin again from zero.
Pass(enter, leave, restart) ==
  /\ leave \subseteq present
  /\ enter \cap present = {}
  /\ restart \cap (present \cup enter) = {}
  /\ present' = (present \cup enter) \ leave
  /\ count' = [c \in Channel |-> IF c \in restart THEN 0
                                 ELSE IF c \in leave THEN count[c] + 1
                                 ELSE count[c]]
  /\ total' = total + Cardinality(leave)

\* A recalibration forgets the pieces in the beam and keeps the counts.
Abort ==
  /\ present' = {}
  /\ UNCHANGED <<count, total>>

Clear ==
  /\ count' = [c \in Channel |-> 0]
  /\ total' = 0
  /\ UNCHANGED present

Next ==
  \/ \E enter, leave, restart \in SUBSET Channel : Pass(enter, leave, restart)
  \/ Abort
  \/ Clear

Spec == Init /\ [][Next]_vars
=============================================================================
