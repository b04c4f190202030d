----------------------------- MODULE RequestReply -----------------------------
(***************************************************************************)
(* What a board on a bus of two wires promises the one master that talks   *)
(* to it: it speaks only when it is asked and answers a request once, it   *)
(* takes the bus with the first byte of an answer and gives it back after  *)
(* the last, and nothing it does under an answer is seen on the bus.  It   *)
(* may fail to answer; the master then gives up and finds the bus free.    *)
(***************************************************************************)
VARIABLES
  exchange,  \* "free", "asked" or "replying"
  driving    \* the board drives the bus

vars == <<exchange, driving>>

Init ==
  /\ exchange = "free"
  /\ driving = FALSE

Ask ==
  /\ exchange = "free"
  /\ exchange' = "asked"
  /\ UNCHANGED driving

\* The board does not take a bus that it has not given back.
Answer ==
  /\ exchange = "asked" /\ ~driving
  /\ exchange' = "replying"
  /\ driving' = TRUE

Complete ==
  /\ exchange = "replying"
  /\ exchange' = "free"
  /\ UNCHANGED driving

\* The master may have asked again by then.
Release ==
  /\ exchange # "replying" /\ driving
  /\ driving' = FALSE
  /\ UNCHANGED exchange

GiveUp ==
  /\ exchange = "asked" /\ ~driving
  /\ exchange' = "free"
  /\ UNCHANGED driving

Next == Ask \/ Answer \/ Complete \/ Release \/ GiveUp

Spec == Init /\ [][Next]_vars
=============================================================================
