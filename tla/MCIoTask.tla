------------------------------ MODULE MCIoTask ------------------------------
(* The instance of IoTask for TLC.                                         *)
EXTENDS IoTask
=============================================================================
