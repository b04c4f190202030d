------------------------------ MODULE MCLedDrive ------------------------------
(* An instance of LedDrive for TLC.                                        *)
EXTENDS LedDrive
=============================================================================
