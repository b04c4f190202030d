---------------------------- MODULE MCModbusLink ----------------------------
(* Instances of ModbusLink for TLC.                                        *)
EXTENDS ModbusLink
=============================================================================
