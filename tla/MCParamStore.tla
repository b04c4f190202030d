----------------------------- MODULE MCParamStore -----------------------------
(* The instance of ParamStore for TLC.                                     *)
EXTENDS ParamStore
=============================================================================
