----------------------------- MODULE MCSession ------------------------------
(* Sessions of a few script runs; the configurations choose the bounds and     *)
(* what the scripts that run during a service may do.                          *)
EXTENDS Session
=============================================================================
