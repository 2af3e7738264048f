----------------------------- MODULE MCVMBridge -----------------------------
(***************************************************************************)
(* Instances of VMBridge for TLC.                                          *)
(***************************************************************************)
EXTENDS VMBridge
=============================================================================
