------------------------------- MODULE MCNotify -------------------------------
(***************************************************************************)
(* Notify on small instances.                                              *)
(***************************************************************************)
EXTENDS Notify
=============================================================================
