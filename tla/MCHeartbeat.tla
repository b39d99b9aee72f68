----------------------------- MODULE MCHeartbeat ----------------------------
(***************************************************************************)
(* Heartbeat on small instances: one server, one metric request in flight, *)
(* one or two overlapping executions of the task.                          *)
(***************************************************************************)
EXTENDS Heartbeat, TLC
=============================================================================
