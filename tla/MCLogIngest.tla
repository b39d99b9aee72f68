----------------------------- MODULE MCLogIngest ----------------------------
(***************************************************************************)
(* LogIngest on small instances: batches of two lines.                     *)
(***************************************************************************)
EXTENDS LogIngest, TLC
=============================================================================
