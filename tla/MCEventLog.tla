----------------------------- MODULE MCEventLog -----------------------------
(* Two symbols on one log, one kind of request beside ticks and status     *)
(* queries.                                                                *)
EXTENDS EventLog, TLC
=============================================================================
