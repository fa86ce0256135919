---------------------------- MODULE MCRequestLog ----------------------------
(***************************************************************************)
(* RequestLog for TLC: four logs and one kill, enough for a log in a       *)
(* transaction left open, one in the writer's hand and one in the queue at *)
(* the same time, before or after the kill.                                *)
(***************************************************************************)
EXTENDS RequestLog

=============================================================================
