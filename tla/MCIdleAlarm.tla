----------------------------- MODULE MCIdleAlarm -----------------------------
(* Model-checking instance of IdleAlarm; the values are in the .cfg files. *)
EXTENDS IdleAlarm
================================================================================
