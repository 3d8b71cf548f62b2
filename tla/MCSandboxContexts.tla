---------------------------- MODULE MCSandboxContexts ----------------------------
(***************************************************************************)
(* Model-checking instance.                                                *)
(***************************************************************************)
EXTENDS SandboxContexts
================================================================================
