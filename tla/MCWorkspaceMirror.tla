---------------------------- MODULE MCWorkspaceMirror ----------------------------
(***************************************************************************)
(* Model-checking instance of one interpreter: two names with a child each.*)
(***************************************************************************)
EXTENDS WorkspaceMirror

CONSTANTS a, b, x, y, i1, i2, dir

MCPaths == {<<a>>, <<b>>, <<a, a>>, <<b, a>>}
================================================================================
