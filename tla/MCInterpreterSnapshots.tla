------------------------- MODULE MCInterpreterSnapshots -------------------------
(***************************************************************************)
(* Model-checking instance: two contexts, memories of two or three pages   *)
(* in chunks of two (so the last chunk is partial at three pages), and two *)
(* engine builds.                                                          *)
(***************************************************************************)
EXTENDS InterpreterSnapshots, TLC

CONSTANTS c1, c2, x, y

MCHashOf     == (x :> 1) @@ (y :> 2)
MCBootMemory == (0 :> x) @@ (1 :> ZERO)
Symmetry == Permutations(Contexts)
================================================================================
