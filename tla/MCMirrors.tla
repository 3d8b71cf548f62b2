------------------------------- MODULE MCMirrors -------------------------------
(***************************************************************************)
(* WorkspaceMirror in two sizes; a behaviour is of one of them.  "deep":   *)
(* one interpreter over names with children, so that a path can be a file, *)
(* an empty directory or a directory with an entry.  "two": two            *)
(* interpreters whose mirrors drift apart, guests that turn a file into a  *)
(* directory or back, and every fault.                                     *)
(***************************************************************************)
EXTENDS WorkspaceMirror

CONSTANTS a, b, x, y, i1, i2, dir

VARIABLE size

MCPaths    == {<<a>>, <<b>>, <<a, a>>, <<b, a>>, <<a, a, a>>}
SmallPaths == {<<a>>, <<a, a>>}

Deep == INSTANCE WorkspaceMirror WITH Retypes <- {}, Faults <- {}

\* The second interpreter is never called in the larger size.
DeepNext == Deep!Next /\ (call' # NONE => call'.interpreter = i1)

TwoNext == Next /\ \A t \in {tree'} \cup {mirror'[i] : i \in Interpreters} :
                     DOMAIN t \subseteq SmallPaths

MCInit == Init /\ size \in {"deep", "two"}

MCNext == /\ UNCHANGED size
          /\ \/ size = "deep" /\ DeepNext
             \/ size = "two" /\ TwoNext

MCSpec == MCInit /\ [][MCNext]_<<size, vars>>

(***************************************************************************)
(* One round of getFiles is enough, since no alarm destroys a mirror in    *)
(* the larger size; once the response to a run is applied sandbox and      *)
(* interpreter agree; and a run that raises changes nothing in the sandbox.*)
(***************************************************************************)
SyncConverges ==
  [][size = "deep" =>
       /\ InPhase("pulling") /\ Deep!Pull => call' # NONE
       /\ Deep!Deliver =>
            tree' = IF InPhase("ran") THEN mirror[call.interpreter] ELSE tree]_vars
================================================================================
