------------------------------ MODULE MCGuestFiles ------------------------------
(***************************************************************************)
(* Two files, one descriptor, two texts; and the other thing of the guest  *)
(* that lies under /workspace, its working directory.  What WASI does to a *)
(* file and where the guest's directory is have no state in common, so a   *)
(* behaviour is one of one of the two models: `part` says of which.        *)
(***************************************************************************)
EXTENDS GuestFiles, TLC

CONSTANTS name1, name2, d, a, b, dir1, dir2, Dirs, Root, Outside

VARIABLES
  part,
  kind, dirs, fileApiOff, row, inMemory, cwd, guest, snapshot, stored, at, dirsBefore, wired

directoryVars ==
  <<kind, dirs, fileApiOff, row, inMemory, cwd, guest, snapshot, stored, at, dirsBefore, wired>>

Directory == INSTANCE SessionDirectory WITH
  tree <- dirs, disabled <- fileApiOff, resident <- inMemory, before <- dirsBefore

\* No choice of the model looks at a text or at which directory is which.
Symmetry == Permutations({a, b}) \cup Permutations({dir1, dir2})

MCInit ==
  /\ part \in {"files", "directory"}
  /\ Init /\ (part = "directory" => enabled = TRUE)
  /\ Directory!Init /\ (part = "files" => kind = "wasmify" /\ dirs = {} /\ row = Root)

MCNext ==
  /\ UNCHANGED part
  /\ \/ part = "files" /\ Next /\ UNCHANGED directoryVars
     \/ part = "directory" /\ Directory!Next /\ UNCHANGED vars

MCSpec == MCInit /\ [][MCNext]_<<part, vars, directoryVars>>

(***************************************************************************)
(* SessionDirectory: the guest, the session and the context's row name one *)
(* directory.                                                              *)
(***************************************************************************)
DirectoryIsTracked == Directory!DirectoryIsTracked
================================================================================
