---------------------------- MODULE SessionDirectory ----------------------------
(***************************************************************************)
(* The working directory of a code context. It is kept in four places: the *)
(* interpreter's context row (server.ts), the host's session object        *)
(* (javascript/src/engine.mjs, interpreter/src/wasmify/embedded.ts), the   *)
(* guest's own C library, which Python and Perl change with os.chdir and   *)
(* chdir, and the memory snapshot that holds the guest's. Directories come *)
(* and go with scripts, with their roll-back and with the File API.        *)
(*                                                                         *)
(* A session is of one of two kinds. In JavaScript process.chdir is a host *)
(* function and the guest has no directory of its own; Python and Perl     *)
(* ("wasmify") enter the session's directory before every script and       *)
(* report theirs after it. Snapshots are InterpreterSnapshots', the        *)
(* workspace's transfer is WorkspaceMirror's.                              *)
(***************************************************************************)
CONSTANTS
  Dirs,        \* directories below /workspace
  Root,        \* /workspace
  Outside      \* any directory of the guest's that is not below /workspace

VARIABLES
  kind,      \* "javascript" or "wasmify"
  tree,      \* the directories the workspace has
  disabled,  \* whether the File API is
  row,       \* context.cwd
  resident,  \* whether the session is in memory
  cwd,       \* the session object's
  guest,     \* the guest's own, in its memory
  snapshot,  \* the guest's own in the stored memory, or Root before the first snapshot
  stored,    \* whether there is a snapshot
  at,        \* "idle", "entered" just before the script, "script", or the way it ended
  before,    \* the directories when the script started
  wired      \* whether this script's session was made for it: onCwdChange writes its row

vars == <<kind, tree, disabled, row, resident, cwd, guest, snapshot, stored, at, before, wired>>

Init ==
  /\ kind \in {"javascript", "wasmify"}
  /\ tree \in SUBSET Dirs /\ before = tree
  /\ disabled = FALSE
  /\ row \in {Root} \union Dirs /\ cwd = row
  /\ resident = FALSE
  /\ guest = Outside
  /\ snapshot = Outside /\ stored = FALSE
  /\ at = "idle"
  /\ wired = FALSE

\* What the guest can see: a disabled workspace is empty.
Visible == IF disabled THEN {} ELSE tree

\* Whether stat answers for a path, and says it is a directory.
IsDirectory(path) == ~disabled /\ path \in {Root} \union tree

\* Whether the guest's own chdir finds it: /workspace itself is there even when disabled.
CanEnter(path) == path \in {Root} \union Visible

(***************************************************************************)
(* Between scripts: the File API, the switch, eviction.                    *)
(***************************************************************************)
ChangeTree ==
  /\ at = "idle" /\ ~disabled
  /\ \E d \in Dirs : tree' \in {tree \union {d}, tree \ {d}}
  /\ UNCHANGED <<kind, disabled, row, resident, cwd, guest, snapshot, stored, at, before, wired>>

SetDisabled ==
  /\ at = "idle"
  /\ disabled' = ~disabled
  /\ UNCHANGED <<kind, tree, row, resident, cwd, guest, snapshot, stored, at, before, wired>>

\* The interpreter is evicted, or another context takes the only instance.
Evict ==
  /\ at = "idle" /\ resident
  /\ resident' = FALSE
  /\ UNCHANGED <<kind, tree, disabled, row, cwd, guest, snapshot, stored, at, before, wired>>

(***************************************************************************)
(* A script.                                                               *)
(***************************************************************************)
\* The session before it runs: the one in memory, a restored one, or a new one.
SessionCwd   == IF resident THEN cwd ELSE row
SessionGuest == CASE resident             -> guest
                  [] ~resident /\ stored  -> snapshot
                  [] ~resident /\ ~stored -> Outside

\* Mutant: only a new session enters its directory.
EnterOnce == IF resident \/ stored THEN SessionGuest
             ELSE IF CanEnter(SessionCwd) THEN SessionCwd ELSE SessionGuest

\* os.chdir(cwd), whose failure nobody hears of.
Entered == IF CanEnter(SessionCwd) THEN SessionCwd ELSE SessionGuest

Execute ==
  /\ at = "idle"
  /\ at' = "entered"
  /\ resident' = TRUE
  /\ cwd' = SessionCwd
  /\ guest' = IF kind = "wasmify" THEN Entered ELSE SessionGuest
  /\ before' = tree
  /\ wired' = ~resident
  /\ UNCHANGED <<kind, tree, disabled, row, snapshot, stored>>

Running == at \in {"entered", "script"}

MakeDirectory(d) ==
  /\ Running /\ ~disabled
  /\ tree' = tree \union {d} /\ at' = "script"
  /\ UNCHANGED <<kind, disabled, row, resident, cwd, guest, snapshot, stored, before, wired>>

RemoveDirectory(d) ==
  /\ Running /\ d \in Visible
  /\ tree' = tree \ {d} /\ at' = "script"
  /\ UNCHANGED <<kind, disabled, row, resident, cwd, guest, snapshot, stored, before, wired>>

\* chdir of the guest's C library: /stdlib and /dev are directories as well.
GuestChdir(path) ==
  /\ Running /\ kind = "wasmify"
  /\ CanEnter(path) \/ path = Outside
  /\ guest' = path /\ at' = "script"
  /\ UNCHANGED <<kind, tree, disabled, row, resident, cwd, snapshot, stored, before, wired>>

\* onCwdChange writes the row object the session was made with; a later script has another.
onCwdChange(path) == IF wired THEN path ELSE row

\* process.chdir, checked against the workspace.
ProcessChdir(path) ==
  /\ Running /\ kind = "javascript" /\ IsDirectory(path)
  /\ cwd' = path /\ row' = onCwdChange(path) /\ at' = "script"
  /\ UNCHANGED <<kind, tree, disabled, resident, guest, snapshot, stored, before, wired>>

\* Mutant: what the guest reports is not looked up.
PersistedAsIs(reported) == reported

\* Mutant: it is only checked to be below /workspace.
PersistedInside(reported) == IF reported = Outside THEN Root ELSE reported

\* The reported directory if it is one, or /workspace.
Persisted(reported) == IF IsDirectory(reported) THEN reported ELSE Root

(***************************************************************************)
(* How it ends: the script succeeds, fails, returns too large a result, or *)
(* does not come back. A wasmify session reports its directory in the      *)
(* first three, and is gone after the last two; a JavaScript session that  *)
(* has too large a result throws, and the server keeps the row's cwd.      *)
(***************************************************************************)
Comes(end) == end \in {"ok", "error", "unfit"}

EndCwd(end) == IF kind = "wasmify" /\ Comes(end) THEN Persisted(guest) ELSE cwd

\* Mutant: an execution that failed leaves the row alone.
RowAfterSuccess(end) == IF end = "ok" THEN EndCwd(end) ELSE row

\* Rule 5 of InterpreterServer.run.
RowAfter(end) == IF kind = "javascript" /\ end = "unfit" THEN row ELSE EndCwd(end)

End(end) ==
  /\ Running
  /\ at' = end
  /\ cwd' = EndCwd(end)
  /\ row' = RowAfter(end)
  /\ UNCHANGED <<kind, tree, disabled, resident, guest, snapshot, stored, before, wired>>

\* The workspace is rolled back unless the script succeeded; the instance is kept unless it
\* is invalid; a memory may be stored.
Conclude ==
  /\ at \in {"ok", "error", "unfit", "trap"}
  /\ at' = "idle"
  /\ tree' = IF at = "ok" THEN tree ELSE before
  /\ resident' = (at \in {"ok", "error"})
  /\ \/ UNCHANGED <<snapshot, stored>>
     \/ at \in {"ok", "error"} /\ snapshot' = guest /\ stored' = TRUE
  /\ UNCHANGED <<kind, disabled, row, cwd, guest, before, wired>>

Next ==
  \/ ChangeTree \/ SetDisabled \/ Evict
  \/ Execute
  \/ \E d \in Dirs : MakeDirectory(d) \/ RemoveDirectory(d)
  \/ \E path \in Dirs \union {Root, Outside} : GuestChdir(path) \/ ProcessChdir(path)
  \/ \E end \in {"ok", "error", "unfit", "trap"} : End(end)
  \/ Conclude

Spec == Init /\ [][Next]_vars

(***************************************************************************)
(* Properties.                                                             *)
(***************************************************************************)
\* The variables keep their shape; what a context reports is never outside the workspace.
TypeOK ==
  /\ kind \in {"javascript", "wasmify"}
  /\ tree \subseteq Dirs /\ before \subseteq Dirs
  /\ disabled \in BOOLEAN /\ resident \in BOOLEAN
  /\ stored \in BOOLEAN /\ wired \in BOOLEAN
  /\ row \in {Root} \union Dirs /\ cwd \in {Root} \union Dirs
  /\ guest \in {Root, Outside} \union Dirs /\ snapshot \in {Root, Outside} \union Dirs
  /\ at \in {"idle", "entered", "script", "ok", "error", "unfit", "trap"}

\* The session in memory and the context's row name the same directory, whatever the last
\* script ended with, so that a restored session goes on where a resident one would.
CwdIsAgreed == at = "idle" /\ resident => cwd = row

\* A Python or Perl script starts in the directory its context reports, if there is one of
\* that name, even after a restore of a memory that was elsewhere.
StartsWhereItSays ==
  at = "entered" /\ kind = "wasmify" /\ CanEnter(row) => guest = row

\* A Python or Perl script that succeeds leaves its context in a directory that exists, and
\* it is the one the guest was in unless that one is not in the workspace.
EndsSomewhere ==
  at = "ok" /\ kind = "wasmify" /\ ~disabled =>
    /\ IsDirectory(row)
    /\ guest \in {Root} \union tree => row = guest

\* The guest, the session and the row do not lose each other.
DirectoryIsTracked == TypeOK /\ CwdIsAgreed /\ StartsWhereItSays /\ EndsSomewhere

\* The script starts in the context's working directory.
StartsInItsDirectory == at = "entered" /\ kind = "wasmify" => guest = row

\* The directory a Python or Perl script leaves its context in exists once it is over.
CwdOutlivesTheScript ==
  [][ kind = "wasmify" /\ ~disabled /\ at \in {"ok", "error"} => row \in {Root} \union tree' ]_vars
================================================================================
