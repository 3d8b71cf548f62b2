------------------------------ MODULE ContextMemory ------------------------------
(***************************************************************************)
(* What a context's memory promises, without chunks or hashes: a context   *)
(* runs on the live instance if it owns it, else on the image last saved   *)
(* for it by this engine build, else on a fresh boot; saving is all or     *)
(* nothing, and losing the live instance falls back to the saved image.    *)
(* Some engine builds run code of their own in a memory they restore; what *)
(* that code rewrote is unseen by saving, and may be missing in an image.  *)
(***************************************************************************)
CONSTANTS
  Contexts,      \* context ids
  Builds,        \* engine builds
  Hooked,        \* the builds that run code of their own after a restore
  Boot,          \* the memory of a fresh boot
  Runs(_, _),    \* Runs(m, n): the guest may turn memory m into n
  Rewrites(_, _),  \* what a hooked build may turn a restored memory into
  Images,        \* all memories
  Places,        \* the places in a memory
  Differ(_, _),  \* the places in which two memories differ
  NONE           \* nothing saved; no live instance

VARIABLES
  known,   \* the contexts there are
  saved,   \* per context: NONE or [build, memory]
  live,    \* NONE or the instance [owner, memory, unseen]
  engine   \* the engine build that runs

vars == <<known, saved, live, engine>>

Init ==
  /\ known = {}
  /\ saved = [c \in Contexts |-> NONE]
  /\ live = NONE
  /\ engine \in Builds

Owns(c)   == live # NONE /\ live.owner = c
Usable(c) == saved[c] # NONE /\ saved[c].build = engine

\* What an engine may make of an image it restores.
Restored(memory) ==
  IF engine \in Hooked THEN {n \in Images : Rewrites(memory, n)} ELSE {memory}

\* What an execution of c may start from.
Starts(c) ==
  IF Owns(c) THEN {[memory |-> live.memory, unseen |-> live.unseen]}
  ELSE IF Usable(c)
  THEN {[memory |-> n, unseen |-> Differ(saved[c].memory, n)] :
          n \in Restored(saved[c].memory)}
  ELSE {[memory |-> Boot, unseen |-> {}]}

Create(c) ==
  /\ c \notin known
  /\ known' = known \cup {c}
  /\ UNCHANGED <<saved, live, engine>>

Remove(c) ==
  /\ c \in known
  /\ known' = known \ {c}
  /\ saved' = [saved EXCEPT ![c] = NONE]
  /\ live' = IF Owns(c) THEN NONE ELSE live
  /\ UNCHANGED engine

RemoveAll ==
  /\ known' = {}
  /\ saved' = [c \in Contexts |-> NONE]
  /\ live' = NONE
  /\ UNCHANGED engine

\* An image of another build is of no use once the context has run.
KeptImage(c) == IF Owns(c) \/ Usable(c) THEN saved[c] ELSE NONE

\* What saving may store of a memory: all of it but what is unseen.
Saves(memory, unseen) == {image \in Images : Differ(image, memory) \subseteq unseen}

\* An execution keeps the instance, and may or may not save its memory ...
Execute(c) ==
  /\ c \in known
  /\ live' \in [owner : {c}, memory : Images, unseen : SUBSET Places]
  /\ \E start \in Starts(c) :
       /\ Runs(start.memory, live'.memory)
       /\ \/ live'.unseen = start.unseen /\ saved' = [saved EXCEPT ![c] = KeptImage(c)]
          \/ /\ live'.unseen \subseteq start.unseen
             /\ \E memory \in Saves(live'.memory, live'.unseen) :
                  saved' = [saved EXCEPT ![c] = [build |-> engine, memory |-> memory]]
  /\ UNCHANGED <<known, engine>>

\* ... or loses it, together with everything it did.
Fail(c) ==
  /\ c \in known
  /\ live' = NONE
  /\ saved' = [saved EXCEPT ![c] = KeptImage(c)]
  /\ UNCHANGED <<known, engine>>

Lose == live' = NONE /\ UNCHANGED <<known, saved, engine>>

Deploy(b) == live' = NONE /\ engine' = b /\ UNCHANGED <<known, saved>>

Next ==
  \/ \E c \in Contexts : Create(c) \/ Remove(c) \/ Execute(c) \/ Fail(c)
  \/ RemoveAll
  \/ Lose
  \/ \E b \in Builds : Deploy(b)

Spec == Init /\ [][Next]_vars
================================================================================
