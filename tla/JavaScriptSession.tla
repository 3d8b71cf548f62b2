--------------------------- MODULE JavaScriptSession ---------------------------
(***************************************************************************)
(* The JavaScript engine (packages/javascript/src): the fuel meter and the *)
(* session object (engine.mjs), the guest side that captures results,      *)
(* errors and console output (prelude.mjs), the mode a script is rewritten *)
(* in (transform.mjs), and what InterpreterServer.run does with the        *)
(* outcome (packages/interpreter/src/server.ts).                           *)
(*                                                                         *)
(* An execution is three evaluations: reset, the script, end. A script is  *)
(* what it does next: it logs, awaits, starts a job it does not await,     *)
(* resolves a promise an earlier script awaits, returns a value or throws. *)
(* A job goes by the number of the execution whose body it continues;      *)
(* Detached is one a body started, and 0 continues __sandbox.execute in a  *)
(* stateless instance. Files are GuestFiles', pages InterpreterSnapshots'. *)
(***************************************************************************)
EXTENDS Integers, Sequences, SequencesExt

CONSTANTS
  Fuel,          \* limits.fuel
  MaxEntries,    \* console entries an execution may make; 200 in the code
  MaxExecutions  \* bound

ASSUME JavaScriptAssumption ==
  Fuel \in Nat \ {0} /\ MaxEntries \in Nat /\ MaxExecutions \in Nat \ {0}

VARIABLES
  instance,  \* the resident Wasm instance: a session, a stateless one, or none
  at,        \* how far the execution is
  script,    \* what the host knows of the script
  n,         \* executions begun
  guest,     \* the instance's memory
  meter,     \* createMeter
  invalid,   \* the session's `invalid`
  outcome,   \* what the execution reported
  used,      \* ticks of the last execution
  snapshot   \* the stored memory image

vars == <<instance, at, script, n, guest, meter, invalid, outcome, used, snapshot>>

(***************************************************************************)
(* Memory: the captured value and error with the execution whose code made *)
(* them and the one they were made in, `done`, the slot of a stateless     *)
(* execution, the console entries and (history) how many of them there     *)
(* were when its body settled, the bodies that await a promise, the job    *)
(* queue, the interrupt words, and whether a trap left frames on the stack.*)
(***************************************************************************)
Empty == [kind |-> "none", by |-> 0, in |-> 0]
NoOutcome == [kind |-> "none", by |-> 0, in |-> 0, logs |-> 0]

Booted ==
  [value |-> Empty, error |-> Empty, done |-> FALSE, slot |-> NoOutcome, entries |-> 0, said |-> 0,
   waiting |-> {}, ready |-> <<>>, words |-> FALSE, torn |-> FALSE]

\* `{ remaining, interrupted }` of a meter that is new or was reset.
FullMeter == [remaining |-> Fuel, interrupted |-> FALSE]

NoSnapshot == [taken |-> FALSE, memory |-> Booted]

\* What the host sees of it; a promise that it returns counts as awaited.
Scripts == [parses : BOOLEAN, await : BOOLEAN, last : BOOLEAN, stateless : BOOLEAN]

Init ==
  /\ instance = "none"
  /\ at = "idle"
  /\ script = [parses |-> TRUE, await |-> FALSE, last |-> FALSE, stateless |-> FALSE]
  /\ n = 0
  /\ guest = Booted
  /\ meter = FullMeter
  /\ invalid = FALSE
  /\ outcome = NoOutcome
  /\ used = 0
  /\ snapshot = NoSnapshot

(***************************************************************************)
(* The host's transformation of a script.                                  *)
(***************************************************************************)
transformForRepl(s) ==
  CASE ~s.parses                     -> "raw"
    [] s.parses /\ s.await           -> "hoist"
    [] s.parses /\ ~s.await /\ s.last -> "capture"
    [] OTHER                         -> "raw"

\* A stateless script always is an async function.
Mode == IF script.stateless THEN "async" ELSE transformForRepl(script)

\* The two shapes that are an async function, whose errors the guest's own code catches.
IsAsync == Mode \in {"hoist", "async"}

(***************************************************************************)
(* Sessions: boot, restore, execute.                                       *)
(***************************************************************************)
Boot ==
  /\ instance = "none" /\ at = "idle" /\ ~snapshot.taken
  /\ instance' = "session" /\ guest' = Booted
  /\ meter' = FullMeter /\ invalid' = FALSE
  /\ UNCHANGED <<at, script, n, outcome, used, snapshot>>

\* restoreJavaScriptSession: the pages come back, the host's half is new.
Restore ==
  /\ instance = "none" /\ at = "idle" /\ snapshot.taken
  /\ instance' = "session" /\ guest' = snapshot.memory
  /\ meter' = FullMeter /\ invalid' = FALSE
  /\ UNCHANGED <<at, script, n, outcome, used, snapshot>>

\* Mutant: the interrupt words stay set.
KeepWords(memory) == memory

\* meter.reset.
ClearWords(memory) == [memory EXCEPT !.words = FALSE]

\* Mutant: what the last execution captured stays.
ResetConsole(memory) == [memory EXCEPT !.error = Empty, !.done = FALSE, !.entries = 0]

\* __sandboxSession.reset.
Reset(memory) ==
  [memory EXCEPT !.value = Empty, !.error = Empty, !.done = FALSE, !.entries = 0]

Begin(s) ==
  /\ n' = n + 1
  /\ script' = s
  /\ meter' = FullMeter
  /\ used' = 0

Execute(s) ==
  /\ instance = "session" /\ at = "idle" /\ n < MaxExecutions /\ ~s.stateless
  /\ Begin(s)
  /\ guest' = Reset(ClearWords(guest))
  /\ at' = "reset"
  /\ UNCHANGED <<instance, invalid, outcome, snapshot>>

Evaluate ==
  /\ at = "reset"
  /\ at' = "body"
  /\ UNCHANGED <<instance, script, n, guest, meter, invalid, outcome, used, snapshot>>

\* runJavaScript: a fresh instance for one script.
RunJavaScript(s) ==
  /\ instance = "none" /\ at = "idle" /\ n < MaxExecutions /\ s.stateless
  /\ Begin(s)
  /\ instance' = "stateless" /\ guest' = Booted /\ invalid' = FALSE
  /\ at' = "body"
  /\ UNCHANGED <<outcome, snapshot>>

(***************************************************************************)
(* Fuel. The guest ticks in any evaluation.                                *)
(***************************************************************************)
Detached == -1
Jobs == Detached .. MaxExecutions

InGuest == at \in {"reset", "body", "jobs", "end"}

\* Jobs still queued when an evaluation fails are gone: they have run, or never will.
Report(kind, logs) ==
  /\ outcome' = [kind |-> kind, by |-> n, in |-> n, logs |-> logs]
  /\ at' = "done"

\* Mutant: the backstop waits for one tick more.
LateBackstop(remaining) == remaining < -Fuel

Backstop(remaining) == remaining <= -Fuel

Burnt == [meter EXCEPT !.remaining = @ - 1, !.interrupted = @ \/ meter.remaining <= 1]

Tick ==
  /\ InGuest /\ ~Backstop(meter.remaining - 1)
  /\ meter' = Burnt
  /\ used' = used + 1
  /\ guest' = [guest EXCEPT !.words = @ \/ (Burnt.interrupted /\ ~meter.interrupted)]
  /\ UNCHANGED <<instance, at, script, n, invalid, outcome, snapshot>>

\* Mutant: the backstop's error is not tagged as a trap.
Untagged == FALSE

Tagged == TRUE

\* The backstop throws through the Wasm frames.
Trap ==
  /\ InGuest /\ Backstop(meter.remaining - 1)
  /\ meter' = Burnt
  /\ used' = used + 1
  /\ invalid' = Tagged
  /\ guest' = [guest EXCEPT !.torn = TRUE, !.ready = <<>>]
  /\ Report("fuel", 0)
  /\ UNCHANGED <<instance, script, n, snapshot>>

\* SpiderMonkey sees the interrupt words: checkInterrupted.
Interrupted ==
  /\ InGuest /\ guest.words
  /\ guest' = [guest EXCEPT !.ready = <<>>]
  /\ Report("fuel", 0)
  /\ UNCHANGED <<instance, script, n, meter, invalid, used, snapshot>>

(***************************************************************************)
(* The guest: the script itself, then the jobs of the queue.               *)
(***************************************************************************)
\* The job that runs.
Runs(job) == \/ at = "body" /\ script.parses /\ job = n
             \/ at = "jobs" /\ guest.ready # <<>> /\ job = Head(guest.ready)

Rest == IF at = "jobs" THEN Tail(guest.ready) ELSE guest.ready

GuestOnly == UNCHANGED <<instance, script, n, meter, invalid, used, snapshot>>

\* console.log.
Log(job) ==
  /\ Runs(job) /\ job # 0 /\ guest.entries < MaxEntries
  /\ guest' = [guest EXCEPT !.entries = @ + 1]
  /\ GuestOnly /\ UNCHANGED <<at, outcome>>

\* It resolves the promise another body awaits.
Wake(job, other) ==
  /\ Runs(job) /\ job # 0 /\ other \in guest.waiting
  /\ guest' = [guest EXCEPT !.waiting = @ \ {other}, !.ready = Append(@, other)]
  /\ GuestOnly /\ UNCHANGED <<at, outcome>>

\* A job it does not await; bound: one at a time.
Start(who) ==
  /\ Runs(who) /\ who > 0 /\ Detached \notin ToSet(guest.ready)
  /\ guest' = [guest EXCEPT !.ready = Append(@, Detached)]
  /\ GuestOnly /\ UNCHANGED <<at, outcome>>

\* The end of it: what it throws is nobody's.
Leave ==
  /\ Runs(Detached)
  /\ guest' = [guest EXCEPT !.ready = Rest]
  /\ GuestOnly /\ UNCHANGED <<at, outcome>>

\* A promise that is settled, or one that is not.
Await(who) ==
  /\ Runs(who) /\ who > 0 /\ (who = n => IsAsync /\ script.await)
  /\ \/ guest' = [guest EXCEPT !.waiting = @ \union {who}, !.ready = Rest]
     \/ guest' = [guest EXCEPT !.ready = Append(Rest, who)]
  /\ at' = "jobs"
  /\ GuestOnly /\ UNCHANGED outcome

\* A value that is undefined, fits, or does not (too large, or not to be serialised, or
\* "opaque" when its error has no name or text); "absent" when the last statement is no
\* expression, which an async function returns as undefined.
Values(who) ==
  IF script.stateless
  THEN {"undefined"} \union IF script.last THEN {"fits", "unfit", "opaque"} ELSE {}
  ELSE IF who # n THEN {"absent", "undefined", "fits", "unfit"}
  ELSE IF script.last THEN {"undefined", "fits", "unfit"} ELSE {"absent"}

Captured(who, kind) == [kind |-> kind, by |-> who, in |-> n]

\* __sandbox.execute awaits the body of a stateless script, which settles.
Settled(memory) ==
  IF script.stateless THEN [memory EXCEPT !.ready = Append(Rest, 0), !.said = guest.entries]
  ELSE [memory EXCEPT !.ready = Rest]

\* setResult by the last expression, markDone by the finally of an async body.
Finish(who, v) ==
  /\ Runs(who) /\ who > 0 /\ v \in Values(who)
  /\ guest' = Settled([guest EXCEPT !.value = IF v = "absent" THEN @ ELSE Captured(who, v),
                                    !.done = @ \/ IsAsync \/ who # n])
  /\ at' = "jobs"
  /\ GuestOnly /\ UNCHANGED outcome

\* What is thrown: the guest's own error, one that String() throws on ("opaque", which
\* setError makes an "Unknown error"), or the console's ExecutionLimitError.
Thrown == {"error"} \union (IF guest.entries = MaxEntries THEN {"limit"} ELSE {})
                    \union (IF script.stateless THEN {"opaque"} ELSE {})

\* Inside an async body: setError and markDone, or the rejection that execute awaits.
ThrowAsync(who, kind) ==
  /\ Runs(who) /\ who > 0 /\ kind \in Thrown
  /\ who # n \/ IsAsync
  /\ guest' = Settled([guest EXCEPT !.error = Captured(who, kind), !.done = TRUE])
  /\ at' = "jobs"
  /\ GuestOnly /\ UNCHANGED outcome

\* Outside one the evaluation itself fails (parseEngineError), as for a SyntaxError.
ThrowSync(kind) ==
  /\ at = "body" /\ ~IsAsync /\ kind \in Thrown
  /\ guest' = [guest EXCEPT !.ready = <<>>]
  /\ Report(kind, 0)
  /\ GuestOnly

(***************************************************************************)
(* The rest of __sandbox.execute: the slot gets the value or the error with*)
(* the output there is by now.  In its catch block an error that String()  *)
(* throws on leaves the slot unset, and so does a value it fails for.      *)
(***************************************************************************)
Of(x, kind) == [kind |-> kind, by |-> x.by, in |-> x.in, logs |-> guest.entries]
Own(kind)   == [kind |-> kind, by |-> n, in |-> n, logs |-> guest.entries]

Indescribable == "opaque" \in {guest.value.kind, guest.error.kind}

Final ==
  CASE Indescribable -> NoOutcome
    [] ~Indescribable /\ guest.error.kind # "none" -> Of(guest.error, guest.error.kind)
    [] OTHER -> CASE guest.value.kind = "unfit" -> Own("error")
                  [] guest.value.kind = "fits"  -> Of(guest.value, "value")
                  [] OTHER                      -> Own("empty")

Settle ==
  /\ Runs(0)
  /\ guest' = [guest EXCEPT !.slot = Final, !.ready = Rest]
  /\ GuestOnly /\ UNCHANGED <<at, outcome>>

\* A script that does not parse: eval throws before there is a promise to await.
SyntaxError ==
  /\ at = "body" /\ script.stateless /\ ~script.parses
  /\ guest' = [guest EXCEPT !.slot = Own("error")]
  /\ at' = "jobs"
  /\ GuestOnly /\ UNCHANGED outcome

(***************************************************************************)
(* The end of an execution.                                                *)
(***************************************************************************)
AskEnd ==
  /\ at = "jobs" /\ guest.ready = <<>>
  /\ at' = "end"
  /\ UNCHANGED <<instance, script, n, guest, meter, invalid, outcome, used, snapshot>>

\* Mutant: every script is expected to mark itself done.
ExpectsAll == TRUE

expectAsync == Mode = "hoist"

\* __sandboxSession.end; a value that does not fit makes the evaluation fail, which execute
\* rethrows and the server calls an EngineError.
EndOutcome ==
  CASE guest.error # Empty          -> Of(guest.error, guest.error.kind)
    [] guest.error = Empty /\ expectAsync /\ ~guest.done -> Own("unsettled")
    [] OTHER -> CASE guest.value.kind = "unfit" -> [NoOutcome EXCEPT !.kind = "engine"]
                  [] guest.value.kind = "fits"  -> Of(guest.value, "value")
                  [] OTHER                      -> Own("empty")

\* __sandbox.take: a slot that is not set is a promise that never settled, without output.
TakeOutcome ==
  IF guest.slot.kind = "none" THEN [Own("unsettled") EXCEPT !.logs = 0] ELSE guest.slot

End ==
  /\ at = "end"
  /\ outcome' = IF script.stateless THEN TakeOutcome ELSE EndOutcome
  /\ at' = "done"
  /\ UNCHANGED <<instance, script, n, guest, meter, invalid, used, snapshot>>

\* InterpreterServer.run: an instance that threw or is invalid goes; the memory of the others
\* is stored, unless the execution hit a limit or the guest holds a file open.
Limited == outcome.kind \in {"fuel", "limit"}
Dropped == script.stateless \/ invalid \/ outcome.kind = "engine"

Conclude ==
  /\ at = "done"
  /\ at' = "idle"
  /\ instance' = IF Dropped THEN "none" ELSE instance
  /\ guest' = IF Dropped THEN Booted ELSE guest
  /\ snapshot' \in {snapshot} \union
       IF Dropped \/ Limited THEN {} ELSE {[taken |-> TRUE, memory |-> guest]}
  /\ outcome' = NoOutcome
  /\ UNCHANGED <<script, n, meter, invalid, used>>

\* The interpreter is evicted, or another context takes the only instance.
Evict ==
  /\ instance = "session" /\ at = "idle"
  /\ instance' = "none" /\ guest' = Booted
  /\ UNCHANGED <<at, script, n, meter, invalid, outcome, used, snapshot>>

Next ==
  \/ Boot \/ Restore \/ Evict
  \/ \E s \in Scripts : Execute(s) \/ RunJavaScript(s)
  \/ Evaluate \/ Tick \/ Trap \/ Interrupted
  \/ \E job \in Jobs :
       \/ Log(job) \/ Start(job) \/ Await(job)
       \/ \E other \in 1 .. MaxExecutions : Wake(job, other)
       \/ \E v \in {"absent", "undefined", "fits", "unfit", "opaque"} : Finish(job, v)
       \/ \E kind \in {"error", "limit", "opaque"} : ThrowAsync(job, kind)
  \/ \E kind \in {"error", "limit"} : ThrowSync(kind)
  \/ Leave \/ Settle \/ SyntaxError
  \/ AskEnd \/ End \/ Conclude

Spec == Init /\ [][Next]_vars

(***************************************************************************)
(* Properties.                                                             *)
(***************************************************************************)
Capture == [kind : {"none", "undefined", "fits", "unfit", "error", "limit", "opaque"},
            by : 0 .. MaxExecutions, in : 0 .. MaxExecutions]

\* The variables keep their shape; a body that waits is not in the queue as well.
TypeOK ==
  /\ instance \in {"none", "session", "stateless"}
  /\ at \in {"idle", "reset", "body", "jobs", "end", "done"}
  /\ script \in Scripts /\ n \in 0 .. MaxExecutions
  /\ guest.value \in Capture /\ guest.error \in Capture
  /\ guest.entries \in 0 .. MaxEntries
  /\ guest.waiting \subseteq 1 .. n /\ ToSet(guest.ready) \subseteq Detached .. n
  /\ guest.waiting \intersect ToSet(guest.ready) = {}
  /\ meter.remaining \in Int /\ meter.remaining <= Fuel
  /\ at # "idle" => instance # "none"

\* Fuel is per execution: one that is stopped for its fuel has burnt all of it itself. An
\* interrupt another execution asked for and never noticed, even one stored in a snapshot,
\* does not stop the next one.
FuelIsPerExecution ==
  at = "done" /\ outcome.kind = "fuel" => used >= Fuel

\* No execution goes on past the backstop, whether the engine notices interrupts or not.
BackstopHolds == used <= 2 * Fuel

\* No snapshot is of an instance a trap went through, not even some executions later.
SnapshotIsAtRest == snapshot.taken => ~snapshot.memory.torn

\* What an execution reports was captured while it ran: nothing is left from an execution
\* that ended early, was interrupted, or was restored from a snapshot.
ResultIsRecent ==
  at = "done" /\ outcome.kind \in {"value", "error", "limit"} => outcome.in = n

\* "A promise never settled" is said only of a script that does wait for one, or of a
\* stateless one whose error cannot be described.
UnsettledWaits ==
  at = "done" /\ outcome.kind = "unsettled" => n \in guest.waiting \/ Indescribable

\* A stateless execution reports its own end: the syntax error of a script that does not parse,
\* a value or an error of its own script, with at least what was logged until its body settled,
\* or that a promise never settled, and then it waits for one or its error has no description.
StatelessIsExact ==
  at = "done" /\ instance = "stateless" /\ outcome.kind # "fuel" =>
    /\ outcome.by = n
    /\ ~script.parses => outcome.kind = "error"
    /\ outcome.kind = "unsettled" <=> n \in guest.waiting \/ Indescribable
    /\ outcome.kind # "unsettled" => outcome.logs \in guest.said .. guest.entries

\* An execution ends for what it did itself, in time, and what it leaves has its type.
ExecutionsAreBounded == TypeOK /\ FuelIsPerExecution /\ BackstopHolds

\* The answer to an execution is of that execution.
AnswersAreExact == ResultIsRecent /\ UnsettledWaits /\ StatelessIsExact

\* A session's execute never throws because of what the guest did.
NeverThrows == at = "done" => outcome.kind # "engine"

\* The comment in execute: it settles "unless it awaits something that never resolves".
OnlyWaitingIsUnsettled ==
  at = "done" /\ outcome.kind = "unsettled" => n \in guest.waiting

\* Output logged before a guest error is returned with it.
ErrorsKeepTheirLogs ==
  at = "done" /\ outcome.kind = "error" => outcome.logs = guest.entries

\* The result is the value of the script's own last expression.
ResultIsOwn ==
  at = "done" /\ outcome.kind = "value" => outcome.by = n
================================================================================
