----------------------------- MODULE SandboxContexts -----------------------------
(***************************************************************************)
(* A sandbox's registry of code contexts and the interpreters that host    *)
(* them (packages/core/src/sandbox.ts, the handlers of contexts, /execute  *)
(* and DELETE, and alarm(); the answering side in                          *)
(* packages/interpreter/src/server.ts).                                    *)
(*                                                                         *)
(* The sandbox object runs two threads of control.  Requests go through a  *)
(* promise chain, one at a time; alarm() does not, so it may start at any  *)
(* await of a request, and a request at any await of the alarm's destroy().*)
(* Every await is a call to an interpreter, which handles it in one step   *)
(* (its own chain) and answers, or the call throws on the caller's side.   *)
(***************************************************************************)
EXTENDS Integers, FiniteSets

CONSTANTS
  Contexts,      \* context ids (random UUIDs, never minted twice)
  Bindings,      \* the runtime Workers
  MAX_CONTEXTS,  \* cap on both sides
  Faults,        \* which of "calls", "crash", "expiry" occur
  NONE

Threads == {"request", "alarm"}

(***************************************************************************)
(* A task is an operation at one of its awaits: the probe of a binding, or *)
(* a call that is in flight, answered, refused, or thrown.  "left" are the *)
(* bindings a destroy has not called yet.                                  *)
(***************************************************************************)
Tasks ==
  [op : {"create", "default", "run", "delete", "destroy"},
   step : {"probe", "call", "ok", "refused", "thrown"},
   context : Contexts \cup {NONE},
   binding : Bindings,
   left : SUBSET Bindings]

Task(op, step, c, b, left) ==
  [op |-> op, step |-> step, context |-> c, binding |-> b, left |-> left]

ASSUME CapAssumption    == MAX_CONTEXTS \in Nat
ASSUME NoneAssumption   == NONE \notin Bindings \cup Tasks

VARIABLES
  registry,  \* the sandbox's contexts table: the binding of each context, or NONE
  hosted,    \* per binding, the ids in its interpreter's contexts table
  task,      \* per thread: what it is doing, or NONE
  minted,    \* ids used so far
  acked,     \* history: contexts the client has been told exist, and not otherwise
  deleted,   \* history: contexts whose deletion was answered with success
  undisturbed  \* history: nothing failed or expired, the threads never overlapped

vars ==
  <<registry, hosted, task, minted, acked, deleted, undisturbed>>

Registered == {c \in Contexts : registry[c] # NONE}

Init ==
  /\ registry = [c \in Contexts |-> NONE]
  /\ hosted = [b \in Bindings |-> {}]
  /\ task = [t \in Threads |-> NONE]
  /\ minted = {}
  /\ acked = {}
  /\ deleted = {}
  /\ undisturbed = TRUE

--------------------------------------------------------------------------------
At(t, op, step) == task[t] # NONE /\ task[t].op = op /\ task[t].step = step

Continue(t, next) == task' = [task EXCEPT ![t] = next]
Return(t)         == Continue(t, NONE)

\* Requests wait for each other on the promise chain; alarm() waits for nothing.
Begin(t) ==
  /\ task[t] = NONE
  /\ undisturbed' = (undisturbed /\ \A u \in Threads : task[u] = NONE)

--------------------------------------------------------------------------------
\* Mutant: off by one.
AtMostCap == Cardinality(Registered) <= MAX_CONTEXTS

(***************************************************************************)
(* POST /contexts: the cap, then the probe, then the remote creation, then *)
(* the row.  POST /execute with a binding and no context of that binding   *)
(* probes first; its operation is "default", and it goes on to run.        *)
(***************************************************************************)
BelowCap == Cardinality(Registered) < MAX_CONTEXTS

CreateContext(b) ==
  /\ Begin("request")
  /\ BelowCap
  /\ Continue("request", Task("create", "probe", NONE, b, {}))
  /\ UNCHANGED <<registry, hosted, minted, acked, deleted>>

ExecuteDefault(b) ==
  /\ Begin("request")
  /\ \A c \in Registered : registry[c] # b
  /\ Continue("request", Task("default", "probe", NONE, b, {}))
  /\ UNCHANGED <<registry, hosted, minted, acked, deleted>>

Creating(step) == At("request", "create", step) \/ At("request", "default", step)

Probed ==
  /\ Creating("probe")
  /\ task["request"].op = "default" => BelowCap
  /\ \E c \in Contexts \ minted :
       /\ minted' = minted \cup {c}
       /\ Continue("request", [task["request"] EXCEPT !.step = "call", !.context = c])
  /\ UNCHANGED <<registry, hosted, acked, deleted, undisturbed>>

\* Not a runtime Worker, no contexts there (a stateless run), or over the cap.
ProbeFails ==
  /\ Creating("probe")
  /\ Return("request")
  /\ UNCHANGED <<registry, hosted, minted, acked, deleted, undisturbed>>

\* Mutant: id and binding swapped in the row.
SaveCreatedSwapped ==
  /\ Creating("ok")
  /\ LET req == task["request"]
     IN  /\ registry' = [registry EXCEPT ![req.context] = req.context]
         /\ acked' = acked \cup {req.context}
         /\ Return("request")
  /\ UNCHANGED <<hosted, minted, deleted, undisturbed>>

SaveCreated ==
  /\ Creating("ok")
  /\ LET req == task["request"]
     IN  /\ registry' = [registry EXCEPT ![req.context] = req.binding]
         /\ IF req.op = "create"
            THEN acked' = acked \cup {req.context} /\ Return("request")
            ELSE UNCHANGED acked
                 /\ Continue("request", [req EXCEPT !.op = "run", !.step = "call"])
  /\ UNCHANGED <<hosted, minted, deleted, undisturbed>>

CreateFails ==
  /\ Creating("refused") \/ Creating("thrown")
  /\ Return("request")
  /\ UNCHANGED <<registry, hosted, minted, acked, deleted, undisturbed>>

(***************************************************************************)
(* POST /execute in a context: the row loaded before the call is saved     *)
(* after it; CONTEXT_NOT_FOUND drops it.                                   *)
(***************************************************************************)
Execute(c) ==
  /\ Begin("request")
  /\ c \in Registered
  /\ Continue("request", Task("run", "call", c, registry[c], {}))
  /\ UNCHANGED <<registry, hosted, minted, acked, deleted>>

SaveRun ==
  /\ At("request", "run", "ok")
  /\ registry' = [registry EXCEPT ![task["request"].context] = task["request"].binding]
  /\ acked' = acked \cup {task["request"].context}
  /\ Return("request")
  /\ UNCHANGED <<hosted, minted, deleted, undisturbed>>

DropMissing ==
  /\ At("request", "run", "refused")
  /\ registry' = [registry EXCEPT ![task["request"].context] = NONE]
  /\ acked' = acked \ {task["request"].context}
  /\ Return("request")
  /\ UNCHANGED <<hosted, minted, deleted, undisturbed>>

RunFails ==
  /\ At("request", "run", "thrown")
  /\ Return("request")
  /\ UNCHANGED <<registry, hosted, minted, acked, deleted, undisturbed>>

(***************************************************************************)
(* DELETE /contexts/:id: the row goes whatever the interpreter answered.   *)
(***************************************************************************)
DeleteContext(c) ==
  /\ Begin("request")
  /\ c \in Registered
  /\ acked' = acked \ {c}
  /\ Continue("request", Task("delete", "call", c, registry[c], {}))
  /\ UNCHANGED <<registry, hosted, minted, deleted>>

\* Mutant: after a thrown call the row stays, and success is still answered.
FinishDeleteIfTold ==
  /\ \E step \in {"ok", "refused", "thrown"} : At("request", "delete", step)
  /\ registry' = IF task["request"].step = "thrown" THEN registry
                 ELSE [registry EXCEPT ![task["request"].context] = NONE]
  /\ deleted' = deleted \cup {task["request"].context}
  /\ Return("request")
  /\ UNCHANGED <<hosted, minted, acked, undisturbed>>

FinishDelete ==
  /\ \E step \in {"ok", "refused", "thrown"} : At("request", "delete", step)
  /\ registry' = [registry EXCEPT ![task["request"].context] = NONE]
  /\ deleted' = deleted \cup {task["request"].context}
  /\ Return("request")
  /\ UNCHANGED <<hosted, minted, acked, undisturbed>>

(***************************************************************************)
(* destroy(), on either thread: the bindings of the registry are read      *)
(* once, each is called in turn, then all storage is wiped.                *)
(***************************************************************************)
Wipe(t) ==
  /\ registry' = [c \in Contexts |-> NONE]
  /\ Return(t)

\* Mutant: the interpreters are not told.
CallNobody(t, left) == Wipe(t)

\* Mutant: a binding stays on the list.
CallAgain(t, left) ==
  IF left = {} THEN Wipe(t)
  ELSE /\ \E b \in left :
            Continue(t, Task("destroy", "call", NONE, b, left))
       /\ UNCHANGED registry

CallNext(t, left) ==
  IF left = {} THEN Wipe(t)
  ELSE /\ \E b \in left :
            Continue(t, Task("destroy", "call", NONE, b, left \ {b}))
       /\ UNCHANGED registry

StartDestroy(t) ==
  /\ acked' = {}
  /\ CallNext(t, {registry[c] : c \in Registered})
  /\ UNCHANGED <<hosted, minted, deleted>>

DestroySandbox == Begin("request") /\ StartDestroy("request")

\* The sandbox's idle TTL has passed.  Without contexts there is nothing to see.
AlarmFires ==
  /\ Begin("alarm")
  /\ Registered # {}
  /\ StartDestroy("alarm")

ContinueDestroy(t) ==
  /\ \E step \in {"ok", "thrown"} : At(t, "destroy", step)
  /\ CallNext(t, task[t].left)
  /\ UNCHANGED <<hosted, minted, acked, deleted, undisturbed>>

--------------------------------------------------------------------------------
(***************************************************************************)
(* The interpreter's side of the call of thread t.                         *)
(***************************************************************************)
Answer(t, step) == task' = [task EXCEPT ![t].step = step]

HostCreate ==
  /\ Creating("call")
  /\ LET c == task["request"].context
         b == task["request"].binding
     IN  IF Cardinality(hosted[b]) < MAX_CONTEXTS
         THEN /\ hosted' = [hosted EXCEPT ![b] = @ \cup {c}]
              /\ Answer("request", "ok")
         ELSE Answer("request", "refused") /\ UNCHANGED hosted
  /\ UNCHANGED <<registry, minted, acked, deleted, undisturbed>>

HostRun ==
  /\ At("request", "run", "call")
  /\ LET c == task["request"].context
         b == task["request"].binding
     IN  Answer("request", IF c \in hosted[b] THEN "ok" ELSE "refused")
  /\ UNCHANGED <<registry, hosted, minted, acked, deleted, undisturbed>>

HostDelete ==
  /\ At("request", "delete", "call")
  /\ LET c == task["request"].context
         b == task["request"].binding
     IN  /\ hosted' = [hosted EXCEPT ![b] = @ \ {c}]
         /\ Answer("request", IF c \in hosted[b] THEN "ok" ELSE "refused")
  /\ UNCHANGED <<registry, minted, acked, deleted, undisturbed>>

HostDestroy(t) ==
  /\ At(t, "destroy", "call")
  /\ hosted' = [hosted EXCEPT ![task[t].binding] = {}]
  /\ Answer(t, "ok")
  /\ UNCHANGED <<registry, minted, acked, deleted, undisturbed>>

(***************************************************************************)
(* Failures and time.  A thrown call may have been handled or not.         *)
(***************************************************************************)
CallThrows(t) ==
  /\ "calls" \in Faults
  /\ task[t] # NONE /\ task[t].step \in {"call", "ok", "refused"}
  /\ Answer(t, "thrown")
  /\ undisturbed' = FALSE
  /\ UNCHANGED <<registry, hosted, minted, acked, deleted>>

Crash ==
  /\ "crash" \in Faults
  /\ \E t \in Threads : task[t] # NONE
  /\ task' = [t \in Threads |-> NONE]
  /\ undisturbed' = FALSE
  /\ UNCHANGED <<registry, hosted, minted, acked, deleted>>

\* The interpreter's own alarm, its idle TTL after the last call that touched it.
InterpreterExpires(b) ==
  /\ "expiry" \in Faults
  /\ hosted[b] # {}
  /\ hosted' = [hosted EXCEPT ![b] = {}]
  /\ undisturbed' = FALSE
  /\ UNCHANGED <<registry, task, minted, acked, deleted>>

--------------------------------------------------------------------------------
Requests ==
  \/ \E b \in Bindings : CreateContext(b) \/ ExecuteDefault(b)
  \/ \E c \in Contexts : Execute(c) \/ DeleteContext(c)
  \/ DestroySandbox

Steps ==
  \/ Probed
  \/ ProbeFails
  \/ SaveCreated
  \/ CreateFails
  \/ SaveRun
  \/ DropMissing
  \/ RunFails
  \/ FinishDelete
  \/ HostCreate
  \/ HostRun
  \/ HostDelete
  \/ \E t \in Threads : ContinueDestroy(t) \/ HostDestroy(t)

Environment ==
  \/ AlarmFires
  \/ \E t \in Threads : CallThrows(t)
  \/ Crash
  \/ \E b \in Bindings : InterpreterExpires(b)

Next == Requests \/ Steps \/ Environment

Spec == Init /\ [][Next]_vars

(***************************************************************************)
(* Calls are answered or throw, and awaits resume.  Nothing obliges a      *)
(* client to send a request.                                               *)
(***************************************************************************)
FairSpec == Spec /\ WF_vars(Steps)

--------------------------------------------------------------------------------
(***************************************************************************)
(* Every variable has its type.                                            *)
(***************************************************************************)
TypeOK ==
  /\ registry \in [Contexts -> Bindings \cup {NONE}]
  /\ hosted \in [Bindings -> SUBSET Contexts]
  /\ task \in [Threads -> Tasks \cup {NONE}]
  /\ minted \subseteq Contexts
  /\ acked \subseteq Contexts
  /\ deleted \subseteq Contexts
  /\ undisturbed \in BOOLEAN

(***************************************************************************)
(* The caps hold, though the sandbox checks its own before two awaits      *)
(* ("at most 8 code contexts per sandbox, across all bindings").           *)
(***************************************************************************)
CapsHold ==
  /\ Cardinality(Registered) <= MAX_CONTEXTS
  /\ \A b \in Bindings : Cardinality(hosted[b]) <= MAX_CONTEXTS

(***************************************************************************)
(* A context whose deletion has been answered never comes back, although   *)
(* executions save the row they loaded before their call.                  *)
(***************************************************************************)
DeletedStaysDeleted == deleted \cap Registered = {}

(***************************************************************************)
(* A context the client was told exists is registered until the client     *)
(* deletes or destroys it, is told otherwise, or the sandbox starts to     *)
(* expire: nothing acknowledged is wiped afterwards.                       *)
(***************************************************************************)
AckedIsRegistered == acked \subseteq Registered

(***************************************************************************)
(* As long as nothing fails, no interpreter expires and the alarm does not *)
(* overlap a request, the interpreters host, between requests, exactly the *)
(* registered contexts.                                                    *)
(***************************************************************************)
HostedIsRegistered ==
  undisturbed /\ (\A t \in Threads : task[t] = NONE) =>
    \A b \in Bindings : hosted[b] = {c \in Contexts : registry[c] = b}

(***************************************************************************)
(* The sandbox's cap keeps every interpreter below its own: nothing but a  *)
(* disturbance makes an interpreter refuse a context the sandbox admits.   *)
(***************************************************************************)
CreateIsNotRefused == undisturbed => ~Creating("refused")

(***************************************************************************)
(* Every request is answered: no call, failure, crash or concurrent alarm  *)
(* leaves the promise chain waiting for ever.                              *)
(***************************************************************************)
RequestsComplete == task["request"] # NONE ~> task["request"] = NONE

================================================================================
