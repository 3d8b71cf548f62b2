-------------------------------- MODULE RunCode --------------------------------
(***************************************************************************)
(* The path of a call: from the SDK (packages/core/src/client.ts) or the   *)
(* Gateway Worker (src/index.ts) to the queue of the Sandbox Durable       *)
(* Object (sandbox.ts), from there to a runtime Worker (worker.ts) and its *)
(* interpreter (server.ts), and back to the caller's promise.              *)
(*                                                                         *)
(* Calls are runCode, setEnvVars and the File API's operations. A hop may  *)
(* fail before or after the code has run, the sandbox may crash with calls *)
(* in its queue, the caller may abort, the interpreter may expire.         *)
(* Environment variables are one variable: its value in the sandbox is the *)
(* call that set it last. The workspace is WorkspaceMirror's, memory       *)
(* InterpreterSnapshots', the life cycle of contexts SandboxContexts'.     *)
(***************************************************************************)
EXTENDS WireErrors, Sequences, SequencesExt, FiniteSets, FiniteSetsExt

CONSTANTS
  Calls,        \* the calls made; model values
  Requests,     \* what a call may ask for
  Bindings,     \* the names a request may give
  Kind,         \* what each name is bound to
  MaxContexts,  \* bound: contexts ever created
  Unset,        \* the variable has no value
  NoCall        \* no call has set the variable yet

\* The bodies of runCode, setEnvVars and the File API: where they are sent from, how a run names
\* its context, what is wrong with it, what it says of the variable, what the operation throws.
RunRequests ==
  [op : {"run"}, via : {"sdk", "gateway", "direct"}, ref : {"none", "context", "binding"},
   binding : Bindings, fault : {"none", "json", "size", "code too long", "env"},
   env : {"keep", "unset", "own"}]
EnvRequests == [op : {"env"}, via : {"sdk"}]
FileRequests ==
  [op : {"read", "write", "mkdir", "delete", "rename", "move", "list", "exists"}, via : {"sdk"},
   errno : Errnos \union {"none"}]

ASSUME RunCodeAssumption ==
  /\ Requests \subseteq RunRequests \union EnvRequests \union FileRequests
  /\ Kind \in [Bindings -> {"runtime", "stateless", "foreign", "missing"}]
  /\ MaxContexts \in Nat \ {0}
  /\ Unset \notin Calls /\ NoCall \notin Calls /\ Unset # NoCall

VARIABLES
  call,      \* each call: the locals of its handlers, and the caller's promise
  queue,     \* Sandbox.queue: the calls that have arrived and have not been answered
  env,       \* SandboxMeta.envVars: the value of the variable
  contexts,  \* the rows of the sandbox's table: default contexts, oldest first by id
  rows,      \* the ids the interpreters hold
  minted     \* the ids crypto.randomUUID has returned so far

vars == <<call, queue, env, contexts, rows, minted>>

None     == Response(0, "none")
Ok       == Response(200, "result")
Pending  == Rejection("pending", "none", 0)
Resolved == Rejection("resolved", "none", 0)
\* Rejected by something that is no answer of this system: a failed fetch, an abort, a callback.
Rejected == Rejection("Error", "none", 0)

Request(c)    == call[c].request
At(c, s)      == call[c].stage = s
Answered(c)   == call[c].promise # Pending
Becomes(c, x) == call' = [call EXCEPT ![c] = x]
Moves(c, s)   == Becomes(c, [call[c] EXCEPT !.stage = s])
InSandbox     == {"arrived", "begun", "probing", "creating", "rpc", "answered", "stateless"}

Init ==
  /\ call = [c \in Calls |->
       [stage |-> "new", request |-> [op |-> "none"], target |-> 0, meta |-> Unset,
        after |-> {}, ran |-> 0, saw |-> Unset, answer |-> None, thrown |-> None,
        reply |-> None, promise |-> Pending]]
  /\ queue = <<>>
  /\ env = NoCall
  /\ contexts = {}
  /\ rows = {}
  /\ minted = 0

(***************************************************************************)
(* The caller.                                                             *)
(***************************************************************************)
\* getSandbox(...).interpreter.runCode, setEnvVars, the file operations; a page calls the
\* Gateway instead; the free runCode goes straight to a runtime Worker. A caller names a
\* context it got, or one that never was (0).
Send(c, r, id) ==
  /\ At(c, "new")
  /\ id \in IF r.op = "run" /\ r.ref = "context" THEN 0 .. minted ELSE {0}
  /\ Becomes(c, [call[c] EXCEPT !.request = r, !.target = id,
                                !.stage = CASE r.via = "gateway" -> "gateway"
                                            [] r.via = "direct"  -> "direct"
                                            [] OTHER             -> "sent",
                                !.after = {d \in Calls : Answered(d)}])
  /\ UNCHANGED <<queue, env, contexts, rows, minted>>

Arrive(c) ==
  /\ At(c, "sent")
  /\ queue' = Append(queue, c)
  /\ Moves(c, "arrived")
  /\ UNCHANGED <<env, contexts, rows, minted>>

\* parseJsonResponse; the page reads the Gateway's answer itself.
Outcome(c) ==
  IF IsOk(call[c].reply) THEN Resolved
  ELSE IF Request(c).via = "gateway"
       THEN Rejection("none", call[c].reply.code, call[c].reply.status)
       ELSE parseError(call[c].reply)

\* validateExecutionResult.
Validated(c) ==
  IF Request(c).op = "run" /\ IsOk(call[c].reply) /\ call[c].reply.body # "result"
  THEN Rejection("SandboxError", "INTERNAL_ERROR", 500)
  ELSE Outcome(c)

Settle(c) ==
  /\ At(c, "replied")
  /\ Becomes(c, [call[c] EXCEPT !.stage = "settled",
                                !.promise = IF Answered(c) THEN @ ELSE Validated(c)])
  /\ UNCHANGED <<queue, env, contexts, rows, minted>>

\* dispatchRunCodeCallbacks: onStdout, onStderr, onResult or onError throws.
CallbackThrows(c) ==
  /\ At(c, "replied")
  /\ Request(c).op = "run" /\ Request(c).via # "gateway"
  /\ ~Answered(c)
  /\ Validated(c) = Resolved
  /\ Becomes(c, [call[c] EXCEPT !.stage = "settled", !.promise = Rejected])
  /\ UNCHANGED <<queue, env, contexts, rows, minted>>

\* options.signal or options.timeout: only the caller stops waiting.
Abort(c) ==
  /\ Request(c).op = "run" /\ Request(c).via # "gateway"
  /\ ~Answered(c)
  /\ Becomes(c, [call[c] EXCEPT !.promise = Rejected])
  /\ UNCHANGED <<queue, env, contexts, rows, minted>>

(***************************************************************************)
(* Answers. A handler's answer takes its request off the queue; thrown     *)
(* remembers the error as the hop that found it reported it.               *)
(***************************************************************************)
\* Mutant: fetch calls handle at once.
AnyArrived(c) == c \in ToSet(queue)

\* this.queue.then(run, run).
IsNext(c) == queue # <<>> /\ Head(queue) = c

\* Mutant: a queue that goes on only after a success.
TakenOffOnSuccess(c, r) == IF IsOk(r) /\ IsNext(c) THEN Tail(queue) ELSE queue

TakenOff(c, r) == IF IsNext(c) THEN Tail(queue) ELSE queue

\* Mutant: an answer of the runtime is reported as any other error.
RewrittenResponse(r) == IF IsOk(r) THEN r ELSE OtherError

\* RelayedResponse and rebuildResponse.
RelayedResponse(r) == r

\* The call x is given the answer r; thrown is what the hop that found the error reported.
WithReply(x, r, thrown) == [x EXCEPT !.stage = "replied", !.reply = r,
                                     !.thrown = IF IsOk(thrown) THEN None ELSE thrown]

Reply(c, x, r) == Becomes(c, WithReply(x, r, r)) /\ queue' = TakenOff(c, r)
Relay(c, x, r) == Becomes(c, WithReply(x, RelayedResponse(r), r)) /\ queue' = TakenOff(c, r)

(***************************************************************************)
(* The Gateway Worker.                                                     *)
(***************************************************************************)
\* The binding is forced; a contextId in the body still comes first.
Forward(r) == [r EXCEPT !.ref = IF @ = "none" THEN "binding" ELSE @]

GatewayRefuses(c) ==
  /\ At(c, "gateway")
  /\ Request(c).fault \in {"json", "size"}
  /\ Reply(c, call[c], IF Request(c).fault = "size" THEN TooLarge ELSE Invalid)
  /\ UNCHANGED <<env, contexts, rows, minted>>

GatewayForwards(c) ==
  /\ At(c, "gateway")
  /\ Request(c).fault \notin {"json", "size"}
  /\ Becomes(c, [call[c] EXCEPT !.stage = "sent", !.request = Forward(@)])
  /\ UNCHANGED <<queue, env, contexts, rows, minted>>

(***************************************************************************)
(* The sandbox: fetch and handle.                                          *)
(***************************************************************************)
\* ensureSandboxMeta gives the handler its own copy.
Begin(c) ==
  /\ At(c, "arrived") /\ IsNext(c)
  /\ Becomes(c, [call[c] EXCEPT !.stage = "begun", !.meta = env])
  /\ UNCHANGED <<queue, env, contexts, rows, minted>>

\* touchAlarm writes the copy back when it moves the alarm.
TouchAlarm(c) == env' \in {env, call[c].meta}

\* What is wrong with an /execute request, checked before anything is done.
Faulty(r) == r.fault # "none" \/ r.ref = "none"
FaultError(r) == IF r.fault \in {"size", "code too long"} THEN TooLarge ELSE Invalid

Refuse(c) ==
  /\ At(c, "begun") /\ Request(c).op = "run" /\ Faulty(Request(c))
  /\ Reply(c, call[c], FaultError(Request(c)))
  /\ UNCHANGED <<env, contexts, rows, minted>>

\* The row a request names, or the oldest one of its binding.
Named(c) == {x \in contexts : x.id = call[c].target}
Existing(c) == {x \in contexts : x.binding = Request(c).binding}
Oldest(s) == Min({x.id : x \in s})

FindContext(c) ==
  /\ At(c, "begun") /\ Request(c).op = "run" /\ ~Faulty(Request(c))
  /\ CASE Request(c).ref = "context" /\ Named(c) = {} -> Reply(c, call[c], NotFound)
       [] Request(c).ref = "context" /\ Named(c) # {} ->
            Moves(c, "rpc") /\ UNCHANGED queue
       [] Request(c).ref = "binding" /\ Existing(c) # {} ->
            Becomes(c, [call[c] EXCEPT !.stage = "rpc", !.target = Oldest(Existing(c))]) /\ UNCHANGED queue
       [] OTHER -> Moves(c, "probing") /\ UNCHANGED queue
  /\ UNCHANGED <<env, contexts, rows, minted>>

\* probeBinding; any failure of the probe reads as "not a runtime Worker".
Probe(c) ==
  /\ At(c, "probing")
  /\ \/ Reply(c, call[c], Invalid)
     \/ /\ Kind[Request(c).binding] = "stateless"
        /\ Moves(c, "stateless") /\ UNCHANGED queue
     \/ /\ Kind[Request(c).binding] = "runtime"
        /\ Moves(c, "creating") /\ UNCHANGED queue
  /\ UNCHANGED <<env, contexts, rows, minted>>

\* registerContext: the interpreter's row, then the sandbox's.
Register(c) ==
  /\ At(c, "creating") /\ minted < MaxContexts
  /\ minted' = minted + 1
  /\ rows' = rows \union {minted'}
  /\ contexts' = contexts \union {[id |-> minted', binding |-> Request(c).binding]}
  /\ Becomes(c, [call[c] EXCEPT !.stage = "rpc", !.target = minted'])
  /\ UNCHANGED <<queue, env>>

\* The interpreter refuses (it is full, or it fails): its answer is relayed. Or the fetch
\* throws, before or after the interpreter has made its row.
RegisterFails(c) ==
  /\ At(c, "creating")
  /\ \/ \E r \in {Invalid, OtherError} : Relay(c, call[c], r) /\ UNCHANGED <<rows, minted>>
     \/ Reply(c, call[c], OtherError) /\ UNCHANGED <<rows, minted>>
     \/ /\ minted < MaxContexts /\ minted' = minted + 1 /\ rows' = rows \union {minted'}
        /\ Reply(c, call[c], OtherError)
  /\ UNCHANGED <<env, contexts>>

(***************************************************************************)
(* The runtime Worker and its interpreter.                                 *)
(***************************************************************************)
\* Mutant: null in the call's own variables is a value.
NullIsAValue(sandboxEnv, callEnv) == IF callEnv = "keep" THEN sandboxEnv ELSE "own"

\* computeExecutionEnv: this call's variable over the sandbox's, null unsets.
computeExecutionEnv(sandboxEnv, callEnv) ==
  CASE callEnv = "keep"  -> sandboxEnv
    [] callEnv = "unset" -> Unset
    [] OTHER             -> "own"

HasContext(c) == call[c].target \in rows

\* The call after the code has run, with the variables of the sandbox and its own.
Run(c, sandboxEnv) ==
  [call[c] EXCEPT !.ran = @ + 1, !.saw = computeExecutionEnv(sandboxEnv, Request(c).env)]
RunWithMeta(c) == Run(c, call[c].meta)

\* executeInContextImpl: ok, or an error from before the run (a file that cannot be
\* pulled) or after it (the alarm).
HostRuns(c) ==
  /\ At(c, "rpc") /\ HasContext(c)
  /\ \/ \E a \in {Ok, OtherError} :
          Becomes(c, [RunWithMeta(c) EXCEPT !.stage = "answered", !.answer = a])
     \/ Becomes(c, [call[c] EXCEPT !.stage = "answered", !.answer = ErrorBody(500, "INTERNAL_ERROR")])
  /\ UNCHANGED <<queue, env, contexts, rows, minted>>

HostHasNoContext(c) ==
  /\ At(c, "rpc") /\ ~HasContext(c)
  /\ Becomes(c, [call[c] EXCEPT !.stage = "answered", !.answer = NotFound])
  /\ UNCHANGED <<queue, env, contexts, rows, minted>>

\* The runtime Worker of a sandbox that crashed goes on by itself; a stateless run has no
\* context (0).
OrphanRuns(c) ==
  /\ At(c, "orphan") /\ call[c].target \in rows \union {0}
  /\ Becomes(c, [RunWithMeta(c) EXCEPT !.stage = "gone"])
  /\ UNCHANGED <<queue, env, contexts, rows, minted>>

\* POST /execute on the runtime Worker: whatever the engine does is a result.
StatelessAnswers(c) ==
  /\ At(c, "stateless")
  /\ Relay(c, RunWithMeta(c), Ok)
  /\ TouchAlarm(c)
  /\ UNCHANGED <<contexts, rows, minted>>

\* Its body is read again there, and may have grown past the limit; or the fetch throws,
\* before or after the run.
StatelessFails(c) ==
  /\ At(c, "stateless")
  /\ \/ Relay(c, call[c], TooLarge) /\ TouchAlarm(c)
     \/ Reply(c, call[c], OtherError) /\ UNCHANGED env
     \/ Reply(c, RunWithMeta(c), OtherError) /\ UNCHANGED env
  /\ UNCHANGED <<contexts, rows, minted>>

\* What the runtime Worker makes of a request it is given directly.
readExecution(r) == IF r.fault = "none" THEN Ok ELSE FaultError(r)

\* The free runCode. A binding that is no runtime Worker answers as it likes.
ForeignAnswers ==
  {Response(404, "text"), Response(404, "json"), Response(200, "json")}

DirectAnswers(c) ==
  /\ At(c, "direct")
  /\ LET r == Request(c) IN
     CASE Kind[r.binding] = "foreign" -> \E a \in ForeignAnswers : Reply(c, call[c], a)
       [] Kind[r.binding] = "missing" ->
            Becomes(c, [call[c] EXCEPT !.stage = "settled", !.promise = IF Answered(c) THEN @ ELSE Rejected])
            /\ UNCHANGED queue
       [] OTHER -> Reply(c, IF IsOk(readExecution(r)) THEN Run(c, Unset) ELSE call[c], readExecution(r))
  /\ UNCHANGED <<env, contexts, rows, minted>>

(***************************************************************************)
(* The sandbox again: the answer of the interpreter.                       *)
(***************************************************************************)
\* Mutant: the row stays.
KeepRow(c) == contexts
DropRow(c) == {x \in contexts : x.id # call[c].target}

\* Mutant: the error leaves out its code, and ApiError's default is VALIDATION_FAILED.
RpcErrorByDefault == ApiError(502, "VALIDATION_FAILED")
RpcError == ApiError(502, "INTERNAL_ERROR")

\* Mutant: a failed RPC is tried once more.
RetryRpc(c) ==
  IF call[c].ran < 2 THEN Moves(c, "rpc") /\ UNCHANGED queue
  ELSE Reply(c, call[c], RpcError)

RpcFailed(c) == Reply(c, call[c], RpcError)

\* The RPC itself fails, before or after the interpreter answered it.
RpcFails(c) ==
  /\ At(c, "rpc") \/ At(c, "answered")
  /\ RpcFailed(c)
  /\ UNCHANGED <<env, contexts, rows, minted>>

\* applyInterpreterResult.
ContextIsGone(c) ==
  /\ At(c, "answered") /\ call[c].answer.code = "CONTEXT_NOT_FOUND"
  /\ contexts' = DropRow(c)
  /\ Reply(c, call[c], NotFound)
  /\ UNCHANGED <<env, rows, minted>>

RelayError(c) ==
  /\ At(c, "answered") /\ ~IsOk(call[c].answer) /\ call[c].answer.code # "CONTEXT_NOT_FOUND"
  /\ Relay(c, call[c], call[c].answer)
  /\ UNCHANGED <<env, contexts, rows, minted>>

\* The rest of handleExecute: persistWorkspace may throw.
EndRun(c) ==
  /\ At(c, "answered") /\ IsOk(call[c].answer)
  /\ \/ Reply(c, call[c], Ok) /\ TouchAlarm(c)
     \/ Reply(c, call[c], OtherError) /\ UNCHANGED env
  /\ UNCHANGED <<contexts, rows, minted>>

\* handleSetEnv.
SetEnv(c) ==
  /\ At(c, "begun") /\ Request(c).op = "env"
  /\ env' = c
  /\ Reply(c, call[c], Ok)
  /\ UNCHANGED <<contexts, rows, minted>>

\* handleFiles: it succeeds, or a workspace operation throws an errno.
Files(c) ==
  /\ At(c, "begun") /\ Request(c).op \notin {"run", "env"}
  /\ IF Request(c).errno = "none"
     THEN Reply(c, call[c], Ok) /\ TouchAlarm(c)
     ELSE Reply(c, call[c], errnoErrorBody(Request(c).op, Request(c).errno)) /\ UNCHANGED env
  /\ UNCHANGED <<contexts, rows, minted>>

(***************************************************************************)
(* Faults.                                                                 *)
(***************************************************************************)
\* The sandbox's isolate dies: memory and queue are gone, the tables stay. The fetch of every
\* call inside it rejects; the Gateway answers 502 for it.
AfterCrash(x) ==
  [x EXCEPT !.stage = IF @ \in {"rpc", "stateless"} THEN "orphan" ELSE "gone",
            !.promise = IF @ # Pending THEN @
                        ELSE IF x.request.via = "gateway"
                             THEN Rejection("none", "INTERNAL_ERROR", 502) ELSE Rejected]

Crash ==
  /\ queue # <<>>
  /\ call' = [c \in Calls |-> IF call[c].stage \in InSandbox THEN AfterCrash(call[c]) ELSE call[c]]
  /\ queue' = <<>>
  /\ UNCHANGED <<env, contexts, rows, minted>>

\* The interpreter's alarm destroys it.
InterpreterExpires ==
  /\ rows # {}
  /\ rows' = {}
  /\ UNCHANGED <<call, queue, env, contexts, minted>>

(***************************************************************************)
(* The specification.                                                      *)
(***************************************************************************)
\* What the code and the platform do for a call once it is sent.
Progress(c) ==
  \/ Arrive(c) \/ GatewayRefuses(c) \/ GatewayForwards(c)
  \/ Begin(c) \/ Refuse(c) \/ FindContext(c) \/ Probe(c) \/ Register(c) \/ RegisterFails(c)
  \/ HostRuns(c) \/ HostHasNoContext(c) \/ RpcFails(c)
  \/ StatelessAnswers(c) \/ StatelessFails(c) \/ DirectAnswers(c)
  \/ ContextIsGone(c) \/ RelayError(c) \/ EndRun(c) \/ SetEnv(c) \/ Files(c)
  \/ Settle(c)

Next ==
  \/ \E c \in Calls : \/ \E r \in Requests, id \in 0 .. MaxContexts : Send(c, r, id)
                      \/ Progress(c) \/ CallbackThrows(c) \/ Abort(c) \/ OrphanRuns(c)
  \/ Crash
  \/ InterpreterExpires

Spec == Init /\ [][Next]_vars

(***************************************************************************)
(* Properties.                                                             *)
(***************************************************************************)
Stages == InSandbox \union {"new", "sent", "gateway", "direct", "replied", "settled", "orphan", "gone"}

\* The variables keep their shape.
TypeOK ==
  /\ \A c \in Calls : /\ call[c].stage \in Stages
                      /\ call[c].target \in 0 .. minted
                      /\ call[c].ran \in Nat
                      /\ call[c].after \subseteq Calls
  /\ ToSet(queue) = {c \in Calls : call[c].stage \in InSandbox}
  /\ IsInjective(queue)
  /\ env \in Calls \union {NoCall}
  /\ contexts \subseteq [id : 1 .. MaxContexts, binding : Bindings]
  /\ rows \subseteq 1 .. minted
  /\ minted \in 0 .. MaxContexts

\* What an answer says of the run holds: a request refused with a code of its own (any but
\* INTERNAL_ERROR) has not run and never will, so the caller may send it again; one that is
\* answered with a result has run exactly once, whatever hop failed on the way.
RefusedMeansNotRun ==
  \A c \in Calls : call[c].promise.code \in ErrorCode \ {"INTERNAL_ERROR"} => call[c].ran = 0

\* No failure of a hop makes the code run twice, and a result is of a run.
RunsAtMostOnce ==
  \A c \in Calls :
    /\ call[c].ran <= 1
    /\ Request(c).op = "run" /\ call[c].promise = Resolved => call[c].ran = 1

\* The error the caller gets has the code and the status the hop that found it reported,
\* through every relay (RelayedResponse, rebuildResponse, parseJsonResponse).
ErrorsKeepTheirIdentity ==
  \A c \in Calls :
    call[c].thrown.body = "error" /\ At(c, "settled") /\ call[c].promise # Rejected =>
      /\ call[c].promise.code = call[c].thrown.code
      /\ call[c].promise.httpStatus = call[c].thrown.status

\* Once a caller has been told that a context does not exist, the sandbox has no row for it:
\* the next runCode with a binding gets a new context and not the same answer again.
NotFoundMeansDropped ==
  \A c \in Calls :
    call[c].promise.code = "CONTEXT_NOT_FOUND" => call[c].target \notin {x.id : x \in contexts}

\* What the caller is told is what happened: to the run, and to the context.
ToldIsTrue == TypeOK /\ RefusedMeansNotRun /\ RunsAtMostOnce /\ NotFoundMeansDropped

\* Requests that name a binding share one context: two calls at once do not make two.
OneDefaultContext ==
  \A x, y \in contexts : x.binding = y.binding => x = y

\* setEnvVars is atomic: a run sent after a setEnvVars was confirmed never sees a value from
\* before it, neither because its handler had read the variables earlier nor because another
\* handler wrote its own copy back over them.
Overtaken(w, r) ==
  \E c \in call[r].after :
    /\ Request(c).op = "env" /\ call[c].promise = Resolved
    /\ w = NoCall \/ (w \in Calls /\ w \in call[c].after)

RunSeesConfirmedEnv ==
  \A c \in Calls :
    /\ Request(c).op = "run" /\ Request(c).via # "direct" /\ call[c].ran > 0
    /\ Request(c).env = "keep"
    => ~Overtaken(call[c].saw, c)

\* A call's own variables have the last word over the sandbox's, null included.
CallEnvWins ==
  \A c \in Calls :
    Request(c).op = "run" /\ call[c].ran > 0 =>
      /\ Request(c).env = "own" => call[c].saw = "own"
      /\ Request(c).env = "unset" => call[c].saw = Unset

\* A run sees the variables it was promised.
EnvIsConfirmed == RunSeesConfirmedEnv /\ CallEnvWins

\* A call whose next step nobody else has to make first: it is between two hops, or its
\* handler is at the head of the queue.
CanGoOn(c) ==
  \/ call[c].stage \in {"gateway", "sent", "direct", "replied"}
  \/ call[c].stage \in InSandbox /\ IsNext(c)

\* Whatever the requests before it ended with, there is a next step for the head of the queue,
\* and for every call outside the queue that has been sent and not been answered.
NobodyIsLeftBehind ==
  /\ queue # <<>> => CanGoOn(Head(queue))
  /\ \A c \in Calls :
       Answered(c) \/ At(c, "new") \/ c \in ToSet(queue) \/ CanGoOn(c)

\* Nobody waits for ever: there is a next step for somebody, and the code can make it. No step
\* of a call leads back, so what can be done is done in the end.
NobodyIsStuck ==
  NobodyIsLeftBehind /\ \A c \in Calls : CanGoOn(c) => ENABLED Progress(c)

\* A response that is not an ErrorResponse is described by its HTTP status.
HttpStatusIsDescribed ==
  \A c \in Calls :
    call[c].thrown.body \in {"text", "json"} /\ At(c, "settled") /\ call[c].promise # Rejected =>
      call[c].promise.httpStatus = call[c].thrown.status
================================================================================
