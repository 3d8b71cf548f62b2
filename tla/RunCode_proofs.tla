----------------------------- MODULE RunCode_proofs -----------------------------
(***************************************************************************)
(* Proofs about RunCode, for any number of calls, any requests and any     *)
(* number of contexts.                                                     *)
(***************************************************************************)
EXTENDS RunCode, TLAPS

(***************************************************************************)
(* What can be said of one call, whatever the others do.                   *)
(***************************************************************************)
Codes      == ErrorCode \union {"none"}
Responses  == [status : Nat, body : {"none", "result", "error", "text", "json"}, code : Codes, httpStatus : Nat]
Classes    ==
  {"pending", "resolved", "none", "Error", "FileNotFoundError", "FileExistsError", "FileTooLargeError",
   "PermissionDeniedError", "FileSystemError", "ContextNotFoundError", "ValidationFailedError",
   "CodeExecutionError", "NotSupportedError", "SandboxError"}
Rejections == [class : Classes, code : Codes, httpStatus : Nat]
Asked      == RunRequests \union EnvRequests \union FileRequests \union {[op |-> "none"]}
Values     == Calls \union {NoCall, Unset, "own"}

CallRecords ==
  [stage : Stages, request : Asked, target : Nat, meta : Values, after : SUBSET Calls, ran : Nat,
   saw : Values, answer : Responses, thrown : Responses, reply : Responses, promise : Rejections]

BadGateway == Rejection("none", "INTERNAL_ERROR", 502)
Handled    == InSandbox \ {"arrived"}
InRun      == {"probing", "creating", "rpc", "stateless", "answered", "orphan"}
NotRun     == {"new", "sent", "gateway", "direct", "arrived", "begun", "probing", "creating", "rpc",
               "stateless", "orphan"}
Closed     == {"settled", "orphan", "gone"}

\* An error has a code of the table and its own status; anything else has none.
WellFormed(r) ==
  /\ r.body = "error" => r.code \in ErrorCode /\ r.httpStatus = r.status /\ ~IsOk(r)
  /\ r.body # "error" => r.code = "none"
Refusal(code) == code \in ErrorCode \ {"INTERNAL_ERROR"}

\* Only a run gets to the steps of a run.
AsksFor(x) ==
  /\ x.stage \in InRun \union {"gateway", "direct"} => x.request \in RunRequests
  /\ x.stage = "direct" => x.request.via = "direct"

\* How often the code has run at each step, and what the answer on its way says of it.
Counted(x) ==
  /\ x.ran <= 1
  /\ x.stage \in NotRun => x.ran = 0
  /\ x.stage = "answered" =>
       /\ WellFormed(x.answer)
       /\ IsOk(x.answer) => x.ran = 1
       /\ Refusal(x.answer.code) => x.ran = 0

Replied(x) ==
  x.stage = "replied" =>
    /\ WellFormed(x.reply)
    /\ x.thrown = IF IsOk(x.reply) THEN None ELSE x.reply
    /\ Refusal(x.reply.code) => x.ran = 0
    /\ x.request.op = "run" /\ IsOk(x.reply) /\ x.reply.body = "result" => x.ran = 1

\* The promise is kept until the call is over; only a run can be aborted before.
Promised(x) ==
  /\ x.stage \notin Closed => x.promise \in {Pending, Rejected}
  /\ x.stage \in {"orphan", "gone"} => x.promise \in {Rejected, BadGateway}
  /\ x.stage \notin Closed /\ x.request.op # "run" => x.promise = Pending
  /\ x.stage = "new" => x.request.op = "none"
  /\ x.stage = "settled" => x.promise # Pending

Told(x) ==
  /\ Refusal(x.promise.code) => x.ran = 0
  /\ x.request.op = "run" /\ x.promise = Resolved => x.ran = 1
  /\ x.thrown.body = "error" /\ x.stage = "settled" /\ x.promise # Rejected =>
       x.promise.code = x.thrown.code /\ x.promise.httpStatus = x.thrown.status

Saw(x) ==
  x.request.op = "run" /\ x.ran > 0 =>
    /\ x.request.env = "own" => x.saw = "own"
    /\ x.request.env = "unset" => x.saw = Unset

Sound(x) == AsksFor(x) /\ Counted(x) /\ Replied(x) /\ Promised(x) /\ Told(x) /\ Saw(x)

(***************************************************************************)
(* What can be said of all of them, and of the sandbox.                    *)
(***************************************************************************)
Types ==
  /\ call \in [Calls -> CallRecords]
  /\ queue \in Seq(Calls)
  /\ env \in Calls \union {NoCall}
  /\ contexts \subseteq [id : 1 .. minted, binding : Bindings]
  /\ rows \subseteq 1 .. minted
  /\ minted \in 0 .. MaxContexts

EachIsSound == \A c \in Calls : Sound(call[c])

\* The queue holds what is in the sandbox, once; only its head is handled.
Queued ==
  /\ ToSet(queue) = {c \in Calls : call[c].stage \in InSandbox}
  /\ IsInjective(queue)
  /\ \A c \in Calls : call[c].stage \in Handled => IsNext(c)

\* A handler that is about to create a context has seen that its binding has none; who is
\* told that a context is gone named one that has no row.
Ids == {x.id : x \in contexts}
Tabled ==
  /\ \A c \in Calls :
       /\ call[c].target <= minted
       /\ call[c].stage \in {"probing", "creating"} => Existing(c) = {}
       /\ call[c].promise.code = "CONTEXT_NOT_FOUND" => call[c].target \notin Ids
       /\ At(c, "replied") /\ call[c].reply.code = "CONTEXT_NOT_FOUND" => call[c].target \notin Ids
  /\ OneDefaultContext

\* Who was answered before a call was sent stays answered; a setEnvVars that has been
\* applied is newer than what the variable held when it was sent; the copy a handler has
\* read is the variable as it is, and is never older than what was confirmed to its caller.
Older(w, s)  == w = NoCall \/ (w \in Calls /\ w \in s)
Applied(c)   == Request(c).op = "env" /\ (call[c].promise = Resolved \/ (At(c, "replied") /\ IsOk(call[c].reply)))
Confirmed(c) == Request(c).op = "env" /\ call[c].promise = Resolved

Ordered ==
  /\ \A c \in Calls : /\ \A d \in call[c].after : Answered(d)
                      /\ Applied(c) => ~Older(env, call[c].after)
                      /\ call[c].stage \in Handled => call[c].meta = env
                      /\ call[c].stage \in Handled \union {"orphan"} =>
                           \A d \in call[c].after : Confirmed(d) => ~Older(call[c].meta, call[d].after)
  /\ RunSeesConfirmedEnv

IInv == Types /\ EachIsSound /\ Queued /\ Tabled /\ Ordered

USE RunCodeAssumption

(***************************************************************************)
(* Answers.                                                                *)
(***************************************************************************)
\* The answers the code makes up are responses, and say what they mean.
LEMMA MadeUp ==
  /\ \A r \in {None, Ok, Invalid, TooLarge, NotFound, OtherError, RpcError,
               ErrorBody(500, "INTERNAL_ERROR")} : r \in Responses /\ WellFormed(r)
  /\ IsOk(Ok) /\ Ok.body = "result" /\ None.body = "none" /\ ~IsOk(None)
  /\ \A r \in {Invalid, TooLarge, NotFound, OtherError, RpcError, ErrorBody(500, "INTERNAL_ERROR")} :
       ~IsOk(r) /\ r.body = "error"
  /\ \A r \in {None, Ok, OtherError, RpcError, ErrorBody(500, "INTERNAL_ERROR")} : ~Refusal(r.code)
  /\ NotFound.code = "CONTEXT_NOT_FOUND"
  /\ \A r \in {None, Ok, Invalid, TooLarge, OtherError, RpcError, ErrorBody(500, "INTERNAL_ERROR")} :
       r.code # "CONTEXT_NOT_FOUND"
  BY DEF None, Ok, Invalid, TooLarge, NotFound, OtherError, RpcError, ErrorBody, ApiError, Response,
         Responses, WellFormed, IsOk, Codes, ErrorCode, Refusal

\* What a binding that is no runtime Worker answers is no ErrorResponse.
LEMMA ForeignTyped ==
  ASSUME NEW r \in ForeignAnswers
  PROVE  r \in Responses /\ WellFormed(r) /\ r.code = "none" /\ ~Refusal(r.code) /\ r.body # "result"
  BY DEF ForeignAnswers, Response, Responses, WellFormed, Codes, Refusal, ErrorCode

\* The errors of the File API have a code of the table, and it is never CONTEXT_NOT_FOUND.
LEMMA ErrnoTyped ==
  ASSUME NEW op, NEW errno
  PROVE  /\ errnoErrorBody(op, errno) \in Responses /\ WellFormed(errnoErrorBody(op, errno))
         /\ ~IsOk(errnoErrorBody(op, errno))
         /\ errnoErrorBody(op, errno).code # "CONTEXT_NOT_FOUND"
  <1> DEFINE code == codeOverride(op, errno)
  <1>1. code \in ErrorCode /\ code # "CONTEXT_NOT_FOUND"
    BY DEF codeOverride, errorCodeForErrno, ErrorCode
  <1>2. httpStatusForCode(code) \in {400, 403, 404, 409, 413, 500}
    BY DEF httpStatusForCode
  <1>3. errnoErrorBody(op, errno) =
          [status |-> httpStatusForCode(code), body |-> "error", code |-> code,
           httpStatus |-> httpStatusForCode(code)]
    BY DEF errnoErrorBody, ErrorBody
  <1> HIDE DEF code
  <1> QED BY <1>1, <1>2, <1>3 DEF Responses, WellFormed, IsOk, Codes

\* What the page of an interpreter makes of a request: a result, or a refusal of the request.
LEMMA FaultTyped ==
  ASSUME NEW r
  PROVE  /\ FaultError(r) \in {TooLarge, Invalid}
         /\ readExecution(r) \in {Ok, TooLarge, Invalid}
  BY DEF FaultError, readExecution

\* The promises.
LEMMA PromiseTyped ==
  /\ {Pending, Resolved, Rejected, BadGateway} \subseteq Rejections
  /\ Pending # Rejected /\ Pending # BadGateway /\ Resolved # Rejected /\ Resolved # Pending
  /\ Resolved # BadGateway /\ Rejected # BadGateway
  /\ \A p \in {Pending, Resolved, Rejected, BadGateway} :
       ~Refusal(p.code) /\ p.code # "CONTEXT_NOT_FOUND"
  BY DEF Pending, Resolved, Rejected, BadGateway, Rejection, Rejections, Classes, Codes, ErrorCode, Refusal

\* What parseJsonResponse and validateExecutionResult make of an answer: the promise resolves
\* only for a success, and is else rejected with the code and the status of the ErrorResponse.
LEMMA ValidatedSays ==
  ASSUME NEW c \in Calls, call[c] \in CallRecords, WellFormed(call[c].reply)
  PROVE  /\ Validated(c) \in Rejections
         /\ Refusal(Validated(c).code) => Validated(c).code = call[c].reply.code
         /\ Validated(c).code = "CONTEXT_NOT_FOUND" => call[c].reply.code = "CONTEXT_NOT_FOUND"
         /\ Validated(c) # Pending
         /\ Validated(c) = Resolved =>
              IsOk(call[c].reply) /\ (Request(c).op = "run" => call[c].reply.body = "result")
         /\ call[c].reply.body = "error" =>
              /\ Validated(c).code = call[c].reply.code
              /\ Validated(c).httpStatus = call[c].reply.httpStatus
  <1> DEFINE r == call[c].reply
  <1>1. /\ r \in Responses /\ r.status \in Nat /\ r.code \in Codes /\ r.httpStatus \in Nat
        /\ r.body \in {"none", "result", "error", "text", "json"}
    BY DEF CallRecords, Responses
  <1>2. ClassOf(r.code) \in Classes \ {"pending", "resolved"}
    BY DEF ClassOf, Classes
  <1>3. CASE IsOk(r)
    <2>1. r.body # "error"
      BY <1>3 DEF WellFormed
    <2>0. Outcome(c) = Resolved
      BY <1>3 DEF Outcome
    <2>2. Validated(c) = Resolved \/ Validated(c) = Rejection("SandboxError", "INTERNAL_ERROR", 500)
      BY <2>0 DEF Validated
    <2>3. Validated(c) = Resolved => (Request(c).op = "run" => r.body = "result")
      <3>1. Rejection("SandboxError", "INTERNAL_ERROR", 500) # Resolved
        BY DEF Rejection, Resolved
      <3> QED BY <1>3, <3>1 DEF Validated
    <2>4. Validated(c) # Pending
      BY <2>2 DEF Rejection, Resolved, Pending
    <2> QED BY <1>3, <2>1, <2>2, <2>3, <2>4, PromiseTyped
            DEF Rejection, Rejections, Classes, Codes, ErrorCode, Refusal
  <1>4. CASE ~IsOk(r)
    <2>1. \/ Validated(c) = Rejection("none", r.code, r.status)
          \/ r.body = "error" /\ Validated(c) = Rejection(ClassOf(r.code), r.code, r.httpStatus)
          \/ r.body # "error" /\ \E s \in {r.status, 500} : Validated(c) = Rejection("SandboxError", "INTERNAL_ERROR", s)
      BY <1>4 DEF Validated, Outcome, parseError, createErrorFromResponse, StatusGiven
    <2>2. r.body = "error" => r.httpStatus = r.status
      BY DEF WellFormed
    <2> QED BY <1>1, <1>2, <2>1, <2>2 DEF Rejection, Rejections, Classes, Codes, ErrorCode, Refusal, Resolved, Pending
  <1> QED BY <1>3, <1>4

(***************************************************************************)
(* The record of one call.                                                 *)
(***************************************************************************)
\* Its fields.
LEMMA Fields ==
  ASSUME NEW x \in CallRecords
  PROVE  /\ x.stage \in Stages /\ x.request \in Asked /\ x.target \in Nat /\ x.meta \in Values
         /\ x.after \subseteq Calls /\ x.ran \in Nat /\ x.saw \in Values
         /\ x.answer \in Responses /\ x.thrown \in Responses /\ x.reply \in Responses
         /\ x.promise \in Rejections
  BY DEF CallRecords

\* One call changes and the others do not.
LEMMA Change ==
  ASSUME call \in [Calls -> CallRecords], NEW c \in Calls, NEW x \in CallRecords, Becomes(c, x)
  PROVE  /\ call' \in [Calls -> CallRecords]
         /\ call'[c] = x
         /\ \A d \in Calls : d # c => call'[d] = call[d]
  BY DEF Becomes

\* The runs are told from the other requests by op, and the Gateway changes nothing but ref.
LEMMA RequestsDiffer ==
  ASSUME NEW r \in Asked
  PROVE  /\ r.op = "run" => r \in RunRequests
         /\ r \in RunRequests => /\ r.op = "run" /\ r.via \in {"sdk", "gateway", "direct"}
                                 /\ r.binding \in Bindings
         /\ r \in Requests /\ r.via \in {"gateway", "direct"} => r \in RunRequests
         /\ r \in RunRequests => /\ Forward(r) \in RunRequests /\ Forward(r).op = "run"
                                 /\ Forward(r).via = r.via /\ Forward(r).env = r.env
  <1>1. r.op = "run" => r \in RunRequests
    BY DEF Asked, EnvRequests, FileRequests
  <1>2. r \in RunRequests => /\ r.op = "run" /\ r.via \in {"sdk", "gateway", "direct"}
                            /\ r.binding \in Bindings
    BY DEF RunRequests
  <1>3. r \in Requests /\ r.via \in {"gateway", "direct"} => r \in RunRequests
    BY DEF EnvRequests, FileRequests
  <1>4. ASSUME r \in RunRequests
        PROVE  /\ Forward(r) \in RunRequests /\ Forward(r).op = "run"
               /\ Forward(r).via = r.via /\ Forward(r).env = r.env
    <2>1. PICK v \in {"none", "context", "binding"} : v = IF r.ref = "none" THEN "binding" ELSE r.ref
      BY <1>4 DEF RunRequests
    <2>2. Forward(r) = [r EXCEPT !.ref = v]
      BY <2>1 DEF Forward
    <2> QED BY <2>1, <2>2, <1>4 DEF RunRequests
  <1> QED BY <1>1, <1>2, <1>3, <1>4

\* A call that only moves on.
LEMMA MoveTyped ==
  ASSUME NEW y \in CallRecords, NEW s \in Stages
  PROVE  LET x == [y EXCEPT !.stage = s]
         IN  /\ x \in CallRecords /\ x.stage = s
             /\ x.request = y.request /\ x.target = y.target /\ x.meta = y.meta /\ x.after = y.after
             /\ x.ran = y.ran /\ x.saw = y.saw /\ x.answer = y.answer /\ x.thrown = y.thrown
             /\ x.reply = y.reply /\ x.promise = y.promise
  BY DEF CallRecords

\* The code runs.
LEMMA RunTyped ==
  ASSUME NEW c \in Calls, call[c] \in CallRecords, NEW e \in Values
  PROVE  LET x == Run(c, e)
             y == call[c]
         IN  /\ x \in CallRecords /\ x.ran = y.ran + 1
             /\ x.saw = computeExecutionEnv(e, y.request.env)
             /\ x.stage = y.stage
             /\ x.request = y.request /\ x.target = y.target /\ x.meta = y.meta /\ x.after = y.after
             /\ x.answer = y.answer /\ x.thrown = y.thrown /\ x.reply = y.reply
             /\ x.promise = y.promise
  <1>1. computeExecutionEnv(e, call[c].request.env) \in Values
    BY DEF computeExecutionEnv, Values
  <1>2. call[c].ran \in Nat
    BY Fields
  <1>3. PICK v \in Values, n \in Nat : v = computeExecutionEnv(e, call[c].request.env) /\ n = call[c].ran + 1
    BY <1>1, <1>2
  <1>4. Run(c, e) = [call[c] EXCEPT !.ran = n, !.saw = v]
    BY <1>3 DEF Run, Request
  <1>5. \A y \in CallRecords : LET x == [y EXCEPT !.ran = n, !.saw = v]
         IN  /\ x \in CallRecords /\ x.ran = n /\ x.saw = v
             /\ x.stage = y.stage
             /\ x.request = y.request /\ x.target = y.target /\ x.meta = y.meta /\ x.after = y.after
             /\ x.answer = y.answer /\ x.thrown = y.thrown /\ x.reply = y.reply
             /\ x.promise = y.promise
    BY <1>3 DEF CallRecords
  <1> DEFINE x == [call[c] EXCEPT !.ran = n, !.saw = v]
  <1>6. /\ x \in CallRecords /\ x.ran = n /\ x.saw = v /\ x.stage = call[c].stage
        /\ x.request = call[c].request /\ x.target = call[c].target /\ x.meta = call[c].meta
        /\ x.after = call[c].after /\ x.answer = call[c].answer /\ x.thrown = call[c].thrown
        /\ x.reply = call[c].reply /\ x.promise = call[c].promise
    BY <1>5
  <1>7. Run(c, e) = x
    BY <1>4
  <1> HIDE DEF x
  <1> QED BY <1>3, <1>6, <1>7

\* It is given an answer.
LEMMA ReplyTyped ==
  ASSUME NEW y \in CallRecords, NEW r \in Responses
  PROVE  LET x == WithReply(y, r, r)
         IN  /\ x \in CallRecords /\ x.stage = "replied" /\ x.reply = r
             /\ x.thrown = IF IsOk(r) THEN None ELSE r
             /\ x.request = y.request /\ x.target = y.target /\ x.meta = y.meta /\ x.after = y.after
             /\ x.ran = y.ran /\ x.saw = y.saw /\ x.answer = y.answer /\ x.promise = y.promise
  <1>1. None \in Responses /\ "replied" \in Stages
    BY MadeUp DEF Stages
  <1> QED BY <1>1 DEF WithReply, CallRecords

\* Everything an answer does to a call: a refusal is of a call that has not run, a result of
\* one that has.
LEMMA ReplySound ==
  ASSUME NEW y \in CallRecords, NEW r \in Responses,
         y.ran <= 1, y.promise \in {Pending, Rejected}, y.request.op # "run" => y.promise = Pending,
         Saw(y), WellFormed(r),
         Refusal(r.code) => y.ran = 0,
         y.request.op = "run" /\ IsOk(r) /\ r.body = "result" => y.ran = 1
  PROVE  Sound(WithReply(y, r, r))
  <1> DEFINE x == WithReply(y, r, r)
  <1>1. /\ x.stage = "replied" /\ x.reply = r
        /\ x.thrown = IF IsOk(r) THEN None ELSE r
        /\ x.request = y.request /\ x.ran = y.ran /\ x.saw = y.saw /\ x.promise = y.promise
    BY ReplyTyped
  <1> HIDE DEF x
  <1>2. AsksFor(x) /\ Counted(x)
    BY <1>1 DEF AsksFor, Counted, InRun, NotRun
  <1>3. Replied(x)
    BY <1>1 DEF Replied
  <1>4. Promised(x)
    BY <1>1 DEF Promised, Closed
  <1>5. Told(x)
    BY <1>1, PromiseTyped DEF Told
  <1>6. Saw(x)
    BY <1>1 DEF Saw
  <1> QED BY <1>2, <1>3, <1>4, <1>5, <1>6 DEF Sound, x

\* Everything moving on does to a call whose code has not run.
LEMMA MoveSound ==
  ASSUME NEW y, NEW x, Sound(y),
         y.stage \in NotRun \ {"orphan"}, x.stage \in NotRun \ {"new", "orphan"},
         x.stage \in InRun \union {"gateway", "direct"} => x.request \in RunRequests,
         x.stage = "direct" => x.request.via = "direct",
         x.request.op = y.request.op \/ y.promise = Pending,
         x.ran = y.ran, x.promise = y.promise
  PROVE  Sound(x)
  <1>1. y.ran = 0 /\ y.promise \in {Pending, Rejected} /\ (y.request.op # "run" => y.promise = Pending)
    BY DEF Sound, Counted, Promised, NotRun, Closed
  <1>2. AsksFor(x) /\ Counted(x) /\ Replied(x)
    BY <1>1 DEF AsksFor, Counted, Replied, NotRun
  <1>3. Promised(x)
    BY <1>1 DEF Promised, Closed, NotRun
  <1>4. Told(x) /\ Saw(x)
    BY <1>1, PromiseTyped DEF Told, Saw, NotRun
  <1> QED BY <1>2, <1>3, <1>4 DEF Sound

\* The host has answered, and the answer says whether the code has run.
LEMMA AnsweredSound ==
  ASSUME NEW x, x.stage = "answered", x.request \in RunRequests, x.ran <= 1,
         x.promise \in {Pending, Rejected}, x.request.op = "run", Saw(x),
         WellFormed(x.answer), IsOk(x.answer) => x.ran = 1, Refusal(x.answer.code) => x.ran = 0
  PROVE  Sound(x)
  <1>1. AsksFor(x) /\ Counted(x) /\ Replied(x)
    BY DEF AsksFor, Counted, Replied, NotRun
  <1>2. Promised(x) /\ Told(x)
    BY PromiseTyped DEF Promised, Closed, Told
  <1> QED BY <1>1, <1>2 DEF Sound

\* The caller has its answer.
LEMMA SettledSound ==
  ASSUME NEW x, x.stage = "settled", x.promise # Pending, x.ran <= 1, Told(x), Saw(x)
  PROVE  Sound(x)
  <1>1. AsksFor(x) /\ Counted(x) /\ Replied(x) /\ Promised(x)
    BY DEF AsksFor, Counted, Replied, Promised, NotRun, InRun, Closed
  <1> QED BY <1>1 DEF Sound

\* What is sound says all this of a call whose code has not run, ...
LEMMA BeforeRun ==
  ASSUME NEW y \in CallRecords, Sound(y), y.stage \in NotRun \ {"orphan"}
  PROVE  /\ y.ran = 0 /\ y.ran <= 1 /\ Saw(y)
         /\ y.promise \in {Pending, Rejected} /\ (y.request.op # "run" => y.promise = Pending)
         /\ y.stage \in InRun \union {"gateway", "direct"} =>
              y.request \in RunRequests /\ y.request.op = "run"
  <1>1. y.request \in Asked
    BY Fields
  <1> QED BY <1>1, RequestsDiffer DEF Sound, Counted, Promised, AsksFor, Saw, NotRun, Closed

\* ... and of one in the interpreter that has run with its variables e.
LEMMA AfterRun ==
  ASSUME NEW c \in Calls, call[c] \in CallRecords, Sound(call[c]), NEW e \in Values,
         call[c].stage \in {"rpc", "stateless", "direct", "orphan"}
  PROVE  LET x == Run(c, e)
         IN  /\ x \in CallRecords /\ x.ran = 1 /\ Saw(x)
             /\ x.stage = call[c].stage /\ x.request = call[c].request /\ x.promise = call[c].promise
             /\ x.target = call[c].target /\ x.meta = call[c].meta /\ x.after = call[c].after
             /\ x.saw = computeExecutionEnv(e, call[c].request.env)
  <1>1. call[c].ran = 0
    BY DEF Sound, Counted, NotRun
  <1>2. /\ call[c].request.env = "own" => computeExecutionEnv(e, call[c].request.env) = "own"
        /\ call[c].request.env = "unset" => computeExecutionEnv(e, call[c].request.env) = Unset
    BY DEF computeExecutionEnv
  <1> DEFINE x == Run(c, e)
  <1>3. /\ x \in CallRecords /\ x.ran = call[c].ran + 1
        /\ x.saw = computeExecutionEnv(e, call[c].request.env) /\ x.stage = call[c].stage
        /\ x.request = call[c].request /\ x.promise = call[c].promise
        /\ x.target = call[c].target /\ x.meta = call[c].meta /\ x.after = call[c].after
    BY RunTyped
  <1> HIDE DEF x
  <1>4. Saw(x)
    BY <1>2, <1>3 DEF Saw
  <1> QED BY <1>1, <1>3, <1>4 DEF x

(***************************************************************************)
(* The steps of a call, by what they do to it.                             *)
(***************************************************************************)
\* It is given the answer r; y is the call with the run, where this step ran the code.
Answers(c, y, r) ==
  /\ call[c].stage \in {"gateway", "direct"} \union Handled
  /\ \/ y = call[c]
     \/ call[c].stage = "stateless" /\ y = Run(c, call[c].meta)
     \/ call[c].stage = "direct" /\ y = Run(c, Unset)
  /\ r \in Responses /\ WellFormed(r)
  /\ Refusal(r.code) => y.ran = 0
  /\ Request(c).op = "run" /\ IsOk(r) /\ r.body = "result" => y.ran = 1
  /\ Becomes(c, WithReply(y, r, r)) /\ queue' = TakenOff(c, r)
  /\ r.code = "CONTEXT_NOT_FOUND" => call[c].target \notin Ids'
  /\ contexts' \subseteq contexts
  /\ minted' \in minted .. MaxContexts /\ rows' \subseteq 1 .. minted'
  /\ \/ env' = env /\ (Request(c).op = "env" => ~IsOk(r))
     \/ env' = call[c].meta /\ call[c].stage \in Handled /\ Request(c).op # "env"
     \/ env' = c /\ call[c].stage = "begun" /\ Request(c).op = "env"

\* It moves on towards its run.
Proceeds(c, x) ==
  /\ x \in CallRecords /\ Sound(x) /\ Becomes(c, x)
  /\ call[c].stage \in NotRun \ {"orphan"} /\ x.stage \in NotRun \ {"new", "orphan"}
  /\ x.promise = call[c].promise
  /\ \/ x.after = call[c].after /\ x.request.op = Request(c).op
     \/ At(c, "new") /\ x.after = {d \in Calls : Answered(d)}
  /\ \/ queue' = Append(queue, c) /\ At(c, "sent") /\ x.stage = "arrived"
     \/ /\ queue' = queue /\ x.stage # "arrived" /\ (x.stage \in InSandbox => IsNext(c))
        /\ call[c].stage \in InSandbox <=> x.stage \in InSandbox
  /\ env' = env /\ (x.stage \in Handled => x.meta = env)
  /\ x.target <= minted'
  /\ x.stage \in {"probing", "creating"} =>
       x.request = Request(c) /\ Existing(c) = {} /\ contexts' = contexts
  /\ \/ UNCHANGED <<contexts, rows, minted>>
     \/ /\ At(c, "creating") /\ minted' = minted + 1 /\ minted < MaxContexts
        /\ rows' = rows \union {minted'}
        /\ contexts' = contexts \union {[id |-> minted', binding |-> Request(c).binding]}

\* The interpreter answers.
Hosts(c, x) ==
  /\ At(c, "rpc") /\ x.stage = "answered"
  /\ \/ x.ran = 0
     \/ x.saw = computeExecutionEnv(call[c].meta, Request(c).env)

\* It is over for the caller, or for a run nobody waits for.
Ends(c, x) ==
  /\ call[c].stage \notin InSandbox => x.stage \notin InSandbox
  /\ call[c].stage \in InSandbox => x.stage = call[c].stage
  /\ x.stage = "orphan" => At(c, "orphan")
  /\ x.stage \in {"replied", "new"} => x.reply = call[c].reply /\ x.stage = call[c].stage
  /\ Answered(c) => x.promise = call[c].promise
  /\ x.promise = Resolved => Answered(c) \/ (At(c, "replied") /\ IsOk(call[c].reply))
  /\ x.promise.code = "CONTEXT_NOT_FOUND" =>
       \/ call[c].promise.code = "CONTEXT_NOT_FOUND"
       \/ At(c, "replied") /\ call[c].reply.code = "CONTEXT_NOT_FOUND"
  /\ \/ x.ran = call[c].ran /\ x.saw = call[c].saw
     \/ At(c, "orphan") /\ x.saw = computeExecutionEnv(call[c].meta, Request(c).env)

\* The answer of an interpreter, and these ends, leave everything else as it is.
Alone(c, x) ==
  /\ x \in CallRecords /\ Sound(x) /\ Becomes(c, x)
  /\ x.request = Request(c) /\ x.target = call[c].target /\ x.meta = call[c].meta
  /\ x.after = call[c].after
  /\ UNCHANGED <<queue, env, contexts, rows, minted>>
  /\ (Hosts(c, x) /\ x.promise = call[c].promise) \/ Ends(c, x)

\* Where a call is when it is handled.
LEMMA HandledFacts ==
  ASSUME IInv, NEW c \in Calls
  PROVE  /\ call[c] \in CallRecords /\ Sound(call[c])
         /\ call[c].target \in Nat /\ call[c].target <= minted
         /\ minted \in Nat /\ minted \in minted .. MaxContexts
         /\ rows \subseteq 1 .. minted
         /\ call[c].stage \in Handled => call[c].meta = env /\ IsNext(c)
  BY Fields DEF IInv, Types, EachIsSound, Queued, Tabled, Ordered

\* A reply to a call whose code has not run.
LEMMA PlainReply ==
  ASSUME IInv, NEW c \in Calls, NEW r \in {Ok, Invalid, TooLarge, NotFound, OtherError, RpcError},
         call[c].stage \in ({"gateway", "direct"} \union Handled) \ {"answered"} \/ r \in {OtherError, RpcError},
         call[c].stage \in {"gateway", "direct"} \union Handled,
         Reply(c, call[c], r) \/ Relay(c, call[c], r),
         IsOk(r) => Request(c).op # "run",
         Request(c).op = "env" /\ IsOk(r) => env' = c /\ call[c].stage = "begun",
         Request(c).op = "env" /\ ~IsOk(r) => env' = env,
         Request(c).op # "env" => env' = env \/ (env' = call[c].meta /\ call[c].stage \in Handled),
         r = NotFound => call[c].target \notin Ids',
         contexts' \subseteq contexts, minted' \in minted .. MaxContexts, rows' \subseteq 1 .. minted'
  PROVE  \E y, s : Answers(c, y, s)
  <1>1. /\ r \in Responses /\ WellFormed(r) /\ (Refusal(r.code) => r \notin {OtherError, RpcError})
        /\ r.code = "CONTEXT_NOT_FOUND" => r = NotFound
        /\ r.body = "result" => IsOk(r)
    BY MadeUp
  <1>2. Refusal(r.code) => call[c].ran = 0
    BY <1>1, HandledFacts DEF Sound, Counted, Handled, InSandbox, NotRun
  <1>3. Becomes(c, WithReply(call[c], r, r)) /\ queue' = TakenOff(c, r)
    BY DEF Reply, Relay, RelayedResponse
  <1>4. Answers(c, call[c], r)
    BY <1>1, <1>2, <1>3 DEF Answers
  <1> QED BY <1>4

Refusals(c) == GatewayRefuses(c) \/ Refuse(c) \/ RpcFails(c)

\* The request is refused, or the RPC to the interpreter fails.
LEMMA RefusalsAnswer ==
  ASSUME IInv, NEW c \in Calls, Refusals(c)
  PROVE  \E y, r : Answers(c, y, r)
  <1>0. /\ minted \in minted .. MaxContexts /\ rows \subseteq 1 .. minted
        /\ \A r \in {Invalid, TooLarge, OtherError, RpcError} : ~IsOk(r) /\ r # NotFound
    BY HandledFacts, MadeUp
  <1>1. CASE GatewayRefuses(c)
    <2>1. PICK r \in {TooLarge, Invalid} : Reply(c, call[c], r)
      BY <1>1 DEF GatewayRefuses
    <2> QED BY <2>1, <1>1, <1>0, PlainReply DEF GatewayRefuses, At
  <1>2. CASE Refuse(c)
    <2>1. PICK r \in {TooLarge, Invalid} : Reply(c, call[c], r)
      BY <1>2, FaultTyped DEF Refuse
    <2>2. call[c].stage \in Handled \ {"answered"}
      BY <1>2 DEF Refuse, At, Handled, InSandbox
    <2> QED BY <2>1, <2>2, <1>2, <1>0, PlainReply DEF Refuse
  <1>3. CASE RpcFails(c)
    <2>1. Reply(c, call[c], RpcError) /\ call[c].stage \in Handled
      BY <1>3 DEF RpcFails, RpcFailed, At, Handled, InSandbox
    <2> QED BY <2>1, <1>3, <1>0, PlainReply DEF RpcFails
  <1> QED BY <1>1, <1>2, <1>3 DEF Refusals

\* A call that runs nothing: setEnvVars and the File API.
LEMMA OthersAnswer ==
  ASSUME IInv, NEW c \in Calls, SetEnv(c) \/ Files(c)
  PROVE  \E y, r : Answers(c, y, r)
  <1>0. /\ minted \in minted .. MaxContexts /\ rows \subseteq 1 .. minted
        /\ IsOk(Ok) /\ Ok # NotFound
    BY HandledFacts, MadeUp
  <1>1. call[c].stage \in Handled \ {"answered"} /\ call[c].stage = "begun"
    BY DEF SetEnv, Files, At, Handled, InSandbox
  <1>2. CASE SetEnv(c)
    BY <1>0, <1>1, <1>2, PlainReply DEF SetEnv
  <1>3. CASE Files(c)
    <2>1. CASE Request(c).errno = "none"
      <3>1. Reply(c, call[c], Ok) /\ (env' = env \/ env' = call[c].meta)
        BY <1>3, <2>1 DEF Files, TouchAlarm
      <3> QED BY <3>1, <1>0, <1>1, <1>3, PlainReply DEF Files
    <2>2. CASE Request(c).errno # "none"
      <3> DEFINE r == errnoErrorBody(Request(c).op, Request(c).errno)
      <3>1. Reply(c, call[c], r) /\ env' = env
        BY <1>3, <2>2 DEF Files
      <3>2. r \in Responses /\ WellFormed(r) /\ ~IsOk(r) /\ r.code # "CONTEXT_NOT_FOUND"
        BY ErrnoTyped
      <3> HIDE DEF r
      <3>3. call[c].ran = 0
        BY <1>1, HandledFacts DEF Sound, Counted, NotRun
      <3>4. Answers(c, call[c], r)
        BY <3>1, <3>2, <3>3, <1>0, <1>1, <1>3 DEF Answers, Files, Reply
      <3> QED BY <3>4
    <2> QED BY <2>1, <2>2
  <1> QED BY <1>2, <1>3

\* A context that cannot be had.
LEMMA ContextAnswers ==
  ASSUME IInv, NEW c \in Calls,
         \/ FindContext(c) /\ Request(c).ref = "context" /\ Named(c) = {}
         \/ Probe(c) /\ Reply(c, call[c], Invalid)
         \/ RegisterFails(c)
         \/ ContextIsGone(c)
  PROVE  \E y, r : Answers(c, y, r)
  <1>0. /\ minted \in Nat /\ minted \in minted .. MaxContexts /\ rows \subseteq 1 .. minted
        /\ \A r \in {Invalid, OtherError, NotFound} : ~IsOk(r)
        /\ NotFound \notin {Invalid, OtherError}
    BY HandledFacts, MadeUp
  <1>1. CASE FindContext(c) /\ Request(c).ref = "context" /\ Named(c) = {}
    <2>1. Reply(c, call[c], NotFound) /\ UNCHANGED <<env, contexts, rows, minted>>
      BY <1>1 DEF FindContext
    <2>2. call[c].stage \in Handled \ {"answered"}
      BY <1>1 DEF FindContext, At, Handled, InSandbox
    <2>3. call[c].target \notin Ids'
      BY <1>1, <2>1 DEF Named, Ids
    <2> QED BY <2>1, <2>2, <2>3, <1>0, PlainReply
  <1>2. CASE Probe(c) /\ Reply(c, call[c], Invalid)
    <2>1. call[c].stage \in Handled \ {"answered"}
      BY <1>2 DEF Probe, At, Handled, InSandbox
    <2> QED BY <1>2, <2>1, <1>0, PlainReply DEF Probe
  <1>3. CASE RegisterFails(c)
    <2>1. call[c].stage \in Handled \ {"answered"}
      BY <1>3 DEF RegisterFails, At, Handled, InSandbox
    <2>2. PICK r \in {Invalid, OtherError} : Reply(c, call[c], r) \/ Relay(c, call[c], r)
      BY <1>3 DEF RegisterFails
    <2>3. minted' \in minted .. MaxContexts /\ rows' \subseteq 1 .. minted'
      <3>1. CASE UNCHANGED <<rows, minted>>
        BY <3>1, <1>0
      <3>2. CASE minted < MaxContexts /\ minted' = minted + 1 /\ rows' = rows \union {minted'}
        BY <3>2, <1>0
      <3> QED BY <3>1, <3>2, <1>3 DEF RegisterFails
    <2> QED BY <2>1, <2>2, <2>3, <1>3, <1>0, PlainReply DEF RegisterFails
  <1>4. CASE ContextIsGone(c)
    <2>1. Reply(c, call[c], NotFound) /\ contexts' = DropRow(c) /\ UNCHANGED <<env, rows, minted>>
      BY <1>4 DEF ContextIsGone
    <2>2. call[c].stage = "answered" /\ call[c].stage \in Handled /\ Refusal(call[c].answer.code)
      BY <1>4 DEF ContextIsGone, At, Handled, InSandbox, Refusal, ErrorCode
    <2>3. call[c].ran = 0
      BY <2>2, HandledFacts DEF Sound, Counted
    <2>4. contexts' \subseteq contexts /\ call[c].target \notin Ids'
      BY <2>1 DEF DropRow, Ids
    <2>5. NotFound \in Responses /\ WellFormed(NotFound)
      BY MadeUp
    <2>6. Answers(c, call[c], NotFound)
      BY <2>1, <2>2, <2>3, <2>4, <2>5, <1>0 DEF Answers, Reply
    <2> QED BY <2>6
  <1> QED BY <1>1, <1>2, <1>3, <1>4

\* The answer of an interpreter, as it is, or as the sandbox's own end of the run.
LEMMA RunAnswers ==
  ASSUME IInv, NEW c \in Calls, RelayError(c) \/ EndRun(c)
  PROVE  \E y, r : Answers(c, y, r)
  <1>0. /\ minted \in minted .. MaxContexts /\ rows \subseteq 1 .. minted
        /\ call[c] \in CallRecords /\ Sound(call[c])
    BY HandledFacts
  <1>1. call[c].stage = "answered" /\ call[c].stage \in Handled
    BY DEF RelayError, EndRun, At, Handled, InSandbox
  <1>2. /\ call[c].answer \in Responses /\ WellFormed(call[c].answer)
        /\ IsOk(call[c].answer) => call[c].ran = 1
        /\ Refusal(call[c].answer.code) => call[c].ran = 0
        /\ Request(c).op = "run"
    BY <1>0, <1>1, Fields, RequestsDiffer DEF Sound, Counted, AsksFor, InRun, Request
  <1>3. CASE RelayError(c)
    <2>1. Becomes(c, WithReply(call[c], call[c].answer, call[c].answer)) /\ queue' = TakenOff(c, call[c].answer)
      BY <1>3 DEF RelayError, Relay, RelayedResponse
    <2>2. Answers(c, call[c], call[c].answer)
      BY <2>1, <1>0, <1>1, <1>2, <1>3 DEF Answers, RelayError
    <2> QED BY <2>2
  <1>4. CASE EndRun(c)
    <2>1. PICK r \in {Ok, OtherError} : Reply(c, call[c], r) /\ env' \in {env, call[c].meta}
      BY <1>4 DEF EndRun, TouchAlarm
    <2>2. r \in Responses /\ WellFormed(r) /\ ~Refusal(r.code) /\ r.code # "CONTEXT_NOT_FOUND"
      BY MadeUp
    <2>3. call[c].ran = 1
      BY <1>2, <1>4 DEF EndRun
    <2>4. Answers(c, call[c], r)
      BY <2>1, <2>2, <2>3, <1>0, <1>1, <1>2, <1>4 DEF Answers, EndRun, Reply
    <2> QED BY <2>4
  <1> QED BY <1>3, <1>4

\* A stateless run.
LEMMA StatelessReplies ==
  ASSUME IInv, NEW c \in Calls, StatelessAnswers(c) \/ StatelessFails(c)
  PROVE  \E y, r : Answers(c, y, r)
  <1>0. /\ minted \in minted .. MaxContexts /\ rows \subseteq 1 .. minted
        /\ call[c] \in CallRecords /\ Sound(call[c]) /\ call[c].meta \in Values
    BY HandledFacts, Fields
  <1>1. call[c].stage = "stateless" /\ call[c].stage \in Handled \ {"answered"}
    BY DEF StatelessAnswers, StatelessFails, At, Handled, InSandbox
  <1>2. Request(c).op = "run"
    BY <1>0, <1>1, BeforeRun DEF Request, NotRun, InRun
  <1>3. RunWithMeta(c).ran = 1
    BY <1>0, <1>1, AfterRun DEF RunWithMeta
  <1>4. \/ \E r \in {Ok, OtherError} :
             /\ Reply(c, RunWithMeta(c), r) \/ Relay(c, RunWithMeta(c), r)
             /\ env' \in {env, call[c].meta}
        \/ \E r \in {TooLarge, OtherError} :
             /\ Reply(c, call[c], r) \/ Relay(c, call[c], r)
             /\ env' \in {env, call[c].meta}
    BY DEF StatelessAnswers, StatelessFails, TouchAlarm
  <1>5. UNCHANGED <<contexts, rows, minted>>
    BY DEF StatelessAnswers, StatelessFails
  <1>6. ASSUME NEW r \in {Ok, OtherError}, Reply(c, RunWithMeta(c), r) \/ Relay(c, RunWithMeta(c), r),
               env' \in {env, call[c].meta}
        PROVE  Answers(c, RunWithMeta(c), r)
    <2>1. Becomes(c, WithReply(RunWithMeta(c), r, r)) /\ queue' = TakenOff(c, r)
      BY <1>6 DEF Reply, Relay, RelayedResponse
    <2>2. r \in Responses /\ WellFormed(r) /\ ~Refusal(r.code) /\ r.code # "CONTEXT_NOT_FOUND"
      BY MadeUp
    <2>3. RunWithMeta(c) = Run(c, call[c].meta)
      BY DEF RunWithMeta
    <2> QED BY <2>1, <2>2, <2>3, <1>0, <1>1, <1>2, <1>3, <1>5, <1>6 DEF Answers
  <1>7. ASSUME NEW r \in {TooLarge, OtherError}, Reply(c, call[c], r) \/ Relay(c, call[c], r),
               env' \in {env, call[c].meta}
        PROVE  \E y, s : Answers(c, y, s)
    <2>1. ~IsOk(r) /\ r # NotFound
      BY MadeUp
    <2>2. /\ r \in {Ok, Invalid, TooLarge, NotFound, OtherError, RpcError}
          /\ call[c].stage \in {"gateway", "direct"} \union Handled
          /\ call[c].stage \in ({"gateway", "direct"} \union Handled) \ {"answered"}
          /\ Request(c).op # "env"
          /\ env' = env \/ (env' = call[c].meta /\ call[c].stage \in Handled)
          /\ contexts' \subseteq contexts /\ minted' \in minted .. MaxContexts /\ rows' \subseteq 1 .. minted'
      BY <1>0, <1>1, <1>2, <1>5, <1>7
    <2> QED BY <2>1, <2>2, <1>7, PlainReply
  <1> QED BY <1>4, <1>6, <1>7

\* A binding answers a call that went straight to it.
LEMMA DirectReplies ==
  ASSUME IInv, NEW c \in Calls, DirectAnswers(c), Kind[Request(c).binding] # "missing"
  PROVE  \E y, r : Answers(c, y, r)
  <1>0. /\ minted \in minted .. MaxContexts /\ rows \subseteq 1 .. minted
        /\ call[c] \in CallRecords /\ Sound(call[c])
    BY HandledFacts
  <1>1. call[c].stage = "direct" /\ UNCHANGED <<env, contexts, rows, minted>>
    BY DEF DirectAnswers, At
  <1>2. call[c].ran = 0 /\ Request(c).op = "run"
    BY <1>0, <1>1, BeforeRun DEF Request, NotRun
  <1>3. CASE Kind[Request(c).binding] = "foreign"
    <2>1. PICK r \in ForeignAnswers : Reply(c, call[c], r)
      BY <1>3 DEF DirectAnswers
    <2>2. Answers(c, call[c], r)
      BY <2>1, <1>0, <1>1, <1>2, ForeignTyped DEF Answers, Reply
    <2> QED BY <2>2
  <1>4. CASE Kind[Request(c).binding] # "foreign"
    <2> DEFINE r == readExecution(Request(c))
    <2>1. Reply(c, IF IsOk(r) THEN Run(c, Unset) ELSE call[c], r)
      BY <1>4 DEF DirectAnswers
    <2>2. r \in {Ok, TooLarge, Invalid}
      BY FaultTyped
    <2> HIDE DEF r
    <2>3. CASE IsOk(r)
      <3>1. Run(c, Unset).ran = 1
        BY <1>0, <1>1, AfterRun DEF Values
      <3>2. r \in Responses /\ WellFormed(r) /\ ~Refusal(r.code) /\ r.code # "CONTEXT_NOT_FOUND"
        BY <2>2, <2>3, MadeUp
      <3>3. Answers(c, Run(c, Unset), r)
        BY <2>1, <2>3, <3>1, <3>2, <1>0, <1>1, <1>2 DEF Answers, Reply
      <3> QED BY <3>3
    <2>4. CASE ~IsOk(r)
      <3>1. r # NotFound
        BY <2>2, MadeUp
      <3>2. /\ r \in {Ok, Invalid, TooLarge, NotFound, OtherError, RpcError}
            /\ call[c].stage \in {"gateway", "direct"} \union Handled
            /\ call[c].stage \in ({"gateway", "direct"} \union Handled) \ {"answered"}
            /\ Request(c).op # "env" /\ env' = env /\ Reply(c, call[c], r)
            /\ contexts' \subseteq contexts /\ minted' \in minted .. MaxContexts /\ rows' \subseteq 1 .. minted'
        BY <2>1, <2>2, <2>4, <1>0, <1>1, <1>2
      <3> QED BY <2>4, <3>1, <3>2, PlainReply
    <2> QED BY <2>3, <2>4
  <1> QED BY <1>3, <1>4

\* A call is sent, and arrives at the sandbox.
LEMMA SendProceeds ==
  ASSUME IInv, NEW c \in Calls, NEW r \in Requests, NEW id \in 0 .. MaxContexts, Send(c, r, id)
  PROVE  \E x : Proceeds(c, x)
  <1>0. /\ call[c] \in CallRecords /\ Sound(call[c]) /\ minted \in Nat /\ id \in Nat /\ id <= minted
        /\ r \in Asked /\ call[c].stage = "new"
    BY HandledFacts DEF Send, Asked, At
  <1> DEFINE s == CASE r.via = "gateway" -> "gateway" [] r.via = "direct" -> "direct" [] OTHER -> "sent"
             after == {d \in Calls : Answered(d)}
             x == [call[c] EXCEPT !.request = r, !.target = id, !.stage = s, !.after = after]
  <1>1. /\ s \in {"gateway", "direct", "sent"} /\ s \in Stages
        /\ s = "gateway" => r.via = "gateway"
        /\ s = "direct" => r.via = "direct"
    BY DEF Stages
  <1>2. Becomes(c, x) /\ UNCHANGED <<queue, env, contexts, rows, minted>>
    BY DEF Send
  <1>3. after \subseteq Calls
    OBVIOUS
  <1> HIDE DEF s, after
  <1>4. /\ x \in CallRecords /\ x.stage = s /\ x.request = r /\ x.target = id /\ x.after = after
        /\ x.ran = call[c].ran /\ x.promise = call[c].promise
    BY <1>0, <1>1, <1>3 DEF CallRecords
  <1> HIDE DEF x
  <1>5. s \in {"gateway", "direct"} => r \in RunRequests
    BY <1>0, <1>1, RequestsDiffer
  <1>6. call[c].promise = Pending
    BY <1>0 DEF Sound, Promised, Closed
  <1>7. Sound(x)
    BY <1>0, <1>1, <1>4, <1>5, <1>6, MoveSound DEF NotRun, InRun
  <1>8. Proceeds(c, x)
    BY <1>0, <1>1, <1>2, <1>4, <1>7 DEF Proceeds, NotRun, InSandbox, Handled, after, At
  <1> QED BY <1>8

\* What moves on without leaving its request.
LEMMA MoveProceeds ==
  ASSUME IInv, NEW c \in Calls, NEW s \in NotRun \ {"new", "gateway", "direct", "orphan"}, NEW t \in Nat,
         call[c].stage \in NotRun \ {"new", "orphan"},
         s \in InRun => Request(c) \in RunRequests,
         t <= minted',
         Becomes(c, [call[c] EXCEPT !.stage = s, !.target = t]) \/ (t = call[c].target /\ Moves(c, s)),
         \/ queue' = Append(queue, c) /\ At(c, "sent") /\ s = "arrived"
         \/ queue' = queue /\ call[c].stage \in Handled /\ s \in Handled,
         env' = env,
         s \in {"probing", "creating"} => Existing(c) = {} /\ contexts' = contexts,
         \/ UNCHANGED <<contexts, rows, minted>>
         \/ /\ At(c, "creating") /\ minted' = minted + 1 /\ minted < MaxContexts
            /\ rows' = rows \union {minted'}
            /\ contexts' = contexts \union {[id |-> minted', binding |-> Request(c).binding]}
  PROVE  \E x : Proceeds(c, x)
  <1>0. /\ call[c] \in CallRecords /\ Sound(call[c]) /\ minted \in Nat
        /\ call[c].stage \in Handled => call[c].meta = env /\ IsNext(c)
        /\ s \in Stages
    BY HandledFacts DEF Stages, NotRun, InSandbox
  <1> DEFINE x == [call[c] EXCEPT !.stage = s, !.target = t]
  <1>1. Becomes(c, x)
    <2>1. t = call[c].target => [call[c] EXCEPT !.stage = s] = x
      BY <1>0 DEF CallRecords
    <2> QED BY <2>1 DEF Moves
  <1>2. /\ x \in CallRecords /\ x.stage = s /\ x.request = Request(c) /\ x.target = t
        /\ x.after = call[c].after /\ x.meta = call[c].meta
        /\ x.ran = call[c].ran /\ x.promise = call[c].promise
    BY <1>0 DEF CallRecords, Request
  <1> HIDE DEF x
  <1>3. Sound(x)
    BY <1>0, <1>2, MoveSound DEF NotRun, Request
  <1>4. Proceeds(c, x)
    BY <1>0, <1>1, <1>2, <1>3 DEF Proceeds, Handled, InSandbox, NotRun, At
  <1> QED BY <1>4

\* The Gateway passes a call on, and the sandbox begins with one.
LEMMA BeginProceeds ==
  ASSUME IInv, NEW c \in Calls, GatewayForwards(c) \/ Begin(c)
  PROVE  \E x : Proceeds(c, x)
  <1>0. /\ call[c] \in CallRecords /\ Sound(call[c]) /\ call[c].target <= minted
        /\ env \in Values /\ UNCHANGED <<queue, env, contexts, rows, minted>>
    BY HandledFacts DEF GatewayForwards, Begin, IInv, Types, Values
  <1>1. CASE GatewayForwards(c)
    <2> DEFINE r == Forward(Request(c))
               x == [call[c] EXCEPT !.stage = "sent", !.request = r]
    <2>1. call[c].stage = "gateway" /\ Becomes(c, x)
      BY <1>1 DEF GatewayForwards, At, Request
    <2>2. Request(c) \in RunRequests /\ Request(c).op = "run"
      BY <1>0, <2>1, BeforeRun DEF Request, NotRun
    <2>3. r \in Asked /\ r.op = "run"
      BY <2>2, RequestsDiffer DEF Asked
    <2> HIDE DEF r
    <2>4. /\ x \in CallRecords /\ x.stage = "sent" /\ x.request = r /\ x.target = call[c].target
          /\ x.after = call[c].after /\ x.ran = call[c].ran /\ x.promise = call[c].promise
      BY <1>0, <2>3 DEF CallRecords, Stages
    <2> HIDE DEF x
    <2>5. Sound(x)
      BY <1>0, <2>1, <2>2, <2>3, <2>4, MoveSound DEF NotRun, InRun, Request
    <2>6. Proceeds(c, x)
      BY <1>0, <2>1, <2>2, <2>3, <2>4, <2>5 DEF Proceeds, NotRun, InSandbox, Handled, At, Request
    <2> QED BY <2>6
  <1>2. CASE Begin(c)
    <2> DEFINE x == [call[c] EXCEPT !.stage = "begun", !.meta = env]
    <2>1. call[c].stage = "arrived" /\ IsNext(c) /\ Becomes(c, x)
      BY <1>2 DEF Begin, At
    <2>2. /\ x \in CallRecords /\ x.stage = "begun" /\ x.request = Request(c) /\ x.target = call[c].target
          /\ x.meta = env
          /\ x.after = call[c].after /\ x.ran = call[c].ran /\ x.promise = call[c].promise
      BY <1>0 DEF CallRecords, Stages, InSandbox, Request
    <2> HIDE DEF x
    <2>3. Sound(x)
      BY <1>0, <2>1, <2>2, MoveSound DEF NotRun, InRun, Request
    <2>4. Proceeds(c, x)
      BY <1>0, <2>1, <2>2, <2>3 DEF Proceeds, NotRun, InSandbox, Handled, At, Request
    <2> QED BY <2>4
  <1> QED BY <1>1, <1>2

\* A binding has one row at most, which is its oldest.
LEMMA OldestIsARow ==
  ASSUME IInv, NEW c \in Calls, Existing(c) # {}
  PROVE  Oldest(Existing(c)) \in 1 .. minted
  <1>1. PICK x \in Existing(c) : TRUE
    OBVIOUS
  <1>2. Existing(c) = {x} /\ x.id \in 1 .. minted
    BY <1>1 DEF Existing, IInv, Tabled, OneDefaultContext, Types
  <1>3. {z.id : z \in Existing(c)} = {x.id}
    BY <1>2
  <1>4. x.id \in Nat /\ Min({x.id}) = x.id
    BY <1>2, HandledFacts DEF Min
  <1> QED BY <1>2, <1>3, <1>4 DEF Oldest

\* It arrives; its context is found, looked for, or made.
LEMMA ContextProceeds ==
  ASSUME IInv, NEW c \in Calls,
         \/ Arrive(c)
         \/ FindContext(c) /\ ~(Request(c).ref = "context" /\ Named(c) = {})
         \/ Probe(c) /\ ~Reply(c, call[c], Invalid)
         \/ Register(c)
  PROVE  \E x : Proceeds(c, x)
  <1>0. /\ call[c] \in CallRecords /\ Sound(call[c]) /\ minted \in Nat
        /\ call[c].target \in Nat /\ call[c].target <= minted
    BY HandledFacts
  <1>9. /\ {"arrived", "rpc", "probing", "stateless", "creating"} \subseteq NotRun \ {"new", "gateway", "direct", "orphan"}
        /\ {"rpc", "probing", "stateless", "creating", "begun"} \subseteq Handled
        /\ {"sent", "begun", "probing", "creating"} \subseteq NotRun \ {"new", "orphan"}
        /\ "arrived" \notin InRun
    BY DEF NotRun, Handled, InSandbox, InRun
  <1>1. CASE Arrive(c)
    <2>1. call[c].stage = "sent"
      BY <1>1 DEF Arrive, At
    <2>2. /\ queue' = Append(queue, c) /\ Moves(c, "arrived")
          /\ UNCHANGED <<env, contexts, rows, minted>> /\ call[c].target <= minted' /\ At(c, "sent")
      BY <1>1, <1>0 DEF Arrive
    <2> QED BY <2>1, <2>2, <1>0, <1>9, MoveProceeds
  <1>2. CASE FindContext(c) /\ ~(Request(c).ref = "context" /\ Named(c) = {})
    <2>1. /\ call[c].stage = "begun" /\ call[c].stage \in Handled
          /\ Request(c) \in RunRequests /\ UNCHANGED <<env, contexts, rows, minted>>
          /\ Request(c).ref \in {"context", "binding"}
      <3>1. Request(c) \in RunRequests
        BY <1>0, <1>2, Fields, RequestsDiffer DEF FindContext, Request
      <3>2. Request(c).ref \in {"none", "context", "binding"}
        BY <3>1 DEF RunRequests
      <3> QED BY <1>2, <3>1, <3>2 DEF FindContext, At, Handled, InSandbox, Faulty
    <2>2. CASE Request(c).ref = "context"
      <3>1. Moves(c, "rpc") /\ queue' = queue
        BY <1>2, <2>2 DEF FindContext
      <3>2. call[c].target <= minted' /\ "rpc" \notin {"probing", "creating"}
        BY <2>1, <1>0
      <3> QED BY <3>1, <3>2, <2>1, <1>0, <1>9, MoveProceeds
    <2>3. CASE Request(c).ref = "binding" /\ Existing(c) # {}
      <3>1. Becomes(c, [call[c] EXCEPT !.stage = "rpc", !.target = Oldest(Existing(c))]) /\ queue' = queue
        BY <1>2, <2>3 DEF FindContext
      <3>2. PICK t \in Nat : t = Oldest(Existing(c)) /\ t <= minted
        BY <1>0, <2>3, OldestIsARow
      <3>3. Becomes(c, [call[c] EXCEPT !.stage = "rpc", !.target = t])
        BY <3>1, <3>2
      <3>4. t <= minted'
        BY <3>2, <2>1
      <3>5. "rpc" \notin {"probing", "creating"}
        OBVIOUS
      <3> QED BY <3>1, <3>3, <3>4, <3>5, <2>1, <1>0, <1>9, MoveProceeds
    <2>4. CASE Request(c).ref = "binding" /\ Existing(c) = {}
      <3>1. Moves(c, "probing") /\ queue' = queue
        BY <1>2, <2>4 DEF FindContext
      <3>2. call[c].target <= minted'
        BY <2>1, <1>0
      <3> QED BY <3>1, <3>2, <2>1, <2>4, <1>0, <1>9, MoveProceeds
    <2> QED BY <2>1, <2>2, <2>3, <2>4
  <1>3. CASE Probe(c) /\ ~Reply(c, call[c], Invalid)
    <2>1. PICK s \in {"stateless", "creating"} : Moves(c, s) /\ queue' = queue
      BY <1>3 DEF Probe
    <2>2. call[c].stage = "probing" /\ UNCHANGED <<env, contexts, rows, minted>>
      BY <1>3 DEF Probe, At
    <2>3. Existing(c) = {} /\ Request(c) \in RunRequests
      BY <2>2, <1>0 DEF IInv, Tabled, Sound, AsksFor, InRun, Request
    <2>4. call[c].target <= minted'
      BY <2>2, <1>0
    <2> QED BY <2>1, <2>2, <2>3, <2>4, <1>0, <1>9, MoveProceeds
  <1>4. CASE Register(c)
    <2>1. /\ call[c].stage = "creating" /\ minted < MaxContexts /\ minted' = minted + 1
          /\ rows' = rows \union {minted'}
          /\ contexts' = contexts \union {[id |-> minted', binding |-> Request(c).binding]}
          /\ Becomes(c, [call[c] EXCEPT !.stage = "rpc", !.target = minted'])
          /\ UNCHANGED <<queue, env>>
      BY <1>4 DEF Register, At
    <2>2. Request(c) \in RunRequests
      BY <2>1, <1>0 DEF Sound, AsksFor, InRun, Request
    <2>3. PICK t \in Nat : t = minted' /\ t <= minted'
      BY <2>1, <1>0
    <2>4. Becomes(c, [call[c] EXCEPT !.stage = "rpc", !.target = t])
      BY <2>1, <2>3
    <2>5. "rpc" \notin {"probing", "creating"} /\ At(c, "creating")
      BY <2>1 DEF At
    <2> QED BY <2>1, <2>2, <2>3, <2>4, <2>5, <1>0, <1>9, MoveProceeds
  <1> QED BY <1>1, <1>2, <1>3, <1>4

\* The interpreter answers a call, having run its code or not.
LEMMA HostAlone ==
  ASSUME IInv, NEW c \in Calls, HostRuns(c) \/ HostHasNoContext(c)
  PROVE  \E x : Alone(c, x)
  <1>0. /\ call[c] \in CallRecords /\ Sound(call[c]) /\ call[c].meta \in Values
        /\ call[c].stage = "rpc"
        /\ UNCHANGED <<queue, env, contexts, rows, minted>>
    BY HandledFacts, Fields DEF HostRuns, HostHasNoContext, At
  <1>1. /\ call[c].ran = 0 /\ Saw(call[c]) /\ call[c].promise \in {Pending, Rejected}
        /\ call[c].request \in RunRequests /\ call[c].request.op = "run"
    BY <1>0, BeforeRun DEF NotRun, InRun
  <1>2. ASSUME NEW a \in {Ok, OtherError}, Becomes(c, [RunWithMeta(c) EXCEPT !.stage = "answered", !.answer = a])
        PROVE  \E x : Alone(c, x)
    <2> DEFINE y == Run(c, call[c].meta)
               x == [y EXCEPT !.stage = "answered", !.answer = a]
    <2>1. /\ y \in CallRecords /\ y.ran = 1 /\ Saw(y)
          /\ y.request = call[c].request /\ y.promise = call[c].promise /\ y.target = call[c].target
          /\ y.meta = call[c].meta /\ y.after = call[c].after
          /\ y.saw = computeExecutionEnv(call[c].meta, call[c].request.env)
      BY <1>0, AfterRun
    <2>2. a \in Responses /\ WellFormed(a) /\ ~Refusal(a.code)
      BY MadeUp
    <2>3. Becomes(c, x)
      BY <1>2 DEF RunWithMeta
    <2> HIDE DEF y
    <2>4. /\ x \in CallRecords /\ x.stage = "answered" /\ x.answer = a /\ x.ran = y.ran
          /\ x.request = y.request /\ x.promise = y.promise /\ x.target = y.target
          /\ x.meta = y.meta /\ x.after = y.after /\ x.saw = y.saw
      BY <2>1, <2>2 DEF CallRecords, Stages, InSandbox
    <2> HIDE DEF x
    <2>5. Saw(x)
      BY <2>1, <2>4 DEF Saw
    <2>6. Sound(x)
      BY <2>1, <2>2, <2>4, <2>5, <1>1, AnsweredSound
    <2>7. Hosts(c, x)
      BY <1>0, <2>1, <2>4 DEF Hosts, At, Request
    <2>8. Alone(c, x)
      BY <1>0, <2>1, <2>3, <2>4, <2>6, <2>7 DEF Alone, Request
    <2> QED BY <2>8
  <1>3. ASSUME NEW a \in {ErrorBody(500, "INTERNAL_ERROR"), NotFound},
               Becomes(c, [call[c] EXCEPT !.stage = "answered", !.answer = a])
        PROVE  \E x : Alone(c, x)
    <2> DEFINE x == [call[c] EXCEPT !.stage = "answered", !.answer = a]
    <2>1. a \in Responses /\ WellFormed(a) /\ ~IsOk(a)
      BY MadeUp
    <2>2. /\ x \in CallRecords /\ x.stage = "answered" /\ x.answer = a /\ x.ran = call[c].ran
          /\ x.request = call[c].request /\ x.promise = call[c].promise /\ x.target = call[c].target
          /\ x.meta = call[c].meta /\ x.after = call[c].after /\ x.saw = call[c].saw
      BY <1>0, <2>1 DEF CallRecords, Stages, InSandbox
    <2>3. Becomes(c, x)
      BY <1>3
    <2> HIDE DEF x
    <2>4. Saw(x)
      BY <1>1, <2>2 DEF Saw
    <2>5. Sound(x)
      BY <2>1, <2>2, <2>4, <1>1, AnsweredSound
    <2>6. Hosts(c, x)
      BY <1>0, <1>1, <2>2 DEF Hosts, At
    <2>7. Alone(c, x)
      BY <1>0, <2>2, <2>3, <2>5, <2>6 DEF Alone, Request
    <2> QED BY <2>7
  <1> QED BY <1>2, <1>3 DEF HostRuns, HostHasNoContext

\* What is told to a caller that has waited for the answer of its call.
LEMMA SettledIsTold ==
  ASSUME NEW c \in Calls, call[c] \in CallRecords, Sound(call[c]), At(c, "replied"), ~Answered(c),
         NEW x \in CallRecords, x.promise = Validated(c),
         x.request = call[c].request, x.ran = call[c].ran, x.thrown = call[c].thrown
  PROVE  Told(x)
  <1> DEFINE r == call[c].reply
  <1>1. /\ WellFormed(r) /\ call[c].thrown = IF IsOk(r) THEN None ELSE r
        /\ Refusal(r.code) => call[c].ran = 0
        /\ Request(c).op = "run" /\ IsOk(r) /\ r.body = "result" => call[c].ran = 1
    BY DEF Sound, Replied, At, Request
  <1>2. /\ Refusal(Validated(c).code) => Validated(c).code = r.code
        /\ Validated(c) = Resolved => IsOk(r) /\ (Request(c).op = "run" => r.body = "result")
        /\ r.body = "error" => Validated(c).code = r.code /\ Validated(c).httpStatus = r.httpStatus
    BY <1>1, ValidatedSays
  <1>3. r.body = "error" => r.httpStatus = r.status /\ ~IsOk(r)
    BY <1>1 DEF WellFormed
  <1>4. call[c].thrown.body = "error" => call[c].thrown = r /\ r.body = "error"
    BY <1>1, MadeUp
  <1> HIDE DEF r
  <1> QED BY <1>1, <1>2, <1>3, <1>4 DEF Told, Request

\* The caller gets its answer, does not wait for it, or a callback of its own throws.
LEMMA CallerAlone ==
  ASSUME IInv, NEW c \in Calls, Settle(c) \/ CallbackThrows(c) \/ Abort(c)
  PROVE  \E x : Alone(c, x)
  <1>0. /\ call[c] \in CallRecords /\ Sound(call[c])
        /\ UNCHANGED <<queue, env, contexts, rows, minted>>
        /\ {Rejected, Resolved, Pending} \subseteq Rejections /\ Pending # Rejected /\ Resolved # Rejected
        /\ ~Refusal(Rejected.code) /\ Rejected.code # "CONTEXT_NOT_FOUND" /\ Resolved # Pending
    BY HandledFacts, PromiseTyped DEF Settle, CallbackThrows, Abort
  <1>1. ASSUME NEW p \in Rejections, At(c, "replied"),
               Becomes(c, [call[c] EXCEPT !.stage = "settled", !.promise = p]),
               p = Rejected \/ (p = Validated(c) /\ ~Answered(c)),
               Answered(c) => p = call[c].promise
        PROVE  \E x : Alone(c, x)
    <2> DEFINE x == [call[c] EXCEPT !.stage = "settled", !.promise = p]
    <2>1. /\ x \in CallRecords /\ x.stage = "settled" /\ x.promise = p /\ x.ran = call[c].ran
          /\ x.request = call[c].request /\ x.target = call[c].target /\ x.thrown = call[c].thrown
          /\ x.meta = call[c].meta /\ x.after = call[c].after /\ x.saw = call[c].saw
      BY <1>0 DEF CallRecords, Stages
    <2>2. Becomes(c, x)
      BY <1>1
    <2> HIDE DEF x
    <2>3. WellFormed(call[c].reply) /\ call[c].ran <= 1 /\ Saw(call[c])
      BY <1>0, <1>1 DEF Sound, Replied, Counted, At
    <2>4. Told(x)
      <3>1. CASE p = Rejected
        BY <1>0, <2>1, <3>1 DEF Told
      <3>2. CASE p = Validated(c) /\ ~Answered(c)
        BY <1>0, <1>1, <2>1, <3>2, SettledIsTold
      <3> QED BY <1>1, <3>1, <3>2
    <2>5. Saw(x)
      BY <2>1, <2>3 DEF Saw
    <2>6. Sound(x)
      <3>1. p # Pending
        BY <1>0, <1>1, <2>3, ValidatedSays
      <3> QED BY <2>1, <2>3, <2>4, <2>5, <3>1, SettledSound
    <2>7. /\ p = Resolved => IsOk(call[c].reply)
          /\ p.code = "CONTEXT_NOT_FOUND" => call[c].reply.code = "CONTEXT_NOT_FOUND"
      BY <1>0, <1>1, <2>3, ValidatedSays
    <2>8. Ends(c, x)
      BY <1>0, <1>1, <2>1, <2>7 DEF Ends, At, InSandbox
    <2>9. Alone(c, x)
      BY <1>0, <2>1, <2>2, <2>6, <2>8 DEF Alone, Request
    <2> QED BY <2>9
  <1>2. CASE Settle(c)
    <2>1. At(c, "replied")
      BY <1>2 DEF Settle
    <2>2. Answered(c) => call[c].promise = Rejected
      BY <1>0, <2>1 DEF Sound, Promised, Answered, At, Closed
    <2>3. Validated(c) \in Rejections
      BY <1>0, <2>1, ValidatedSays DEF Sound, Replied, At
    <2>4. PICK p \in Rejections : p = IF Answered(c) THEN call[c].promise ELSE Validated(c)
      BY <1>0, <2>3, Fields
    <2>5. Becomes(c, [call[c] EXCEPT !.stage = "settled", !.promise = p])
      BY <1>2, <2>4 DEF Settle
    <2> QED BY <1>1, <2>1, <2>2, <2>4, <2>5
  <1>3. CASE CallbackThrows(c)
    BY <1>0, <1>1, <1>3 DEF CallbackThrows
  <1>4. CASE Abort(c)
    <2> DEFINE x == [call[c] EXCEPT !.promise = Rejected]
    <2>1. /\ x \in CallRecords /\ x.stage = call[c].stage /\ x.promise = Rejected /\ x.ran = call[c].ran
          /\ x.request = call[c].request /\ x.target = call[c].target /\ x.thrown = call[c].thrown
          /\ x.meta = call[c].meta /\ x.after = call[c].after /\ x.saw = call[c].saw
          /\ x.answer = call[c].answer /\ x.reply = call[c].reply
      BY <1>0 DEF CallRecords
    <2>2. Becomes(c, x) /\ ~Answered(c) /\ x.request.op = "run"
      BY <1>4, <2>1 DEF Abort, Request
    <2> HIDE DEF x
    <2>3. AsksFor(x) /\ Counted(x) /\ Replied(x)
      BY <1>0, <2>1 DEF Sound, AsksFor, Counted, Replied
    <2>4. Promised(x) /\ Told(x) /\ Saw(x)
      BY <1>0, <2>1, <2>2 DEF Sound, Promised, Told, Saw
    <2>5. Ends(c, x)
      BY <1>0, <2>1, <2>2 DEF Ends, At
    <2>6. Alone(c, x)
      BY <1>0, <2>1, <2>2, <2>3, <2>4, <2>5 DEF Alone, Sound, Request
    <2> QED BY <2>6
  <1> QED BY <1>2, <1>3, <1>4

\* A call has no binding to go to, or runs with nobody waiting.
LEMMA LostAlone ==
  ASSUME IInv, NEW c \in Calls,
         (DirectAnswers(c) /\ Kind[Request(c).binding] = "missing") \/ OrphanRuns(c)
  PROVE  \E x : Alone(c, x)
  <1>0. /\ call[c] \in CallRecords /\ Sound(call[c]) /\ call[c].meta \in Values
        /\ UNCHANGED <<queue, env, contexts, rows, minted>>
        /\ {Rejected, Resolved, Pending} \subseteq Rejections /\ Pending # Rejected /\ Resolved # Rejected
        /\ ~Refusal(Rejected.code) /\ Rejected.code # "CONTEXT_NOT_FOUND" /\ Resolved # Pending
    BY HandledFacts, Fields, PromiseTyped DEF DirectAnswers, OrphanRuns
  <1>1. CASE DirectAnswers(c) /\ Kind[Request(c).binding] = "missing"
    <2>1. call[c].stage = "direct"
      BY <1>1 DEF DirectAnswers, At
    <2>2. call[c].ran = 0 /\ Saw(call[c]) /\ call[c].promise \in {Pending, Rejected}
      BY <1>0, <2>1, BeforeRun DEF NotRun
    <2>3. Becomes(c, [call[c] EXCEPT !.stage = "settled", !.promise = Rejected])
      <3>1. (IF Answered(c) THEN call[c].promise ELSE Rejected) = Rejected
        BY <2>2 DEF Answered
      <3>2. Becomes(c, [call[c] EXCEPT !.stage = "settled",
                                       !.promise = IF Answered(c) THEN call[c].promise ELSE Rejected])
        BY <1>1 DEF DirectAnswers
      <3> QED BY <3>1, <3>2
    <2> DEFINE x == [call[c] EXCEPT !.stage = "settled", !.promise = Rejected]
    <2>4. /\ x \in CallRecords /\ x.stage = "settled" /\ x.promise = Rejected /\ x.ran = call[c].ran
          /\ x.request = call[c].request /\ x.target = call[c].target
          /\ x.meta = call[c].meta /\ x.after = call[c].after /\ x.saw = call[c].saw
      BY <1>0 DEF CallRecords, Stages
    <2> HIDE DEF x
    <2>5. Told(x) /\ Saw(x)
      BY <1>0, <2>2, <2>4 DEF Told, Saw
    <2>6. Sound(x)
      BY <1>0, <2>2, <2>4, <2>5, SettledSound
    <2>7. Ends(c, x)
      BY <1>0, <2>1, <2>2, <2>4 DEF Ends, At, InSandbox, Answered
    <2>8. Alone(c, x)
      BY <1>0, <2>3, <2>4, <2>6, <2>7 DEF Alone, Request, x
    <2> QED BY <2>8
  <1>2. CASE OrphanRuns(c)
    <2> DEFINE y == Run(c, call[c].meta)
               x == [y EXCEPT !.stage = "gone"]
    <2>1. call[c].stage = "orphan" /\ Becomes(c, x)
      BY <1>2 DEF OrphanRuns, At, RunWithMeta
    <2>2. /\ y \in CallRecords /\ y.ran = 1 /\ Saw(y)
          /\ y.request = call[c].request /\ y.promise = call[c].promise /\ y.target = call[c].target
          /\ y.meta = call[c].meta /\ y.after = call[c].after
          /\ y.saw = computeExecutionEnv(call[c].meta, call[c].request.env)
      BY <1>0, <2>1, AfterRun
    <2> HIDE DEF y
    <2>3. /\ x \in CallRecords /\ x.stage = "gone" /\ x.ran = y.ran /\ x.request = y.request
          /\ x.promise = y.promise /\ x.target = y.target /\ x.meta = y.meta /\ x.after = y.after
          /\ x.saw = y.saw
      BY <2>2, MoveTyped DEF Stages
    <2> HIDE DEF x
    <2>4. x.promise \in {Rejected, BadGateway}
      BY <1>0, <2>1, <2>2, <2>3 DEF Sound, Promised
    <2>5. ~Refusal(x.promise.code) /\ x.promise # Resolved /\ x.promise.code # "CONTEXT_NOT_FOUND"
      BY <2>4, PromiseTyped
    <2>6. AsksFor(x) /\ Counted(x) /\ Replied(x) /\ Promised(x)
      BY <2>2, <2>3, <2>4 DEF AsksFor, Counted, Replied, Promised, InRun, NotRun, Closed
    <2>7. Told(x) /\ Saw(x)
      BY <2>2, <2>3, <2>5 DEF Told, Saw
    <2>8. Ends(c, x)
      BY <2>1, <2>2, <2>3, <2>5 DEF Ends, At, InSandbox, Request
    <2>9. Alone(c, x)
      BY <1>0, <2>1, <2>2, <2>3, <2>6, <2>7, <2>8 DEF Alone, Request, Sound
    <2> QED BY <2>9
  <1> QED BY <1>1, <1>2

\* Every step is of one call, and one of these; or a fault.
LEMMA StepCases ==
  ASSUME IInv, Next
  PROVE  \/ \E c \in Calls : \/ \E y, r : Answers(c, y, r)
                             \/ \E x : Proceeds(c, x) \/ Alone(c, x)
         \/ Crash
         \/ InterpreterExpires
  <1>1. ASSUME NEW c \in Calls, Progress(c)
        PROVE  \/ \E y, r : Answers(c, y, r)
               \/ \E x : Proceeds(c, x) \/ Alone(c, x)
    <2>1. CASE GatewayRefuses(c) \/ Refuse(c) \/ RpcFails(c)
      BY <2>1, RefusalsAnswer DEF Refusals
    <2>2. CASE SetEnv(c) \/ Files(c)
      BY <2>2, OthersAnswer
    <2>3. CASE RelayError(c) \/ EndRun(c)
      BY <2>3, RunAnswers
    <2>4. CASE StatelessAnswers(c) \/ StatelessFails(c)
      BY <2>4, StatelessReplies
    <2>5. CASE DirectAnswers(c)
      BY <2>5, DirectReplies, LostAlone
    <2>6. CASE FindContext(c) \/ Probe(c) \/ Register(c) \/ RegisterFails(c) \/ ContextIsGone(c) \/ Arrive(c)
      BY <2>6, ContextAnswers, ContextProceeds
    <2>7. CASE GatewayForwards(c) \/ Begin(c)
      BY <2>7, BeginProceeds
    <2>8. CASE HostRuns(c) \/ HostHasNoContext(c)
      BY <2>8, HostAlone
    <2>9. CASE Settle(c)
      BY <2>9, CallerAlone
    <2> QED BY <1>1, <2>1, <2>2, <2>3, <2>4, <2>5, <2>6, <2>7, <2>8, <2>9 DEF Progress
  <1>2. ASSUME NEW c \in Calls, NEW r \in Requests, NEW id \in 0 .. MaxContexts, Send(c, r, id)
        PROVE  \E x : Proceeds(c, x)
    BY <1>2, SendProceeds
  <1>3. ASSUME NEW c \in Calls, CallbackThrows(c) \/ Abort(c) \/ OrphanRuns(c)
        PROVE  \E x : Alone(c, x)
    BY <1>3, CallerAlone, LostAlone
  <1>4. CASE Crash \/ InterpreterExpires
    BY <1>4
  <1>5. CASE \E c \in Calls : \/ \E r \in Requests, id \in 0 .. MaxContexts : Send(c, r, id)
                              \/ Progress(c) \/ CallbackThrows(c) \/ Abort(c) \/ OrphanRuns(c)
    BY <1>1, <1>2, <1>3, <1>5
  <1> QED BY <1>4, <1>5 DEF Next

\* What a crash does to a call.
Crashed(c) == IF call[c].stage \in InSandbox THEN AfterCrash(call[c]) ELSE call[c]

LEMMA CrashTyped ==
  ASSUME IInv, Crash, NEW c \in Calls
  PROVE  LET x == Crashed(c)
         IN  /\ call'[c] = x /\ x \in CallRecords /\ Sound(x)
             /\ x.request = call[c].request /\ x.target = call[c].target /\ x.meta = call[c].meta
             /\ x.after = call[c].after /\ x.ran = call[c].ran /\ x.saw = call[c].saw
             /\ x.reply = call[c].reply
             /\ x.stage \notin InSandbox
             /\ x.stage = call[c].stage \/ x.stage \in {"orphan", "gone"}
             /\ x.stage = "orphan" => call[c].stage \in {"rpc", "stateless", "orphan"}
             /\ Answered(c) => x.promise = call[c].promise
             /\ x.promise = call[c].promise \/ x.promise \in {Rejected, BadGateway}
  <1> DEFINE x == Crashed(c)
             y == call[c]
  <1>0. y \in CallRecords /\ Sound(y) /\ call'[c] = x
    BY HandledFacts DEF Crash, Crashed
  <1>1. CASE call[c].stage \notin InSandbox
    <2>1. x = y
      BY <1>1 DEF Crashed
    <2> QED BY <1>0, <1>1, <2>1
  <1>2. CASE call[c].stage \in InSandbox
    <2>1. PICK s, p : /\ s = IF y.stage \in {"rpc", "stateless"} THEN "orphan" ELSE "gone"
                      /\ p = IF y.promise # Pending THEN y.promise
                             ELSE IF y.request.via = "gateway" THEN BadGateway ELSE Rejected
      OBVIOUS
    <2>2. x = [y EXCEPT !.stage = s, !.promise = p]
      BY <1>2, <2>1 DEF Crashed, AfterCrash, BadGateway
    <2>3. y.promise \in {Pending, Rejected} /\ y.ran <= 1
      BY <1>0, <1>2 DEF Sound, Promised, Counted, Closed, InSandbox
    <2>4. p \in Rejections /\ p \in {Rejected, BadGateway} /\ (y.promise # Pending => p = y.promise)
      BY <2>1, <2>3, PromiseTyped
    <2>5. s \in Stages /\ s \in {"orphan", "gone"} /\ (s = "orphan" => y.stage \in {"rpc", "stateless"})
      BY <2>1 DEF Stages
    <2> HIDE DEF x
    <2>6. /\ x \in CallRecords /\ x.stage = s /\ x.promise = p
          /\ x.request = y.request /\ x.target = y.target /\ x.meta = y.meta
          /\ x.after = y.after /\ x.ran = y.ran /\ x.saw = y.saw /\ x.reply = y.reply
      BY <1>0, <2>2, <2>4, <2>5 DEF CallRecords
    <2>7. s = "orphan" => x.ran = 0 /\ x.request \in RunRequests
      BY <1>0, <2>5, <2>6 DEF Sound, Counted, AsksFor, NotRun, InRun
    <2>8. AsksFor(x) /\ Counted(x) /\ Replied(x)
      BY <2>3, <2>5, <2>6, <2>7 DEF AsksFor, Counted, Replied, NotRun, InRun
    <2>9. Promised(x)
      BY <2>4, <2>5, <2>6 DEF Promised, Closed
    <2>10. Told(x)
      BY <2>4, <2>5, <2>6, PromiseTyped DEF Told
    <2>11. Saw(x)
      BY <1>0, <2>6 DEF Sound, Saw
    <2>12. "orphan" \notin InSandbox /\ "gone" \notin InSandbox
      BY DEF InSandbox
    <2>13. Sound(x) /\ x.stage \notin InSandbox /\ (Answered(c) => x.promise = y.promise)
      BY <2>4, <2>5, <2>6, <2>8, <2>9, <2>10, <2>11, <2>12 DEF Sound, Answered
    <2> QED BY <1>0, <2>4, <2>5, <2>6, <2>13 DEF x
  <1> QED BY <1>1, <1>2

(***************************************************************************)
(* The invariant.                                                          *)
(***************************************************************************)
\* The call an answer is given to: sound, and in no other way changed.
LEMMA AnswerTyped ==
  ASSUME IInv, NEW c \in Calls, NEW y, NEW r, Answers(c, y, r)
  PROVE  LET x == WithReply(y, r, r)
         IN  /\ x \in CallRecords /\ Sound(x) /\ call' \in [Calls -> CallRecords] /\ call'[c] = x
             /\ \A d \in Calls : d # c => call'[d] = call[d]
             /\ x.stage = "replied" /\ x.reply = r /\ x.promise = call[c].promise
             /\ x.promise \in {Pending, Rejected}
             /\ x.request = call[c].request /\ x.target = call[c].target /\ x.after = call[c].after
             /\ \/ x.ran = 0
                \/ x.ran = call[c].ran /\ x.saw = call[c].saw
                \/ Request(c).via = "direct"
                \/ call[c].stage \in Handled /\ x.saw = computeExecutionEnv(call[c].meta, Request(c).env)
  <1>1. call[c] \in CallRecords /\ Sound(call[c]) /\ call[c].meta \in Values /\ Unset \in Values
    BY HandledFacts, Fields DEF Values
  <1>2. /\ call[c].promise \in {Pending, Rejected} /\ (call[c].request.op # "run" => call[c].promise = Pending)
        /\ call[c].ran <= 1 /\ Saw(call[c])
    BY <1>1 DEF Answers, Sound, Promised, Counted, Closed, Handled, InSandbox
  <1>3. /\ y \in CallRecords /\ y.ran <= 1 /\ Saw(y)
        /\ y.request = call[c].request /\ y.promise = call[c].promise
        /\ y.target = call[c].target /\ y.after = call[c].after
        /\ \/ y.ran = call[c].ran /\ y.saw = call[c].saw
           \/ Request(c).via = "direct"
           \/ call[c].stage \in Handled /\ y.saw = computeExecutionEnv(call[c].meta, Request(c).env)
    <2>1. CASE y = call[c]
      BY <1>1, <1>2, <2>1
    <2>2. CASE call[c].stage = "stateless" /\ y = Run(c, call[c].meta)
      BY <1>1, <2>2, AfterRun DEF Handled, InSandbox, Request
    <2>3. CASE call[c].stage = "direct" /\ y = Run(c, Unset)
      <3>1. call[c].request.via = "direct"
        BY <1>1, <2>3 DEF Sound, AsksFor
      <3> QED BY <1>1, <2>3, <3>1, AfterRun DEF Request
    <2> QED BY <2>1, <2>2, <2>3 DEF Answers
  <1> DEFINE x == WithReply(y, r, r)
  <1>4. /\ r \in Responses /\ WellFormed(r) /\ (Refusal(r.code) => y.ran = 0)
        /\ y.request.op = "run" /\ IsOk(r) /\ r.body = "result" => y.ran = 1
        /\ Becomes(c, x)
    BY <1>3 DEF Answers, Request
  <1>5. Sound(x)
    BY <1>2, <1>3, <1>4, ReplySound
  <1>6. /\ x \in CallRecords /\ x.stage = "replied" /\ x.reply = r /\ x.request = y.request
        /\ x.target = y.target /\ x.after = y.after /\ x.ran = y.ran /\ x.saw = y.saw /\ x.promise = y.promise
    BY <1>3, <1>4, ReplyTyped
  <1>7. call \in [Calls -> CallRecords]
    BY DEF IInv, Types
  <1> HIDE DEF x
  <1>8. /\ call' \in [Calls -> CallRecords] /\ call'[c] = x
        /\ \A d \in Calls : d # c => call'[d] = call[d]
    BY <1>4, <1>6, <1>7, Change
  <1> QED BY <1>2, <1>3, <1>5, <1>6, <1>8 DEF x

\* The calls stay sound.
LEMMA SoundKept ==
  ASSUME IInv, Next
  PROVE  call' \in [Calls -> CallRecords] /\ EachIsSound'
  <1>0. call \in [Calls -> CallRecords] /\ \A d \in Calls : Sound(call[d])
    BY DEF IInv, Types, EachIsSound
  <1>1. ASSUME NEW c \in Calls, NEW x \in CallRecords, Sound(x), Becomes(c, x)
        PROVE  call' \in [Calls -> CallRecords] /\ EachIsSound'
    <2>1. /\ call' \in [Calls -> CallRecords] /\ call'[c] = x
          /\ \A d \in Calls : d # c => call'[d] = call[d]
      BY <1>0, <1>1, Change
    <2> QED BY <1>0, <1>1, <2>1 DEF EachIsSound
  <1>2. CASE \E c \in Calls : \E y, r : Answers(c, y, r)
    BY <1>0, <1>2, AnswerTyped DEF EachIsSound
  <1>3. CASE \E c \in Calls : \E x : Proceeds(c, x) \/ Alone(c, x)
    BY <1>1, <1>3 DEF Proceeds, Alone
  <1>4. CASE Crash
    <2>1. \A c \in Calls : call'[c] \in CallRecords /\ Sound(call'[c])
      BY <1>4, CrashTyped
    <2>2. call' = [c \in Calls |-> call'[c]]
      BY <1>4 DEF Crash
    <2> QED BY <2>1, <2>2 DEF EachIsSound
  <1>5. CASE InterpreterExpires
    BY <1>0, <1>5 DEF InterpreterExpires, EachIsSound
  <1> QED BY <1>2, <1>3, <1>4, <1>5, StepCases

\* A queue in which everybody is once: it is joined at its end, and left at its head.
LEMMA QueueSteps ==
  ASSUME NEW s \in Seq(Calls), IsInjective(s), NEW c \in Calls
  PROVE  /\ c \notin ToSet(s) => /\ Append(s, c) \in Seq(Calls) /\ IsInjective(Append(s, c))
                                 /\ ToSet(Append(s, c)) = ToSet(s) \union {c}
                                 /\ s # <<>> => Head(Append(s, c)) = Head(s)
                                 /\ Append(s, c) # <<>>
         /\ s # <<>> => /\ Tail(s) \in Seq(Calls) /\ IsInjective(Tail(s))
                        /\ Head(s) \in ToSet(s) /\ ToSet(Tail(s)) = ToSet(s) \ {Head(s)}
  <1>0. Len(s) \in Nat /\ DOMAIN s = 1 .. Len(s)
    OBVIOUS
  <1>1. ASSUME c \notin ToSet(s)
        PROVE  /\ Append(s, c) \in Seq(Calls) /\ IsInjective(Append(s, c))
               /\ ToSet(Append(s, c)) = ToSet(s) \union {c}
               /\ s # <<>> => Head(Append(s, c)) = Head(s)
               /\ Append(s, c) # <<>>
    <2>1. /\ Append(s, c) \in Seq(Calls) /\ DOMAIN Append(s, c) = (DOMAIN s) \union {Len(s) + 1}
          /\ \A i \in DOMAIN s : Append(s, c)[i] = s[i]
          /\ Append(s, c)[Len(s) + 1] = c
      BY <1>0
    <2>2. ToSet(Append(s, c)) = ToSet(s) \union {c}
      BY <1>0, <2>1 DEF ToSet
    <2>3. IsInjective(Append(s, c))
      BY <1>0, <1>1, <2>1 DEF IsInjective, ToSet
    <2>4. s # <<>> => Head(Append(s, c)) = Head(s)
      BY <1>0, <2>1
    <2>5. Append(s, c) # <<>>
      BY <1>0, <2>1
    <2> QED BY <2>1, <2>2, <2>3, <2>4, <2>5
  <1>2. ASSUME s # <<>>
        PROVE  /\ Tail(s) \in Seq(Calls) /\ IsInjective(Tail(s))
               /\ Head(s) \in ToSet(s) /\ ToSet(Tail(s)) = ToSet(s) \ {Head(s)}
    <2>1. /\ Len(s) \in Nat \ {0} /\ Head(s) = s[1] /\ 1 \in DOMAIN s
          /\ Tail(s) \in Seq(Calls) /\ DOMAIN Tail(s) = 1 .. (Len(s) - 1)
          /\ \A i \in DOMAIN Tail(s) : Tail(s)[i] = s[i + 1]
      BY <1>0, <1>2
    <2>2. IsInjective(Tail(s)) /\ Head(s) \in ToSet(s)
      BY <1>0, <2>1 DEF IsInjective, ToSet
    <2>3. ASSUME NEW d \in ToSet(Tail(s)) PROVE d \in ToSet(s) \ {Head(s)}
      <3>1. PICK i \in DOMAIN Tail(s) : d = Tail(s)[i]
        BY <2>3 DEF ToSet
      <3>2. i + 1 \in DOMAIN s /\ d = s[i + 1] /\ i + 1 # 1
        BY <3>1, <1>0, <2>1
      <3> QED BY <3>2, <2>1 DEF ToSet, IsInjective
    <2>4. ASSUME NEW d \in ToSet(s) \ {Head(s)} PROVE d \in ToSet(Tail(s))
      <3>1. PICK i \in DOMAIN s : d = s[i]
        BY <2>4 DEF ToSet
      <3>2. i - 1 \in DOMAIN Tail(s) /\ d = Tail(s)[i - 1]
        BY <3>1, <2>4, <1>0, <2>1
      <3> QED BY <3>2 DEF ToSet
    <2> QED BY <2>1, <2>2, <2>3, <2>4
  <1> QED BY <1>1, <1>2

\* At most one call is handled at a time.
LEMMA OneHandled ==
  ASSUME IInv, NEW c \in Calls, NEW d \in Calls, call[c].stage \in Handled, call[d].stage \in Handled
  PROVE  c = d
  BY HandledFacts DEF IsNext

\* The queue is the sandbox's.
LEMMA QueuedKept ==
  ASSUME IInv, Next
  PROVE  queue' \in Seq(Calls) /\ Queued'
  <1>0. /\ queue \in Seq(Calls) /\ IsInjective(queue) /\ call \in [Calls -> CallRecords]
        /\ ToSet(queue) = {d \in Calls : call[d].stage \in InSandbox}
        /\ \A d \in Calls : call[d].stage \in Handled => IsNext(d)
        /\ Handled \subseteq InSandbox
    BY DEF IInv, Types, Queued, Handled
  <1>1. ASSUME NEW c \in Calls, NEW y, NEW r, Answers(c, y, r)
        PROVE  queue' \in Seq(Calls) /\ Queued'
    <2>1. /\ call'[c].stage = "replied" /\ "replied" \notin InSandbox
          /\ \A d \in Calls : d # c => call'[d] = call[d]
      BY <1>1, AnswerTyped DEF InSandbox
    <2>2. CASE call[c].stage \in Handled
      <3>1. IsNext(c) /\ queue' = Tail(queue) /\ queue # <<>> /\ c = Head(queue)
        BY <1>0, <1>1, <2>2 DEF Answers, TakenOff, IsNext
      <3>2. queue' \in Seq(Calls) /\ IsInjective(queue') /\ ToSet(queue') = ToSet(queue) \ {c}
        BY <1>0, <3>1, QueueSteps
      <3>3. ToSet(queue') = {d \in Calls : call'[d].stage \in InSandbox}
        BY <1>0, <2>1, <3>2
      <3>4. \A d \in Calls : call'[d].stage \notin Handled
        BY <1>0, <2>1, <2>2, OneHandled
      <3> QED BY <3>2, <3>3, <3>4 DEF Queued
    <2>3. CASE call[c].stage \in {"gateway", "direct"}
      <3>1. call[c].stage \notin InSandbox
        BY <2>3 DEF InSandbox
      <3>2. c \notin ToSet(queue)
        BY <1>0, <3>1
      <3>3. ~IsNext(c)
        BY <1>0, <3>2, QueueSteps DEF IsNext
      <3>4. queue' = queue
        BY <1>1, <3>3 DEF Answers, TakenOff
      <3>5. \A d \in Calls : (call'[d].stage \in InSandbox <=> call[d].stage \in InSandbox)
                             /\ (call'[d].stage \in Handled => call[d].stage \in Handled)
        BY <1>0, <2>1, <3>1
      <3> QED BY <1>0, <3>4, <3>5 DEF Queued, IsNext
    <2> QED BY <1>1, <2>2, <2>3 DEF Answers
  <1>2. ASSUME NEW c \in Calls, NEW x, Proceeds(c, x)
        PROVE  queue' \in Seq(Calls) /\ Queued'
    <2>1. call'[c] = x /\ \A d \in Calls : d # c => call'[d] = call[d]
      BY <1>0, <1>2, Change DEF Proceeds
    <2>2. CASE queue' = Append(queue, c) /\ At(c, "sent") /\ x.stage = "arrived"
      <3>1. call[c].stage \notin InSandbox /\ x.stage \in InSandbox /\ x.stage \notin Handled
        BY <2>2 DEF At, InSandbox, Handled
      <3>2. c \notin ToSet(queue)
        BY <1>0, <3>1
      <3>3. /\ queue' \in Seq(Calls) /\ IsInjective(queue') /\ ToSet(queue') = ToSet(queue) \union {c}
            /\ queue # <<>> => queue' # <<>> /\ Head(queue') = Head(queue)
        BY <1>0, <2>2, <3>2, QueueSteps
      <3>4. ToSet(queue') = {d \in Calls : call'[d].stage \in InSandbox}
        BY <1>0, <2>1, <3>1, <3>3
      <3>5. \A d \in Calls : call'[d].stage \in Handled => IsNext(d) /\ d # c
        BY <1>0, <2>1, <3>1
      <3> QED BY <3>3, <3>4, <3>5 DEF Queued, IsNext
    <2>3. CASE /\ queue' = queue /\ x.stage # "arrived" /\ (x.stage \in InSandbox => IsNext(c))
               /\ call[c].stage \in InSandbox <=> x.stage \in InSandbox
      <3>1. \A d \in Calls : (call'[d].stage \in InSandbox <=> call[d].stage \in InSandbox)
                             /\ (call'[d].stage \in Handled => IsNext(d))
        BY <1>0, <2>1, <2>3
      <3> QED BY <1>0, <2>3, <3>1 DEF Queued, IsNext
    <2> QED BY <1>2, <2>2, <2>3 DEF Proceeds
  <1>3. ASSUME NEW c \in Calls, NEW x, Alone(c, x)
        PROVE  queue' \in Seq(Calls) /\ Queued'
    <2>1. call'[c] = x /\ queue' = queue /\ \A d \in Calls : d # c => call'[d] = call[d]
      BY <1>0, <1>3, Change DEF Alone
    <2>2. /\ x.stage \in InSandbox <=> call[c].stage \in InSandbox
          /\ x.stage \in Handled => call[c].stage \in Handled
      BY <1>3 DEF Alone, Hosts, Ends, At, Handled, InSandbox
    <2>3. \A d \in Calls : (call'[d].stage \in InSandbox <=> call[d].stage \in InSandbox)
                           /\ (call'[d].stage \in Handled => IsNext(d))
      BY <1>0, <2>1, <2>2
    <2> QED BY <1>0, <2>1, <2>3 DEF Queued, IsNext
  <1>4. CASE Crash
    <2>1. queue' = <<>> /\ \A c \in Calls : call'[c].stage \notin InSandbox
      BY <1>4, CrashTyped DEF Crash
    <2>2. <<>> \in Seq(Calls) /\ ToSet(<<>>) = {} /\ IsInjective(<<>>)
      BY DEF ToSet, IsInjective
    <2> QED BY <1>0, <2>1, <2>2 DEF Queued
  <1>5. CASE InterpreterExpires
    BY <1>0, <1>5 DEF InterpreterExpires, Queued, IsNext
  <1> QED BY <1>1, <1>2, <1>3, <1>4, <1>5, StepCases

\* The tables stay typed.
LEMMA TypesKept ==
  ASSUME IInv, Next
  PROVE  Types'
  <1>0. /\ env \in Calls \union {NoCall} /\ contexts \subseteq [id : 1 .. minted, binding : Bindings]
        /\ rows \subseteq 1 .. minted /\ minted \in 0 .. MaxContexts /\ minted \in Nat
    BY DEF IInv, Types
  <1>1. /\ env' \in Calls \union {NoCall} /\ contexts' \subseteq [id : 1 .. minted', binding : Bindings]
        /\ rows' \subseteq 1 .. minted' /\ minted' \in 0 .. MaxContexts
    <2>1. ASSUME NEW c \in Calls, NEW y, NEW r, Answers(c, y, r)
          PROVE  <1>1!1 /\ <1>1!2
      <3>1. env' \in Calls \union {NoCall}
        BY <1>0, <2>1, HandledFacts DEF Answers
      <3>2. contexts' \subseteq contexts /\ minted' \in minted .. MaxContexts /\ rows' \subseteq 1 .. minted'
        BY <2>1 DEF Answers
      <3>3. minted' \in 0 .. MaxContexts /\ 1 .. minted \subseteq 1 .. minted'
        BY <1>0, <3>2
      <3>4. contexts' \subseteq [id : 1 .. minted', binding : Bindings]
        BY <1>0, <3>2, <3>3
      <3> QED BY <3>1, <3>2, <3>3, <3>4
    <2>2. ASSUME NEW c \in Calls, NEW x, Proceeds(c, x)
          PROVE  <1>1!1 /\ <1>1!2
      <3>1. env' = env
        BY <2>2 DEF Proceeds
      <3>2. CASE UNCHANGED <<contexts, rows, minted>>
        BY <1>0, <3>1, <3>2
      <3>3. CASE /\ At(c, "creating") /\ minted' = minted + 1 /\ minted < MaxContexts
                 /\ rows' = rows \union {minted'}
                 /\ contexts' = contexts \union {[id |-> minted', binding |-> Request(c).binding]}
        <4>1. Request(c).binding \in Bindings
          <5>1. Request(c) \in RunRequests
            BY <3>3, HandledFacts DEF At, Sound, AsksFor, InRun, Request
          <5> QED BY <5>1 DEF RunRequests
        <4>2. minted' \in 1 .. minted' /\ minted' \in 0 .. MaxContexts /\ 1 .. minted \subseteq 1 .. minted'
          BY <1>0, <3>3
        <4> QED BY <1>0, <3>1, <3>3, <4>1, <4>2
      <3> QED BY <2>2, <3>2, <3>3 DEF Proceeds
    <2>3. CASE \E c \in Calls : \E x : Alone(c, x)
      BY <1>0, <2>3 DEF Alone
    <2>4. CASE Crash \/ InterpreterExpires
      BY <1>0, <2>4 DEF Crash, InterpreterExpires
    <2> QED BY <2>1, <2>2, <2>3, <2>4, StepCases
  <1> QED BY <1>1, SoundKept, QueuedKept DEF Types

\* The contexts.
LEMMA TabledKept ==
  ASSUME IInv, Next
  PROVE  Tabled'
  <1>0. /\ call \in [Calls -> CallRecords] /\ minted \in Nat
        /\ contexts \subseteq [id : 1 .. minted, binding : Bindings] /\ OneDefaultContext
        /\ \A d \in Calls : /\ call[d].target \in Nat /\ call[d].target <= minted
                            /\ call[d].stage \in {"probing", "creating"} => Existing(d) = {}
                            /\ call[d].promise.code = "CONTEXT_NOT_FOUND" => call[d].target \notin Ids
                            /\ call[d].stage = "replied" /\ call[d].reply.code = "CONTEXT_NOT_FOUND" =>
                                 call[d].target \notin Ids
    BY HandledFacts DEF IInv, Types, Tabled, At
  <1>1. \A p \in {Pending, Resolved, Rejected, BadGateway} : p.code # "CONTEXT_NOT_FOUND"
    BY PromiseTyped
  <1>2. ASSUME NEW c \in Calls, NEW y, NEW r, Answers(c, y, r)
        PROVE  Tabled'
    <2> DEFINE x == WithReply(y, r, r)
    <2>1. /\ call'[c] = x /\ \A d \in Calls : d # c => call'[d] = call[d]
          /\ x.stage = "replied" /\ x.reply = r /\ x.promise \in {Pending, Rejected}
          /\ x.target = call[c].target
      BY <1>2, AnswerTyped
    <2> HIDE DEF x
    <2>2. /\ contexts' \subseteq contexts /\ minted' \in Nat /\ minted <= minted'
          /\ r.code = "CONTEXT_NOT_FOUND" => call[c].target \notin Ids'
      BY <1>0, <1>2 DEF Answers
    <2>3. Ids' \subseteq Ids /\ OneDefaultContext'
      BY <1>0, <2>2 DEF Ids, OneDefaultContext
    <2>4. ASSUME NEW d \in Calls
          PROVE  /\ call'[d].target <= minted'
                 /\ call'[d].stage \in {"probing", "creating"} => Existing(d)' = {}
                 /\ call'[d].promise.code = "CONTEXT_NOT_FOUND" => call'[d].target \notin Ids'
                 /\ call'[d].stage = "replied" /\ call'[d].reply.code = "CONTEXT_NOT_FOUND" =>
                      call'[d].target \notin Ids'
      <3>1. CASE d = c
        BY <1>0, <1>1, <2>1, <2>2, <3>1
      <3>2. CASE d # c
        <4>1. call'[d] = call[d] /\ (Existing(d) = {} => Existing(d)' = {})
          BY <2>1, <2>2, <3>2 DEF Existing, Request
        <4> QED BY <1>0, <2>2, <2>3, <4>1
      <3> QED BY <3>1, <3>2
    <2> QED BY <2>3, <2>4 DEF Tabled, At
  <1>3. ASSUME NEW c \in Calls, NEW x, Proceeds(c, x)
        PROVE  Tabled'
    <2>1. /\ call'[c] = x /\ \A d \in Calls : d # c => call'[d] = call[d]
          /\ x.promise = call[c].promise /\ x.stage # "replied" /\ x.target <= minted'
          /\ call[c].promise \in {Pending, Rejected}
      BY <1>0, <1>3, Change, HandledFacts, BeforeRun DEF Proceeds, NotRun
    <2>2. CASE UNCHANGED <<contexts, rows, minted>>
      <3>1. Ids' = Ids /\ OneDefaultContext'
        BY <1>0, <2>2 DEF Ids, OneDefaultContext
      <3>2. \A d \in Calls : d # c => Existing(d)' = Existing(d)
        BY <2>1, <2>2 DEF Existing, Request
      <3>3. x.stage \in {"probing", "creating"} => Existing(c)' = {}
        BY <1>3, <2>1 DEF Proceeds, Existing, Request
      <3> QED BY <1>0, <1>1, <2>1, <2>2, <3>1, <3>2, <3>3 DEF Tabled, At
    <2>3. CASE /\ At(c, "creating") /\ minted' = minted + 1
               /\ contexts' = contexts \union {[id |-> minted', binding |-> Request(c).binding]}
      <3>1. /\ call[c].stage = "creating" /\ Existing(c) = {}
            /\ call[c].stage \in Handled
        BY <1>0, <2>3 DEF At, Handled, InSandbox
      <3> DEFINE new == [id |-> minted', binding |-> Request(c).binding]
      <3>6. /\ contexts' = contexts \union {new} /\ new.id = minted' /\ new \notin contexts
            /\ \A z \in contexts : z.id \in 1 .. minted /\ z.id # minted'
        BY <1>0, <2>3
      <3> HIDE DEF new
      <3>2. Ids' = Ids \union {minted'}
        BY <3>6 DEF Ids
      <3>3. OneDefaultContext'
        BY <1>0, <2>3, <3>1 DEF OneDefaultContext, Existing
      <3>4. x.stage \notin {"probing", "creating"}
        <4>1. contexts' # contexts
          BY <3>6
        <4> QED BY <1>3, <4>1 DEF Proceeds
      <3>5. ASSUME NEW d \in Calls, d # c
            PROVE  /\ call'[d].target <= minted'
                   /\ call'[d].stage \notin {"probing", "creating"}
                   /\ call'[d].promise.code = "CONTEXT_NOT_FOUND" => call'[d].target \notin Ids'
                   /\ call'[d].stage = "replied" /\ call'[d].reply.code = "CONTEXT_NOT_FOUND" =>
                        call'[d].target \notin Ids'
        <4>1. call[d].stage \notin {"probing", "creating"}
          BY <3>1, <3>5, OneHandled DEF Handled, InSandbox
        <4>2. call[d].target # minted' /\ call[d].target <= minted'
          BY <1>0, <2>3
        <4> QED BY <1>0, <2>1, <3>2, <3>5, <4>1, <4>2
      <3> QED BY <1>1, <2>1, <3>3, <3>4, <3>5 DEF Tabled, At
    <2> QED BY <1>3, <2>2, <2>3 DEF Proceeds
  <1>4. ASSUME NEW c \in Calls, NEW x, Alone(c, x)
        PROVE  Tabled'
    <2>1. /\ call'[c] = x /\ \A d \in Calls : d # c => call'[d] = call[d]
          /\ UNCHANGED <<contexts, minted>> /\ x.request = call[c].request /\ x.target = call[c].target
      BY <1>0, <1>4, Change DEF Alone, Request
    <2>2. /\ x.stage \in {"probing", "creating"} => call[c].stage = x.stage
          /\ x.stage = "replied" => call[c].stage = "replied" /\ x.reply = call[c].reply
          /\ x.promise.code = "CONTEXT_NOT_FOUND" =>
               \/ call[c].promise.code = "CONTEXT_NOT_FOUND"
               \/ call[c].stage = "replied" /\ call[c].reply.code = "CONTEXT_NOT_FOUND"
      <3>1. CASE Hosts(c, x) /\ x.promise = call[c].promise
        BY <3>1 DEF Hosts
      <3>2. CASE Ends(c, x)
        BY <3>2 DEF Ends, InSandbox, At
      <3> QED BY <1>4, <3>1, <3>2 DEF Alone
    <2>3. Ids' = Ids /\ OneDefaultContext' /\ \A d \in Calls : Existing(d)' = Existing(d)
      BY <1>0, <2>1 DEF Ids, OneDefaultContext, Existing, Request
    <2> QED BY <1>0, <2>1, <2>2, <2>3 DEF Tabled, At
  <1>5. CASE Crash
    <2>1. UNCHANGED <<contexts, minted>>
      BY <1>5 DEF Crash
    <2>2. Ids' = Ids /\ OneDefaultContext'
      BY <1>0, <2>1 DEF Ids, OneDefaultContext
    <2>3. ASSUME NEW d \in Calls
          PROVE  /\ call'[d].target <= minted'
                 /\ call'[d].stage \in {"probing", "creating"} => Existing(d)' = {}
                 /\ call'[d].promise.code = "CONTEXT_NOT_FOUND" => call'[d].target \notin Ids'
                 /\ call'[d].stage = "replied" /\ call'[d].reply.code = "CONTEXT_NOT_FOUND" =>
                      call'[d].target \notin Ids'
      <3>1. /\ call'[d].target = call[d].target
            /\ call'[d].stage \notin InSandbox
            /\ call'[d].stage = call[d].stage \/ call'[d].stage \in {"orphan", "gone"}
            /\ call'[d].reply = call[d].reply
            /\ call'[d].promise = call[d].promise \/ call'[d].promise \in {Rejected, BadGateway}
        BY <1>5, CrashTyped
      <3>2. call'[d].stage \notin {"probing", "creating"}
        BY <3>1 DEF InSandbox
      <3> QED BY <1>0, <1>1, <2>1, <2>2, <3>1, <3>2
    <2> QED BY <2>2, <2>3 DEF Tabled, At
  <1>6. CASE InterpreterExpires
    BY <1>0, <1>6 DEF InterpreterExpires, Tabled, At, Ids, OneDefaultContext, Existing, Request
  <1> QED BY <1>2, <1>3, <1>4, <1>5, <1>6, StepCases

\* What a step leaves of a call: its answer, its order after others, the copy of the variable.
Left(d) ==
  /\ Answered(d) => call'[d].promise = call[d].promise
  /\ \/ call'[d].after = call[d].after /\ call'[d].request.op = call[d].request.op
     \/ /\ call[d].stage = "new" /\ call'[d].after = {e \in Calls : Answered(e)}
        /\ call'[d].promise = Pending /\ call'[d].ran = 0 /\ call'[d].stage \notin {"replied", "orphan"}
  /\ Applied(d)' => Applied(d) \/ (env' = d /\ call[d].stage = "begun" /\ call[d].request.op = "env")
  /\ call'[d].stage \in Handled => call'[d].meta = env'
  /\ call'[d].stage = "orphan" =>
       call[d].stage \in Handled \union {"orphan"} /\ call'[d].meta = call[d].meta
  /\ call'[d].ran > 0 /\ call'[d].request.via # "direct" /\ call'[d].request.op = "run" =>
       /\ call'[d].request = call[d].request
       /\ \/ call'[d].ran = call[d].ran /\ call'[d].saw = call[d].saw
          \/ /\ call[d].stage \in Handled \union {"orphan"}
             /\ call'[d].saw = computeExecutionEnv(call[d].meta, call[d].request.env)

\* A call that does not step leaves itself.
LEMMA OthersLeft ==
  ASSUME IInv, NEW d \in Calls, call'[d] = call[d], call[d].stage \in Handled => env' = env
  PROVE  Left(d)
  <1>1. call[d].stage \in Handled => call[d].meta = env
    BY HandledFacts
  <1> QED BY <1>1 DEF Left, Applied, Request, At, Answered

\* The answered call, ...
LEMMA AnswersLeft ==
  ASSUME IInv, NEW c \in Calls, NEW y, NEW r, Answers(c, y, r), NEW d \in Calls
  PROVE  Left(d)
  <1> DEFINE x == WithReply(y, r, r)
  <1>1. /\ call'[c] = x /\ (d # c => call'[d] = call[d])
        /\ x.stage = "replied" /\ x.reply = r /\ x.promise = call[c].promise
        /\ x.promise \in {Pending, Rejected} /\ x.request = call[c].request
        /\ x.after = call[c].after
        /\ \/ x.ran = 0
           \/ x.ran = call[c].ran /\ x.saw = call[c].saw
           \/ Request(c).via = "direct"
           \/ call[c].stage \in Handled /\ x.saw = computeExecutionEnv(call[c].meta, Request(c).env)
    BY AnswerTyped
  <1> HIDE DEF x
  <1>2. /\ \/ env' = env /\ (Request(c).op = "env" => ~IsOk(r))
           \/ env' = call[c].meta /\ call[c].stage \in Handled /\ Request(c).op # "env"
           \/ env' = c /\ call[c].stage = "begun" /\ Request(c).op = "env"
    BY DEF Answers
  <1>3. call[c].stage \in Handled => call[c].meta = env
    BY HandledFacts
  <1>4. CASE d = c
    <2>1. Applied(c)' => Applied(c) \/ (env' = c /\ call[c].stage = "begun" /\ call[c].request.op = "env")
      BY <1>1, <1>2, PromiseTyped DEF Applied, Request, At
    <2>2. x.stage \notin Handled \union {"orphan"}
      BY <1>1 DEF Handled, InSandbox
    <2> QED BY <1>1, <1>4, <2>1, <2>2 DEF Left, Answered, Request
  <1>5. CASE d # c
    <2>1. call[d].stage \in Handled => call[c].stage \notin Handled
      BY <1>5, OneHandled
    <2>2. call[d].stage \in Handled => env' = env
      BY <1>2, <2>1 DEF Handled, InSandbox
    <2> QED BY <1>1, <1>5, <2>2, OthersLeft
  <1> QED BY <1>4, <1>5

\* ... one that moves on, ...
LEMMA ProceedsLeft ==
  ASSUME IInv, NEW c \in Calls, NEW x, Proceeds(c, x), NEW d \in Calls
  PROVE  Left(d)
  <1>1. call'[c] = x /\ (d # c => call'[d] = call[d]) /\ env' = env
    BY Change DEF Proceeds, IInv, Types
  <1>2. /\ call[c].promise \in {Pending, Rejected} /\ x.promise = call[c].promise /\ x.ran = 0
        /\ x.stage \notin {"replied", "orphan"}
        /\ call[c].stage = "new" => call[c].promise = Pending
    <2>1. call[c] \in CallRecords /\ Sound(call[c])
      BY HandledFacts
    <2>2. call[c].stage = "new" => call[c].promise = Pending
      BY <2>1 DEF Sound, Promised, Closed
    <2> QED BY <2>1, <2>2, BeforeRun DEF Proceeds, NotRun, Sound, Counted
  <1>3. CASE d = c
    <2>1. ~Applied(c)'
      BY <1>1, <1>2, PromiseTyped DEF Applied, At, Request
    <2> QED BY <1>1, <1>2, <1>3, <2>1 DEF Left, Proceeds, Answered, At, Request
  <1>4. CASE d # c
    BY <1>1, <1>4, OthersLeft
  <1> QED BY <1>3, <1>4

\* ... and one that is answered by its interpreter, or ends.
LEMMA AloneLeft ==
  ASSUME IInv, NEW c \in Calls, NEW x, Alone(c, x), NEW d \in Calls
  PROVE  Left(d)
  <1>1. /\ call'[c] = x /\ (d # c => call'[d] = call[d]) /\ env' = env
        /\ x.request = call[c].request /\ x.meta = call[c].meta /\ x.after = call[c].after
        /\ call[c] \in CallRecords /\ Sound(call[c]) /\ x \in CallRecords
        /\ call[c].stage \in Handled => call[c].meta = env
    BY Change, HandledFacts DEF Alone, IInv, Types, Request
  <1>2. CASE d = c
    <2>1. CASE Hosts(c, x) /\ x.promise = call[c].promise
      <3>1. call[c].stage = "rpc" /\ x.stage = "answered" /\ call[c].stage \in Handled
        BY <2>1 DEF Hosts, At, Handled, InSandbox
      <3>2. Applied(c)' => Applied(c)
        BY <1>1, <2>1, <3>1 DEF Applied, Request, At
      <3>3. x.ran = 0 \/ x.saw = computeExecutionEnv(call[c].meta, call[c].request.env)
        BY <2>1 DEF Hosts, Request
      <3> QED BY <1>1, <1>2, <2>1, <3>1, <3>2, <3>3 DEF Left, Answered
    <2>2. CASE Ends(c, x)
      <3>1. Applied(c)' => Applied(c)
        BY <1>1, <2>2 DEF Ends, Applied, Request, At, Answered
      <3>2. /\ x.stage \in Handled => call[c].stage \in Handled
            /\ x.stage = "orphan" => call[c].stage = "orphan"
            /\ \/ x.ran = call[c].ran /\ x.saw = call[c].saw
               \/ call[c].stage = "orphan" /\ x.saw = computeExecutionEnv(call[c].meta, call[c].request.env)
        BY <2>2 DEF Ends, Handled, At, Request
      <3> QED BY <1>1, <1>2, <2>2, <3>1, <3>2 DEF Left, Ends, Answered
    <2> QED BY <2>1, <2>2 DEF Alone
  <1>3. CASE d # c
    BY <1>1, <1>3, OthersLeft
  <1> QED BY <1>2, <1>3

\* So every step leaves this of every call.
LEMMA StepLeaves ==
  ASSUME IInv, Next, NEW d \in Calls
  PROVE  Left(d)
  <1>1. CASE \E c \in Calls : \/ \E y, r : Answers(c, y, r)
                              \/ \E x : Proceeds(c, x) \/ Alone(c, x)
    BY <1>1, AnswersLeft, ProceedsLeft, AloneLeft
  <1>2. CASE Crash
    <2> DEFINE x == Crashed(d)
    <2>1. /\ call'[d] = x /\ x.request = call[d].request /\ x.meta = call[d].meta
          /\ x.after = call[d].after /\ x.ran = call[d].ran /\ x.saw = call[d].saw
          /\ x.reply = call[d].reply
          /\ x.stage \notin InSandbox
          /\ x.stage = call[d].stage \/ x.stage \in {"orphan", "gone"}
          /\ x.stage = "orphan" => call[d].stage \in {"rpc", "stateless", "orphan"}
          /\ Answered(d) => x.promise = call[d].promise
          /\ x.promise = call[d].promise \/ x.promise \in {Rejected, BadGateway}
      BY <1>2, CrashTyped
    <2> HIDE DEF x
    <2>2. Applied(d)' => Applied(d)
      BY <2>1, PromiseTyped DEF Applied, Request, At
    <2>3. x.stage \notin Handled /\ {"rpc", "stateless"} \subseteq Handled
      BY <2>1 DEF Handled, InSandbox
    <2> QED BY <2>1, <2>2, <2>3 DEF Left
  <1>3. CASE InterpreterExpires
    BY <1>3, OthersLeft DEF InterpreterExpires
  <1> QED BY <1>1, <1>2, <1>3, StepCases

\* The variable is only ever set by a setEnvVars whose handler runs: the copies written back
\* are of the variable as it is.
LEMMA OnlySetEnvSets ==
  ASSUME IInv, Next
  PROVE  \/ env' = env
         \/ env' \in Calls /\ call[env'].stage = "begun" /\ call[env'].request.op = "env"
  <1>1. ASSUME NEW c \in Calls, NEW y, NEW r, Answers(c, y, r)
        PROVE  env' = env \/ (env' = c /\ call[c].stage = "begun" /\ call[c].request.op = "env")
    BY <1>1, HandledFacts DEF Answers, Request
  <1>2. CASE \E c \in Calls : \E x : Proceeds(c, x) \/ Alone(c, x)
    BY <1>2 DEF Proceeds, Alone
  <1>3. CASE Crash \/ InterpreterExpires
    BY <1>3 DEF Crash, InterpreterExpires
  <1> QED BY <1>1, <1>2, <1>3, StepCases

\* A setEnvVars in its handler has not been answered, nor has a call that was not sent.
LEMMA StillPending ==
  ASSUME IInv, NEW c \in Calls,
         call[c].stage = "new" \/ (call[c].stage = "begun" /\ call[c].request.op = "env")
  PROVE  ~Answered(c) /\ ~Applied(c)
  <1>1. Sound(call[c])
    BY HandledFacts
  <1>2. call[c].promise = Pending
    BY <1>1 DEF Sound, Promised, Closed
  <1> QED BY <1>2, PromiseTyped DEF Answered, Applied, At

\* The order of setEnvVars and runs.
LEMMA OrderedKept ==
  ASSUME IInv, Next
  PROVE  Ordered'
  <1>0. \A d \in Calls :
          /\ call[d].after \subseteq Calls
          /\ \A e \in call[d].after : Answered(e)
          /\ Applied(d) => ~Older(env, call[d].after)
          /\ call[d].stage \in Handled \union {"orphan"} =>
               \A e \in call[d].after : Confirmed(e) => ~Older(call[d].meta, call[e].after)
    BY HandledFacts, Fields DEF IInv, Ordered
  <1>1. \A d \in Calls : Left(d)
    BY StepLeaves
  <1>2. ASSUME NEW d \in Calls, NEW e \in call'[d].after
        PROVE  Answered(e) /\ e \in Calls /\ Answered(e)' /\ call'[e].promise = call[e].promise
    <2>1. Answered(e) /\ e \in Calls
      BY <1>0, <1>1, <1>2 DEF Left
    <2>2. call'[e].promise = call[e].promise
      BY <1>1, <2>1 DEF Left
    <2> QED BY <2>1, <2>2 DEF Answered
  <1>3. ASSUME NEW d \in Calls, Applied(d)'
        PROVE  ~Older(env', call'[d].after)
    <2>1. call'[d].after = call[d].after
      <3>1. ASSUME call[d].stage = "new", call'[d].promise = Pending, call'[d].stage # "replied"
            PROVE  FALSE
        BY <1>3, <3>1, PromiseTyped DEF Applied, At
      <3> QED BY <1>1, <3>1 DEF Left
    <2>2. CASE Applied(d)
      <3>1. ~Older(env, call[d].after)
        BY <1>0, <2>2
      <3>2. CASE env' = env
        BY <2>1, <3>1, <3>2 DEF Older
      <3>3. CASE env' \in Calls /\ call[env'].stage = "begun" /\ call[env'].request.op = "env"
        <4>1. ~Answered(env') /\ env' # NoCall
          BY <3>3, StillPending
        <4>2. env' \notin call[d].after
          BY <1>0, <4>1
        <4> QED BY <2>1, <4>1, <4>2 DEF Older
      <3> QED BY <3>2, <3>3, OnlySetEnvSets
    <2>3. CASE env' = d /\ call[d].stage = "begun" /\ call[d].request.op = "env"
      <3>1. ~Answered(d) /\ d # NoCall
        BY <2>3, StillPending
      <3>2. d \notin call[d].after
        BY <1>0, <3>1
      <3> QED BY <2>1, <2>3, <3>1, <3>2 DEF Older
    <2> QED BY <1>1, <1>3, <2>2, <2>3 DEF Left
  <1>4. ASSUME NEW e \in Calls, Answered(e), Confirmed(e)'
        PROVE  Confirmed(e) /\ call'[e].after = call[e].after
    <2>1. call[e].stage # "new"
      BY <1>4, StillPending
    <2>2. call'[e].promise = call[e].promise /\ call'[e].after = call[e].after
          /\ call'[e].request.op = call[e].request.op
      BY <1>1, <1>4, <2>1 DEF Left
    <2> QED BY <1>4, <2>2 DEF Confirmed, Request
  <1>5. ASSUME NEW d \in Calls, call'[d].stage \in Handled \union {"orphan"},
               NEW e \in call'[d].after, Confirmed(e)'
        PROVE  ~Older(call'[d].meta, call'[e].after)
    <2>1. Answered(e) /\ e \in Calls
      BY <1>2
    <2>2. CASE call'[d].stage \in Handled
      <3>1. call'[d].meta = env'
        BY <1>1, <2>2 DEF Left
      <3>2. Applied(e)'
        BY <1>5 DEF Applied, Confirmed
      <3>3. ~Older(env', call'[e].after)
        BY <1>3, <2>1, <3>2
      <3> QED BY <3>1, <3>3 DEF Older
    <2>3. CASE call'[d].stage = "orphan"
      <3>1. call[d].stage \in Handled \union {"orphan"} /\ call'[d].meta = call[d].meta
        BY <1>1, <2>3 DEF Left
      <3>2. call'[d].after = call[d].after
        BY <1>1, <2>3 DEF Left
      <3>3. Confirmed(e) /\ call'[e].after = call[e].after
        BY <1>4, <1>5, <2>1
      <3>4. ~Older(call[d].meta, call[e].after)
        BY <1>0, <1>5, <3>1, <3>2, <3>3
      <3> QED BY <3>1, <3>3, <3>4 DEF Older
    <2> QED BY <1>5, <2>2, <2>3
  <1>6. RunSeesConfirmedEnv'
    <2> SUFFICES ASSUME NEW d \in Calls,
                        call'[d].request.op = "run", call'[d].request.via # "direct", call'[d].ran > 0,
                        call'[d].request.env = "keep",
                        NEW e \in call'[d].after, Confirmed(e)', Older(call'[d].saw, call'[e].after)
                 PROVE  FALSE
      BY DEF RunSeesConfirmedEnv, Overtaken, Request, Confirmed, Older
    <2>1. Answered(e) /\ e \in Calls
      BY <1>2
    <2>2. Confirmed(e) /\ call'[e].after = call[e].after
      BY <1>4, <2>1
    <2>3. /\ call'[d].request = call[d].request
          /\ \/ call'[d].ran = call[d].ran /\ call'[d].saw = call[d].saw
             \/ /\ call[d].stage \in Handled \union {"orphan"}
                /\ call'[d].saw = computeExecutionEnv(call[d].meta, call[d].request.env)
      BY <1>1 DEF Left
    <2>4. call'[d].after = call[d].after
      BY <1>1 DEF Left
    <2>5. Older(call'[d].saw, call[e].after)
      BY <2>2 DEF Older
    <2>6. CASE call'[d].ran = call[d].ran /\ call'[d].saw = call[d].saw
      <3>1. RunSeesConfirmedEnv
        BY DEF IInv, Ordered
      <3> QED BY <2>2, <2>3, <2>4, <2>5, <2>6, <3>1 DEF RunSeesConfirmedEnv, Overtaken, Request, Confirmed, Older
    <2>7. CASE /\ call[d].stage \in Handled \union {"orphan"}
               /\ call'[d].saw = computeExecutionEnv(call[d].meta, call[d].request.env)
      <3>1. call'[d].saw = call[d].meta
        BY <2>3, <2>7 DEF computeExecutionEnv
      <3>2. ~Older(call[d].meta, call[e].after)
        BY <1>0, <2>2, <2>4, <2>7
      <3> QED BY <2>5, <3>1, <3>2
    <2> QED BY <2>3, <2>6, <2>7
  <1>7. \A d \in Calls : call'[d].stage \in Handled => call'[d].meta = env'
    BY <1>1 DEF Left
  <1> QED BY <1>2, <1>3, <1>5, <1>6, <1>7 DEF Ordered

\* Before any call.
LEMMA InitInv ==
  ASSUME Init
  PROVE  IInv
  <1> DEFINE x == [stage |-> "new", request |-> [op |-> "none"], target |-> 0, meta |-> Unset,
                   after |-> {}, ran |-> 0, saw |-> Unset, answer |-> None, thrown |-> None,
                   reply |-> None, promise |-> Pending]
  <1>1. /\ call = [c \in Calls |-> x] /\ queue = <<>> /\ env = NoCall
        /\ contexts = {} /\ rows = {} /\ minted = 0
    BY DEF Init
  <1>2. None \in Responses /\ Pending \in Rejections /\ ~Refusal(Pending.code)
        /\ Pending # Resolved /\ Pending.code # "CONTEXT_NOT_FOUND"
    BY MadeUp, PromiseTyped
  <1>3. x \in CallRecords
    <2>1. "new" \in Stages /\ [op |-> "none"] \in Asked /\ Unset \in Values
      BY DEF Stages, Asked, Values
    <2> QED BY <1>2, <2>1 DEF CallRecords
  <1>4. /\ x.stage = "new" /\ x.request = [op |-> "none"] /\ x.ran = 0 /\ x.promise = Pending
        /\ x.target = 0 /\ x.after = {} /\ [op |-> "none"].op = "none"
    OBVIOUS
  <1> HIDE DEF x
  <1>5. Sound(x)
    BY <1>2, <1>4 DEF Sound, AsksFor, Counted, Replied, Promised, Told, Saw, InRun, Closed
  <1>6. \A c \in Calls : call[c] = x
    BY <1>1
  <1>7. Types /\ EachIsSound
    BY <1>1, <1>3, <1>5, <1>6 DEF Types, EachIsSound
  <1>8. Queued
    BY <1>1, <1>4, <1>6 DEF Queued, ToSet, IsInjective, InSandbox, Handled
  <1>9. Tabled
    BY <1>1, <1>2, <1>4, <1>6 DEF Tabled, At, OneDefaultContext
  <1>10. Ordered
    BY <1>1, <1>2, <1>4, <1>6 DEF Ordered, Applied, At, RunSeesConfirmedEnv, Handled, InSandbox, Request
  <1> QED BY <1>7, <1>8, <1>9, <1>10 DEF IInv

\* Every step keeps it.
LEMMA StepInv ==
  ASSUME IInv, [Next]_vars
  PROVE  IInv'
  <1>1. CASE Next
    BY <1>1, TypesKept, SoundKept, QueuedKept, TabledKept, OrderedKept DEF IInv
  <1>2. CASE UNCHANGED vars
    BY <1>2 DEF vars, IInv, Types, EachIsSound, Queued, IsNext, Tabled, At, Existing, Request, Ids,
                OneDefaultContext, Ordered, Applied, Confirmed, Answered, RunSeesConfirmedEnv, Overtaken
  <1> QED BY <1>1, <1>2

\* The inductive invariant: what each call has had done to it, who is handled, and what the
\* variable and the tables hold.
THEOREM RunCodeInvariant == Spec => []IInv
  BY InitInv, StepInv, PTL DEF Spec

(***************************************************************************)
(* What follows.                                                           *)
(***************************************************************************)
\* The caller is told what happened: to the run, and to the context.
LEMMA ToldFollows ==
  ASSUME IInv
  PROVE  ToldIsTrue
  <1>1. \A c \in Calls : call[c] \in CallRecords /\ Sound(call[c]) /\ call[c].target <= minted
    BY HandledFacts
  <1>2. TypeOK
    <2>1. \A c \in Calls : /\ call[c].stage \in Stages /\ call[c].target \in 0 .. minted
                           /\ call[c].ran \in Nat /\ call[c].after \subseteq Calls
      BY <1>1, Fields, HandledFacts
    <2>2. contexts \subseteq [id : 1 .. MaxContexts, binding : Bindings]
      <3>1. minted \in 0 .. MaxContexts /\ 1 .. minted \subseteq 1 .. MaxContexts
        BY DEF IInv, Types
      <3> QED BY <3>1 DEF IInv, Types
    <2> QED BY <2>1, <2>2 DEF TypeOK, IInv, Types, Queued
  <1>3. RefusedMeansNotRun /\ RunsAtMostOnce
    BY <1>1 DEF RefusedMeansNotRun, RunsAtMostOnce, Sound, Told, Counted, Refusal, Request
  <1>4. NotFoundMeansDropped
    BY DEF IInv, Tabled, NotFoundMeansDropped, Ids
  <1> QED BY <1>2, <1>3, <1>4 DEF ToldIsTrue

\* The types.
THEOREM RunCodeTypes == Spec => []TypeOK
  <1>1. IInv => TypeOK
    BY ToldFollows DEF ToldIsTrue
  <1> QED BY <1>1, RunCodeInvariant, PTL

\* Whatever hops fail, a refused request has not run and never will, no request runs twice, a
\* result is of a run, and a context that does not exist has no row.
THEOREM CallersAreToldTheTruth == Spec => []ToldIsTrue
  <1>1. IInv => ToldIsTrue
    BY ToldFollows
  <1> QED BY <1>1, RunCodeInvariant, PTL

\* The error a caller gets is the one the hop that found it reported.
THEOREM ErrorsArriveAsReported == Spec => []ErrorsKeepTheirIdentity
  <1>1. IInv => ErrorsKeepTheirIdentity
    BY DEF IInv, EachIsSound, Sound, Told, ErrorsKeepTheirIdentity, At
  <1> QED BY <1>1, RunCodeInvariant, PTL

\* Two calls at once do not make two default contexts.
THEOREM DefaultContextIsShared == Spec => []OneDefaultContext
  <1>1. IInv => OneDefaultContext
    BY DEF IInv, Tabled
  <1> QED BY <1>1, RunCodeInvariant, PTL

\* A run sees the variables it was promised.
THEOREM ConfirmedEnvIsSeen == Spec => []EnvIsConfirmed
  <1>1. IInv => EnvIsConfirmed
    <2>1. IInv => CallEnvWins
      BY DEF IInv, EachIsSound, Sound, Saw, CallEnvWins, Request
    <2> QED BY <2>1 DEF IInv, Ordered, EnvIsConfirmed
  <1> QED BY <1>1, RunCodeInvariant, PTL

\* A promise is settled once: no later answer, abort or crash changes what a caller was told.
PromisesAreFinal == \A c \in Calls : Answered(c) => call'[c].promise = call[c].promise

\* No step of the path of a call settles a promise twice.
THEOREM EveryPromiseIsFinal == Spec => [][PromisesAreFinal]_vars
  <1>1. IInv /\ Next => PromisesAreFinal
    BY StepLeaves DEF PromisesAreFinal, Left
  <1>2. IInv /\ [Next]_vars => [PromisesAreFinal]_vars
    BY <1>1
  <1> QED BY <1>2, RunCodeInvariant, PTL DEF Spec

\* The copies handlers write back never change the variable: only a setEnvVars does.
OnlySetEnvWrites ==
  env' # env => \E c \in Calls : env' = c /\ At(c, "begun") /\ Request(c).op = "env"

\* touchAlarm's write of the handler's own copy of the meta row loses no setEnvVars.
THEOREM WritingBackIsHarmless == Spec => [][OnlySetEnvWrites]_vars
  <1>1. IInv /\ Next => OnlySetEnvWrites
    BY OnlySetEnvSets DEF OnlySetEnvWrites, At, Request
  <1>2. IInv /\ [Next]_vars => [OnlySetEnvWrites]_vars
    BY <1>1
  <1> QED BY <1>2, RunCodeInvariant, PTL DEF Spec

(***************************************************************************)
(* Nobody waits for ever. Liveness is out of the prover's reach; what it   *)
(* rests on is not: a call that waits can be gone on with, and going on    *)
(* leads forward, while nothing leads back.                                *)
(***************************************************************************)
\* How far a call is on its way.
Way(stage) ==
  IF stage = "new" THEN 0 ELSE IF stage = "gateway" THEN 1 ELSE IF stage = "sent" THEN 2
  ELSE IF stage = "arrived" THEN 3 ELSE IF stage = "begun" THEN 4 ELSE IF stage = "probing" THEN 5
  ELSE IF stage = "creating" THEN 6 ELSE IF stage \in {"rpc", "stateless", "direct"} THEN 7
  ELSE IF stage = "answered" THEN 8 ELSE IF stage = "replied" THEN 9
  ELSE IF stage = "orphan" THEN 10 ELSE 11

Forth(c) == Way(call[c].stage) < Way(call'[c].stage)
Back(c)  == Way(call'[c].stage) < Way(call[c].stage)

\* No step of a call, its caller or a fault leads a call back, and a step of the call itself leads on.
CallsMoveOn == \A c \in Calls : ~Back(c) /\ (Progress(c) => Forth(c))

\* A call that is given an answer, ...
LEMMA AnswerLeadsOn ==
  ASSUME IInv, NEW c \in Calls, NEW y, NEW r, NEW t,
         call[c].stage \in {"gateway", "direct"} \union Handled,
         Becomes(c, WithReply(y, r, t))
  PROVE  Forth(c)
  <1>1. call'[c].stage = "replied"
    BY DEF Becomes, WithReply, IInv, Types
  <1> QED BY <1>1 DEF Forth, Way, Handled, InSandbox

\* ... or gets to a later stage: every step of its own leads on.
LEMMA ProgressLeadsOn ==
  ASSUME IInv, NEW c \in Calls, Progress(c)
  PROVE  Forth(c)
  <1>0. call \in [Calls -> CallRecords] /\ call[c] \in CallRecords
    BY DEF IInv, Types
  <1>1. CASE \E y, r, t : /\ call[c].stage \in {"gateway", "direct"} \union Handled
                          /\ Becomes(c, WithReply(y, r, t))
    BY <1>1, AnswerLeadsOn
  <1>2. ASSUME \/ At(c, "sent") /\ call'[c].stage = "arrived"
               \/ At(c, "gateway") /\ call'[c].stage = "sent"
               \/ At(c, "arrived") /\ call'[c].stage = "begun"
               \/ At(c, "begun") /\ call'[c].stage \in {"probing", "rpc"}
               \/ At(c, "probing") /\ call'[c].stage \in {"stateless", "creating"}
               \/ At(c, "creating") /\ call'[c].stage = "rpc"
               \/ At(c, "rpc") /\ call'[c].stage = "answered"
               \/ At(c, "direct") /\ call'[c].stage = "settled"
               \/ At(c, "replied") /\ call'[c].stage = "settled"
        PROVE  Forth(c)
    BY <1>2 DEF Forth, Way, At
  <1>3. CASE Refusals(c) \/ SetEnv(c) \/ Files(c) \/ RelayError(c) \/ EndRun(c) \/ ContextIsGone(c)
             \/ StatelessAnswers(c) \/ StatelessFails(c) \/ RegisterFails(c)
    <2>1. call[c].stage \in {"gateway", "direct"} \union Handled
      BY <1>3 DEF Refusals, GatewayRefuses, Refuse, RpcFails, SetEnv, Files, RelayError, EndRun,
         ContextIsGone, StatelessAnswers, StatelessFails, RegisterFails, At, Handled, InSandbox
    <2>2. \E y, r : Reply(c, y, r) \/ Relay(c, y, r)
      BY <1>3 DEF Refusals, GatewayRefuses, Refuse, RpcFails, RpcFailed, SetEnv, Files, RelayError, EndRun,
         ContextIsGone, StatelessAnswers, StatelessFails, RegisterFails
    <2> QED BY <1>1, <2>1, <2>2 DEF Reply, Relay
  <1>4. CASE Arrive(c) \/ GatewayForwards(c) \/ Begin(c)
    <2>1. \/ At(c, "sent") /\ Becomes(c, [call[c] EXCEPT !.stage = "arrived"])
          \/ At(c, "gateway") /\ Becomes(c, [call[c] EXCEPT !.stage = "sent", !.request = Forward(call[c].request)])
          \/ At(c, "arrived") /\ Becomes(c, [call[c] EXCEPT !.stage = "begun", !.meta = env])
      BY <1>4 DEF Arrive, GatewayForwards, Begin, Moves
    <2>2. CASE At(c, "sent") /\ Becomes(c, [call[c] EXCEPT !.stage = "arrived"])
      <3>1. call'[c].stage = "arrived"
        BY <1>0, <2>2 DEF Becomes, CallRecords
      <3> QED BY <1>2, <2>2, <3>1
    <2>3. CASE At(c, "gateway") /\ Becomes(c, [call[c] EXCEPT !.stage = "sent", !.request = Forward(call[c].request)])
      <3>1. call'[c].stage = "sent"
        BY <1>0, <2>3 DEF Becomes, CallRecords
      <3> QED BY <1>2, <2>3, <3>1
    <2>4. CASE At(c, "arrived") /\ Becomes(c, [call[c] EXCEPT !.stage = "begun", !.meta = env])
      <3>1. call'[c].stage = "begun"
        BY <1>0, <2>4 DEF Becomes, CallRecords
      <3> QED BY <1>2, <2>4, <3>1
    <2> QED BY <2>1, <2>2, <2>3, <2>4
  <1>5. CASE FindContext(c)
    <2>1. At(c, "begun") /\ call[c].stage \in Handled
      BY <1>5 DEF FindContext, At, Handled, InSandbox
    <2>2. \/ Reply(c, call[c], NotFound)
          \/ Moves(c, "rpc") \/ Moves(c, "probing")
          \/ Becomes(c, [call[c] EXCEPT !.stage = "rpc", !.target = Oldest(Existing(c))])
      <3>1. CASE Request(c).ref = "context" /\ Named(c) = {}
        BY <1>5, <3>1 DEF FindContext
      <3>2. CASE Request(c).ref = "context" /\ Named(c) # {}
        BY <1>5, <3>2 DEF FindContext
      <3>3. CASE Request(c).ref = "binding" /\ Existing(c) # {}
        BY <1>5, <3>3 DEF FindContext
      <3>4. CASE Request(c).ref # "context" /\ ~(Request(c).ref = "binding" /\ Existing(c) # {})
        BY <1>5, <3>4 DEF FindContext
      <3> QED BY <3>1, <3>2, <3>3, <3>4
    <2>3. CASE Reply(c, call[c], NotFound)
      BY <1>1, <2>1, <2>3 DEF Reply
    <2>4. CASE Moves(c, "rpc") \/ Moves(c, "probing")
      <3>1. PICK s \in {"rpc", "probing"} : Becomes(c, [call[c] EXCEPT !.stage = s])
        BY <2>4 DEF Moves
      <3>2. call'[c].stage = s
        BY <1>0, <3>1 DEF Becomes, CallRecords
      <3> QED BY <1>2, <2>1, <3>1, <3>2
    <2>5. CASE Becomes(c, [call[c] EXCEPT !.stage = "rpc", !.target = Oldest(Existing(c))])
      <3>1. call'[c].stage = "rpc"
        BY <1>0, <2>5 DEF Becomes, CallRecords
      <3> QED BY <1>2, <2>1, <3>1
    <2> QED BY <2>2, <2>3, <2>4, <2>5
  <1>6. CASE Probe(c)
    <2>1. At(c, "probing") /\ call[c].stage \in Handled
      BY <1>6 DEF Probe, At, Handled, InSandbox
    <2>2. Reply(c, call[c], Invalid) \/ \E s \in {"stateless", "creating"} : Moves(c, s)
      BY <1>6 DEF Probe
    <2>3. CASE Reply(c, call[c], Invalid)
      BY <1>1, <2>1, <2>3 DEF Reply
    <2>4. CASE \E s \in {"stateless", "creating"} : Moves(c, s)
      <3>1. PICK s \in {"stateless", "creating"} : Becomes(c, [call[c] EXCEPT !.stage = s])
        BY <2>4 DEF Moves
      <3>2. call'[c].stage = s
        BY <1>0, <3>1 DEF Becomes, CallRecords
      <3> QED BY <1>2, <2>1, <3>1, <3>2
    <2> QED BY <2>2, <2>3, <2>4
  <1>7. CASE Register(c)
    <2>1. At(c, "creating") /\ Becomes(c, [call[c] EXCEPT !.stage = "rpc", !.target = minted'])
      BY <1>7 DEF Register
    <2>2. call'[c].stage = "rpc"
      BY <1>0, <2>1 DEF Becomes, CallRecords
    <2> QED BY <1>2, <2>1, <2>2
  <1>8. CASE HostRuns(c) \/ HostHasNoContext(c)
    <2>1. At(c, "rpc")
      BY <1>8 DEF HostRuns, HostHasNoContext
    <2>2. \/ \E a \in {Ok, OtherError} :
               Becomes(c, [RunWithMeta(c) EXCEPT !.stage = "answered", !.answer = a])
          \/ Becomes(c, [call[c] EXCEPT !.stage = "answered", !.answer = NotFound])
          \/ Becomes(c, [call[c] EXCEPT !.stage = "answered", !.answer = ErrorBody(500, "INTERNAL_ERROR")])
      BY <1>8 DEF HostRuns, HostHasNoContext
    <2>3. call'[c].stage = "answered"
      <3>1. CASE \E a \in {Ok, OtherError} :
                   Becomes(c, [RunWithMeta(c) EXCEPT !.stage = "answered", !.answer = a])
        <4>1. PICK a \in {Ok, OtherError} : Becomes(c, [RunWithMeta(c) EXCEPT !.stage = "answered", !.answer = a])
          BY <3>1
        <4> QED BY <1>0, <4>1 DEF Becomes, CallRecords, RunWithMeta, Run
      <3>2. CASE Becomes(c, [call[c] EXCEPT !.stage = "answered", !.answer = NotFound])
        BY <1>0, <3>2 DEF Becomes, CallRecords
      <3>3. CASE Becomes(c, [call[c] EXCEPT !.stage = "answered", !.answer = ErrorBody(500, "INTERNAL_ERROR")])
        BY <1>0, <3>3 DEF Becomes, CallRecords
      <3> QED BY <2>2, <3>1, <3>2, <3>3
    <2> QED BY <1>2, <2>1, <2>3
  <1>9. CASE DirectAnswers(c)
    <2>1. At(c, "direct") /\ call[c].stage = "direct"
      BY <1>9 DEF DirectAnswers, At
    <2>2. CASE Kind[Request(c).binding] # "missing"
      <3>1. PICK y, r : Answers(c, y, r)
        BY <2>2, <1>9, DirectReplies
      <3> QED BY <1>1, <2>1, <3>1 DEF Answers
    <2>3. CASE Kind[Request(c).binding] = "missing"
      <3> DEFINE p == IF Answered(c) THEN call[c].promise ELSE Rejected
      <3>1. Becomes(c, [call[c] EXCEPT !.stage = "settled", !.promise = p])
        BY <2>3, <1>9 DEF DirectAnswers
      <3> HIDE DEF p
      <3>2. call'[c].stage = "settled"
        BY <1>0, <3>1 DEF Becomes, CallRecords
      <3> QED BY <1>2, <2>1, <3>2
    <2> QED BY <2>2, <2>3
  <1>10. CASE Settle(c)
    <2> DEFINE p == IF Answered(c) THEN call[c].promise ELSE Validated(c)
    <2>1. At(c, "replied") /\ Becomes(c, [call[c] EXCEPT !.stage = "settled", !.promise = p])
      BY <1>10 DEF Settle
    <2> HIDE DEF p
    <2>2. call'[c].stage = "settled"
      BY <1>0, <2>1 DEF Becomes, CallRecords
    <2> QED BY <1>2, <2>1, <2>2
  <1> QED
    BY <1>3, <1>4, <1>5, <1>6, <1>7, <1>8, <1>9, <1>10 DEF Progress, Refusals

\* A step of a call changes that call alone.
LEMMA StepBecomes ==
  ASSUME NEW c \in Calls, Progress(c)
  PROVE  \E x : Becomes(c, x)
  <1>1. CASE Refusals(c) \/ SetEnv(c) \/ Files(c) \/ RelayError(c) \/ EndRun(c) \/ ContextIsGone(c)
             \/ StatelessAnswers(c) \/ StatelessFails(c) \/ RegisterFails(c)
    <2>1. \E y, r : Reply(c, y, r) \/ Relay(c, y, r)
      BY <1>1 DEF Refusals, GatewayRefuses, Refuse, RpcFails, RpcFailed, SetEnv, Files, RelayError, EndRun,
         ContextIsGone, StatelessAnswers, StatelessFails, RegisterFails
    <2> QED BY <2>1 DEF Reply, Relay
  <1>2. CASE FindContext(c) \/ Probe(c) \/ Register(c) \/ DirectAnswers(c)
    <2>1. (\E y, r : Reply(c, y, r)) \/ (\E s : Moves(c, s)) \/ \E x : Becomes(c, x)
      BY <1>2 DEF FindContext, Probe, Register, DirectAnswers
    <2> QED BY <2>1 DEF Reply, Moves
  <1>3. CASE Arrive(c) \/ GatewayForwards(c) \/ Begin(c) \/ HostRuns(c) \/ HostHasNoContext(c) \/ Settle(c)
    BY <1>3 DEF Arrive, GatewayForwards, Begin, HostRuns, HostHasNoContext, Settle, Moves
  <1> QED BY <1>1, <1>2, <1>3 DEF Progress, Refusals

\* What is no step of the call itself does not lead it back either.
LEMMA NothingLeadsBack ==
  ASSUME IInv, Next, NEW d \in Calls
  PROVE  ~Back(d)
  <1>0. call \in [Calls -> CallRecords] /\ \A c \in Calls : call[c] \in CallRecords
    BY DEF IInv, Types
  <1>1. ASSUME NEW c \in Calls, NEW x, Becomes(c, x),
               c = d => Way(call[d].stage) <= Way(call'[d].stage)
        PROVE  ~Back(d)
    <2>1. c # d => call'[d] = call[d]
      BY <1>0, <1>1 DEF Becomes
    <2>2. \A s : Way(s) \in Nat
      BY DEF Way
    <2> QED BY <1>1, <2>1, <2>2 DEF Back
  <1>2. ASSUME NEW c \in Calls, Progress(c)
        PROVE  ~Back(d)
    <2>1. CASE c = d
      <3>1. Forth(d)
        BY <1>2, <2>1, ProgressLeadsOn
      <3>2. \A s : Way(s) \in Nat
        BY DEF Way
      <3> QED BY <3>1, <3>2 DEF Forth, Back
    <2>2. CASE c # d
      <3>1. \E x : Becomes(c, x)
        BY <1>2, StepBecomes
      <3> QED BY <1>1, <2>2, <3>1
    <2> QED BY <2>1, <2>2
  <1>3. ASSUME NEW c \in Calls, NEW r \in Requests, NEW id \in 0 .. MaxContexts, Send(c, r, id)
        PROVE  ~Back(d)
    <2>1. At(c, "new") /\ \E x : Becomes(c, x)
      BY <1>3 DEF Send
    <2>2. Way("new") = 0 /\ \A s : Way(s) \in Nat /\ 0 <= Way(s)
      BY DEF Way
    <2> QED BY <1>1, <2>1, <2>2 DEF At
  <1>4. ASSUME NEW c \in Calls, CallbackThrows(c) \/ Abort(c) \/ OrphanRuns(c)
        PROVE  ~Back(d)
    <2>1. CASE CallbackThrows(c)
      <3>1. At(c, "replied") /\ Becomes(c, [call[c] EXCEPT !.stage = "settled", !.promise = Rejected])
        BY <2>1 DEF CallbackThrows
      <3>2. c = d => call'[d].stage = "settled"
        BY <1>0, <3>1 DEF Becomes, CallRecords, RunWithMeta, Run
      <3>3. Way("replied") <= Way("settled")
        BY DEF Way
      <3> QED BY <1>1, <3>1, <3>2, <3>3 DEF At
    <2>2. CASE Abort(c)
      <3>1. Becomes(c, [call[c] EXCEPT !.promise = Rejected])
        BY <2>2 DEF Abort
      <3>2. c = d => call'[d].stage = call[d].stage
        BY <1>0, <3>1 DEF Becomes, CallRecords
      <3>3. Way(call[d].stage) <= Way(call[d].stage)
        BY DEF Way
      <3> QED BY <1>1, <3>1, <3>2, <3>3
    <2>3. CASE OrphanRuns(c)
      <3>1. At(c, "orphan") /\ Becomes(c, [RunWithMeta(c) EXCEPT !.stage = "gone"])
        BY <2>3 DEF OrphanRuns
      <3>2. c = d => call'[d].stage = "gone"
        BY <1>0, <3>1 DEF Becomes, CallRecords, RunWithMeta, Run
      <3>3. Way("orphan") <= Way("gone")
        BY DEF Way
      <3> QED BY <1>1, <3>1, <3>2, <3>3 DEF At
    <2> QED BY <1>4, <2>1, <2>2, <2>3
  <1>5. CASE Crash
    <2>1. call'[d].stage = call[d].stage
          \/ (call[d].stage \in InSandbox /\ call'[d].stage \in {"orphan", "gone"})
      <3>1. call'[d] = Crashed(d) /\ Crashed(d).stage \notin InSandbox
            /\ (Crashed(d).stage = call[d].stage \/ Crashed(d).stage \in {"orphan", "gone"})
        BY <1>5, CrashTyped
      <3>2. call[d].stage \notin InSandbox => Crashed(d) = call[d]
        BY DEF Crashed
      <3> QED BY <3>1, <3>2
    <2> QED BY <2>1 DEF Back, Way, InSandbox
  <1>6. CASE InterpreterExpires
    BY <1>6 DEF InterpreterExpires, Back, Way
  <1> QED BY <1>2, <1>3, <1>4, <1>5, <1>6 DEF Next

\* handle, the Gateway and the SDK: every step made for a call brings it nearer to its answer, and
\* no fault, abort or other call takes it back, so only so many are made for each.
THEOREM NoCallIsLedBack == Spec => [][CallsMoveOn]_vars
  <1>1. IInv /\ Next => CallsMoveOn
    BY ProgressLeadsOn, NothingLeadsBack DEF CallsMoveOn
  <1>2. IInv /\ [Next]_vars => [CallsMoveOn]_vars
    BY <1>1
  <1> QED BY <1>2, RunCodeInvariant, PTL DEF Spec

(***************************************************************************)
(* For each call that can be gone on with, one step that goes on with it.  *)
(***************************************************************************)
\* The answer it can be given: a request that is refused is; a hop that may fail does.
DirectAnswer(r) ==
  IF Kind[r.binding] = "foreign" THEN Response(404, "text") ELSE readExecution(r)
RunAnswer(c) == IF Faulty(Request(c)) THEN FaultError(Request(c)) ELSE NotFound
FilesAnswer(r) == IF r.errno = "none" THEN Ok ELSE errnoErrorBody(r.op, r.errno)
BegunAnswer(c) ==
  IF Request(c).op = "env" THEN Ok
  ELSE IF Request(c).op = "run" THEN RunAnswer(c)
  ELSE FilesAnswer(Request(c))
GatewayAnswer(r) == IF r.fault = "size" THEN TooLarge ELSE Invalid

AnswerTo(c) ==
  IF At(c, "gateway") THEN GatewayAnswer(Request(c))
  ELSE IF At(c, "direct") THEN DirectAnswer(Request(c))
  ELSE IF At(c, "begun") THEN BegunAnswer(c)
  ELSE IF At(c, "probing") THEN Invalid
  ELSE IF At(c, "creating") \/ At(c, "stateless") THEN OtherError
  ELSE RpcError

\* A request that is neither refused nor answered on the spot.
RunsOn(c) ==
  \/ At(c, "gateway") /\ Request(c).fault \notin {"json", "size"}
  \/ /\ At(c, "begun") /\ Request(c).op = "run" /\ ~Faulty(Request(c))
     /\ ~(Request(c).ref = "context" /\ Named(c) = {})
  \/ At(c, "direct") /\ Kind[Request(c).binding] = "missing"
  \/ call[c].stage \in {"sent", "arrived", "replied"}

\* The call, the queue and the variable after a step that goes on with it.
Answering(c) ==
  IF At(c, "direct") /\ Kind[Request(c).binding] # "foreign" /\ IsOk(AnswerTo(c))
  THEN Run(c, Unset) ELSE call[c]

CallAfter(c) ==
  IF ~RunsOn(c) THEN WithReply(Answering(c), AnswerTo(c), AnswerTo(c))
  ELSE IF At(c, "sent") THEN [call[c] EXCEPT !.stage = "arrived"]
  ELSE IF At(c, "gateway") THEN [call[c] EXCEPT !.stage = "sent", !.request = Forward(@)]
  ELSE IF At(c, "arrived") THEN [call[c] EXCEPT !.stage = "begun", !.meta = env]
  ELSE IF At(c, "begun")
  THEN IF Request(c).ref = "context" THEN [call[c] EXCEPT !.stage = "rpc"]
       ELSE IF Request(c).ref = "binding" /\ Existing(c) # {}
       THEN [call[c] EXCEPT !.stage = "rpc", !.target = Oldest(Existing(c))]
       ELSE [call[c] EXCEPT !.stage = "probing"]
  ELSE IF At(c, "direct")
  THEN [call[c] EXCEPT !.stage = "settled", !.promise = IF Answered(c) THEN @ ELSE Rejected]
  ELSE [call[c] EXCEPT !.stage = "settled", !.promise = IF Answered(c) THEN @ ELSE Validated(c)]

QueueAfter(c) ==
  IF At(c, "sent") THEN Append(queue, c)
  ELSE IF RunsOn(c) THEN queue ELSE TakenOff(c, AnswerTo(c))
EnvAfter(c) == IF At(c, "begun") /\ Request(c).op = "env" THEN c ELSE env

\* The step: it says of every variable what it becomes, so from every state there is one.
GoesOn(c) ==
  /\ call' = [call EXCEPT ![c] = CallAfter(c)]
  /\ queue' = QueueAfter(c)
  /\ env' = EnvAfter(c)
  /\ UNCHANGED <<contexts, rows, minted>>

\* A call at rest is answered, has not been sent, or is in the queue; of those in the queue it is
\* the turn of the head.
LEMMA ServedFollows ==
  ASSUME IInv
  PROVE  NobodyIsLeftBehind
  <1>1. queue # <<>> => CanGoOn(Head(queue))
    <2> SUFFICES ASSUME queue # <<>> PROVE CanGoOn(Head(queue))
      OBVIOUS
    <2>1. queue \in Seq(Calls) /\ ToSet(queue) = {c \in Calls : call[c].stage \in InSandbox}
      BY DEF IInv, Types, Queued
    <2>2. Head(queue) = queue[1] /\ 1 \in DOMAIN queue
      BY <2>1
    <2>3. Head(queue) \in ToSet(queue)
      BY <2>2 DEF ToSet
    <2> QED BY <2>1, <2>3 DEF CanGoOn, IsNext
  <1>2. ASSUME NEW c \in Calls, ~Answered(c), ~At(c, "new"), c \notin ToSet(queue)
        PROVE  CanGoOn(c)
    <2>1. call[c].stage \notin InSandbox
      BY <1>2 DEF IInv, Queued
    <2>2. call[c].stage \in Stages /\ Promised(call[c])
      BY HandledFacts, Fields DEF Sound
    <2>3. call[c].stage \notin {"settled", "orphan", "gone"}
      BY <1>2, <2>2, PromiseTyped DEF Promised, Answered
    <2> QED BY <1>2, <2>1, <2>2, <2>3 DEF CanGoOn, Stages, At
  <1> QED BY <1>1, <1>2 DEF NobodyIsLeftBehind

\* Sandbox.queue, the Gateway and the SDK: whatever hop failed, crashed or answered, there is a
\* next step for the head of the queue and for every call outside it that waits for its answer.
THEOREM NobodyIsForgotten == Spec => []NobodyIsLeftBehind
  <1>1. IInv => NobodyIsLeftBehind
    BY ServedFollows
  <1> QED BY <1>1, RunCodeInvariant, PTL

\* ... and the next step can be made: GoesOn says of every variable what it becomes, so there is
\* such a step from every state, and where the call can be gone on with it is a step of the call.
THEOREM WhoWaitsCanGoOn ==
  ASSUME IInv, NEW c \in Calls, CanGoOn(c), GoesOn(c)
  PROVE  Progress(c)
  <1>0. Becomes(c, CallAfter(c)) /\ UNCHANGED <<contexts, rows, minted>>
    BY DEF GoesOn, Becomes
  <1>1. /\ call[c] \in CallRecords /\ Sound(call[c])
        /\ call[c].stage \in {"rpc", "answered", "stateless", "creating", "probing"} => env' = env
        /\ call[c].stage \in {"gateway", "sent", "arrived", "direct", "replied"} => env' = env
    BY HandledFacts DEF GoesOn, EnvAfter, At
  <1>2. ~RunsOn(c) =>
          /\ Reply(c, Answering(c), AnswerTo(c)) /\ Relay(c, Answering(c), AnswerTo(c))
    <2>1. ~RunsOn(c) => CallAfter(c) = WithReply(Answering(c), AnswerTo(c), AnswerTo(c))
      BY DEF CallAfter
    <2>2. ~RunsOn(c) => queue' = TakenOff(c, AnswerTo(c))
      BY DEF GoesOn, QueueAfter, RunsOn, At
    <2> QED BY <1>0, <2>1, <2>2 DEF Reply, Relay, RelayedResponse
  <1>3. RunsOn(c) => queue' = IF At(c, "sent") THEN Append(queue, c) ELSE queue
    BY DEF GoesOn, QueueAfter, RunsOn
  <1>4. CASE At(c, "gateway")
    <2>1. CASE Request(c).fault \in {"json", "size"}
      <3>1. ~RunsOn(c) /\ Answering(c) = call[c] /\ AnswerTo(c) = GatewayAnswer(Request(c))
        BY <1>4, <2>1 DEF RunsOn, Answering, AnswerTo, At
      <3>2. Reply(c, call[c], IF Request(c).fault = "size" THEN TooLarge ELSE Invalid)
        BY <1>2, <3>1 DEF GatewayAnswer
      <3> QED BY <1>0, <1>1, <1>4, <2>1, <3>2 DEF Progress, GatewayRefuses, At
    <2>2. CASE Request(c).fault \notin {"json", "size"}
      <3>1. RunsOn(c) /\ ~At(c, "sent")
        BY <1>4, <2>2 DEF RunsOn, At
      <3>2. CallAfter(c) = [call[c] EXCEPT !.stage = "sent", !.request = Forward(@)]
        BY <1>4, <3>1 DEF CallAfter
      <3>3. Becomes(c, [call[c] EXCEPT !.stage = "sent", !.request = Forward(@)])
        BY <1>0, <3>2
      <3>4. queue' = queue /\ env' = env
        BY <1>1, <1>3, <1>4, <3>1 DEF At
      <3>5. GatewayForwards(c)
        BY <1>0, <1>4, <2>2, <3>3, <3>4 DEF GatewayForwards
      <3> QED BY <3>5 DEF Progress
    <2> QED BY <2>1, <2>2
  <1>5. CASE At(c, "sent")
    <2>1. CallAfter(c) = [call[c] EXCEPT !.stage = "arrived"] /\ RunsOn(c)
      BY <1>5 DEF CallAfter, RunsOn, At
    <2>2. Arrive(c)
      BY <1>0, <1>1, <1>3, <1>5, <2>1 DEF Arrive, Moves, At
    <2> QED BY <2>2 DEF Progress
  <1>6. CASE At(c, "arrived")
    <2>1. CallAfter(c) = [call[c] EXCEPT !.stage = "begun", !.meta = env] /\ RunsOn(c) /\ ~At(c, "sent")
      BY <1>6 DEF CallAfter, RunsOn, At
    <2>2. Begin(c)
      BY <1>0, <1>1, <1>3, <1>6, <2>1 DEF Begin, CanGoOn, At
    <2> QED BY <2>2 DEF Progress
  <1>7. CASE At(c, "begun")
    <2>0. ~At(c, "direct") /\ ~At(c, "gateway") /\ ~At(c, "sent") /\ ~At(c, "arrived")
          /\ call[c].stage \notin {"sent", "arrived", "replied"}
      BY <1>7 DEF At
    <2>1. Answering(c) = call[c] /\ AnswerTo(c) = BegunAnswer(c)
      BY <1>7, <2>0 DEF Answering, AnswerTo
    <2>2. CASE Request(c).op = "env"
      <3>1. Reply(c, call[c], Ok)
        BY <1>2, <2>0, <2>1, <2>2 DEF RunsOn, BegunAnswer
      <3>2. env' = c
        BY <1>7, <2>2 DEF GoesOn, EnvAfter
      <3>3. SetEnv(c)
        BY <1>0, <1>7, <2>2, <3>1, <3>2 DEF SetEnv
      <3> QED BY <3>3 DEF Progress
    <2>3. CASE Request(c).op \notin {"run", "env"}
      <3>1. Reply(c, call[c], FilesAnswer(Request(c)))
        BY <1>2, <2>0, <2>1, <2>3 DEF RunsOn, BegunAnswer
      <3>2. env' = env
        BY <2>3 DEF GoesOn, EnvAfter
      <3>3. Files(c)
        BY <1>0, <1>7, <2>3, <3>1, <3>2 DEF Files, FilesAnswer, TouchAlarm
      <3> QED BY <3>3 DEF Progress
    <2>4. CASE Request(c).op = "run"
      <3>0. env' = env
        BY <2>4 DEF GoesOn, EnvAfter
      <3>1. CASE Faulty(Request(c))
        <4>1. Reply(c, call[c], FaultError(Request(c)))
          BY <1>2, <2>0, <2>1, <2>4, <3>1 DEF RunsOn, BegunAnswer, RunAnswer
        <4>2. Refuse(c)
          BY <1>0, <1>7, <2>4, <3>0, <3>1, <4>1 DEF Refuse
        <4> QED BY <4>2 DEF Progress
      <3>2. CASE ~Faulty(Request(c))
        <4>1. CASE Request(c).ref = "context" /\ Named(c) = {}
          <5>1. Reply(c, call[c], NotFound)
            BY <1>2, <2>0, <2>1, <2>4, <3>2, <4>1 DEF RunsOn, BegunAnswer, RunAnswer
          <5>2. FindContext(c)
            BY <1>0, <1>7, <2>4, <3>0, <3>2, <4>1, <5>1 DEF FindContext
          <5> QED BY <5>2 DEF Progress
        <4>2. CASE ~(Request(c).ref = "context" /\ Named(c) = {})
          <5>1. RunsOn(c) /\ queue' = queue
            BY <1>3, <1>7, <2>0, <2>4, <3>2, <4>2 DEF RunsOn
          <5>2. CASE Request(c).ref = "context"
            <6>1. Moves(c, "rpc")
              BY <1>0, <1>7, <2>0, <5>1, <5>2 DEF CallAfter, Moves
            <6>2. FindContext(c)
              BY <1>0, <1>7, <2>4, <3>0, <3>2, <4>2, <5>1, <5>2, <6>1 DEF FindContext
            <6> QED BY <6>2 DEF Progress
          <5>3. CASE Request(c).ref = "binding" /\ Existing(c) # {}
            <6>1. Becomes(c, [call[c] EXCEPT !.stage = "rpc", !.target = Oldest(Existing(c))])
              BY <1>0, <1>7, <2>0, <5>1, <5>3 DEF CallAfter
            <6>2. FindContext(c)
              BY <1>0, <1>7, <2>4, <3>0, <3>2, <4>2, <5>1, <5>3, <6>1 DEF FindContext
            <6> QED BY <6>2 DEF Progress
          <5>4. CASE Request(c).ref # "context" /\ ~(Request(c).ref = "binding" /\ Existing(c) # {})
            <6>1. Moves(c, "probing")
              BY <1>0, <1>7, <2>0, <5>1, <5>4 DEF CallAfter, Moves
            <6>2. FindContext(c)
              BY <1>0, <1>7, <2>4, <3>0, <3>2, <4>2, <5>1, <5>4, <6>1 DEF FindContext
            <6> QED BY <6>2 DEF Progress
          <5> QED BY <5>2, <5>3, <5>4
        <4> QED BY <4>1, <4>2
      <3> QED BY <3>1, <3>2
    <2> QED BY <2>2, <2>3, <2>4
  <1>8. CASE call[c].stage \in {"probing", "creating", "stateless", "rpc", "answered"}
    <2>1. /\ ~At(c, "direct") /\ ~At(c, "gateway") /\ ~At(c, "begun")
          /\ call[c].stage \notin {"sent", "arrived", "replied"}
      BY <1>8 DEF At
    <2>2. /\ Reply(c, call[c], AnswerTo(c)) /\ Relay(c, call[c], AnswerTo(c)) /\ env' = env
      BY <1>1, <1>2, <1>8, <2>1 DEF RunsOn, Answering
    <2>3. CASE At(c, "probing")
      <3>1. AnswerTo(c) = Invalid
        BY <2>1, <2>3 DEF AnswerTo
      <3>2. Probe(c)
        BY <1>0, <2>2, <2>3, <3>1 DEF Probe
      <3> QED BY <3>2 DEF Progress
    <2>4. CASE At(c, "creating")
      <3>1. AnswerTo(c) = OtherError
        BY <2>1, <2>4 DEF AnswerTo, At
      <3>2. RegisterFails(c)
        BY <1>0, <2>2, <2>4, <3>1 DEF RegisterFails
      <3> QED BY <3>2 DEF Progress
    <2>5. CASE At(c, "stateless")
      <3>1. AnswerTo(c) = OtherError
        BY <2>1, <2>5 DEF AnswerTo, At
      <3>2. StatelessFails(c)
        BY <1>0, <2>2, <2>5, <3>1 DEF StatelessFails
      <3> QED BY <3>2 DEF Progress
    <2>6. CASE At(c, "rpc") \/ At(c, "answered")
      <3>1. AnswerTo(c) = RpcError
        BY <2>1, <2>6 DEF AnswerTo, At
      <3>2. RpcFails(c)
        BY <1>0, <2>2, <2>6, <3>1 DEF RpcFails, RpcFailed
      <3> QED BY <3>2 DEF Progress
    <2> QED BY <1>8, <2>3, <2>4, <2>5, <2>6 DEF At
  <1>9. CASE At(c, "direct")
    <2>0. /\ ~At(c, "gateway") /\ ~At(c, "begun") /\ ~At(c, "sent") /\ ~At(c, "arrived") /\ env' = env
          /\ call[c].stage \notin {"sent", "arrived", "replied"}
      BY <1>1, <1>9 DEF At
    <2>1. CASE Kind[Request(c).binding] = "missing"
      <3>1. RunsOn(c) /\ queue' = queue
        BY <1>3, <1>9, <2>0, <2>1 DEF RunsOn
      <3>2. Becomes(c, [call[c] EXCEPT !.stage = "settled", !.promise = IF Answered(c) THEN @ ELSE Rejected])
        BY <1>0, <1>9, <2>0, <3>1 DEF CallAfter
      <3>3. DirectAnswers(c)
        BY <1>0, <1>9, <2>0, <2>1, <3>1, <3>2 DEF DirectAnswers
      <3> QED BY <3>3 DEF Progress
    <2>2. CASE Kind[Request(c).binding] = "foreign"
      <3>1. AnswerTo(c) = Response(404, "text") /\ Answering(c) = call[c] /\ ~RunsOn(c)
        BY <1>9, <2>0, <2>2 DEF AnswerTo, DirectAnswer, Answering, RunsOn
      <3>2. Response(404, "text") \in ForeignAnswers
        BY DEF ForeignAnswers
      <3>3. \E a \in ForeignAnswers : Reply(c, call[c], a)
        BY <1>2, <3>1, <3>2
      <3>4. DirectAnswers(c)
        BY <1>0, <1>9, <2>0, <2>2, <3>3 DEF DirectAnswers
      <3> QED BY <3>4 DEF Progress
    <2>3. CASE Kind[Request(c).binding] \notin {"missing", "foreign"}
      <3> DEFINE r == Request(c)
      <3>1. AnswerTo(c) = readExecution(r) /\ ~RunsOn(c)
        BY <1>9, <2>0, <2>3 DEF AnswerTo, DirectAnswer, RunsOn
      <3>2. Answering(c) = IF IsOk(readExecution(r)) THEN Run(c, Unset) ELSE call[c]
        BY <1>9, <2>3, <3>1 DEF Answering
      <3>3. Reply(c, IF IsOk(readExecution(r)) THEN Run(c, Unset) ELSE call[c], readExecution(r))
        BY <1>2, <3>1, <3>2
      <3>4. DirectAnswers(c)
        BY <1>0, <1>9, <2>0, <2>3, <3>3 DEF DirectAnswers
      <3> QED BY <3>4 DEF Progress
    <2> QED BY <2>1, <2>2, <2>3
  <1>10. CASE At(c, "replied")
    <2>0. /\ ~At(c, "gateway") /\ ~At(c, "begun") /\ ~At(c, "sent") /\ ~At(c, "arrived") /\ ~At(c, "direct")
          /\ env' = env
      BY <1>1, <1>10 DEF At
    <2>1. RunsOn(c) /\ queue' = queue
      BY <1>3, <1>10, <2>0 DEF RunsOn, At
    <2>2. Becomes(c, [call[c] EXCEPT !.stage = "settled", !.promise = IF Answered(c) THEN @ ELSE Validated(c)])
      BY <1>0, <1>10, <2>0, <2>1 DEF CallAfter
    <2>3. Settle(c)
      BY <1>0, <1>10, <2>0, <2>1, <2>2 DEF Settle
    <2> QED BY <2>3 DEF Progress
  <1> QED BY <1>4, <1>5, <1>6, <1>7, <1>8, <1>9, <1>10 DEF CanGoOn, InSandbox, At
=====
