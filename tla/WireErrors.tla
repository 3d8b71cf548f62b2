------------------------------- MODULE WireErrors -------------------------------
(***************************************************************************)
(* How an error travels from the hop that throws it to the caller of the   *)
(* SDK: ErrorCode, its HTTP statuses and the errno table                   *)
(* (packages/core/src/errors.ts), errorBody and errnoErrorBody on the      *)
(* server side (protocol.ts), parseJsonResponse and                        *)
(* createErrorFromResponse on the client side (client.ts, errors.ts).      *)
(* Messages, timestamps and operations are left out.                       *)
(***************************************************************************)
EXTENDS Naturals

ErrorCode ==
  {"FILE_NOT_FOUND", "FILE_EXISTS", "PERMISSION_DENIED", "IS_DIRECTORY",
   "NOT_DIRECTORY", "FILE_TOO_LARGE", "NO_SPACE", "FILESYSTEM_ERROR",
   "CONTEXT_NOT_FOUND", "VALIDATION_FAILED", "CODE_EXECUTION_ERROR",
   "INTERNAL_ERROR", "NOT_SUPPORTED"}

\* HTTP_STATUS_FOR_CODE.
httpStatusForCode(code) ==
  CASE code \in {"FILE_NOT_FOUND", "CONTEXT_NOT_FOUND"}                -> 404
    [] code = "FILE_EXISTS"                                            -> 409
    [] code \in {"PERMISSION_DENIED", "NOT_SUPPORTED"}                 -> 403
    [] code \in {"IS_DIRECTORY", "NOT_DIRECTORY", "VALIDATION_FAILED"} -> 400
    [] code = "FILE_TOO_LARGE"                                         -> 413
    [] OTHER                                                           -> 500

\* The errnos a workspace operation throws.
Errnos == {"ENOENT", "EEXIST", "EACCES", "EISDIR", "ENOTDIR", "EFBIG", "ENOSPC", "ENOTEMPTY"}

errorCodeForErrno(errno) ==
  CASE errno = "ENOENT"  -> "FILE_NOT_FOUND"
    [] errno = "EEXIST"  -> "FILE_EXISTS"
    [] errno = "EACCES"  -> "PERMISSION_DENIED"
    [] errno = "EISDIR"  -> "IS_DIRECTORY"
    [] errno = "ENOTDIR" -> "NOT_DIRECTORY"
    [] errno = "EFBIG"   -> "FILE_TOO_LARGE"
    [] errno = "ENOSPC"  -> "NO_SPACE"
    [] OTHER             -> "FILESYSTEM_ERROR"

\* A response: its status and what its body is; an ErrorResponse also has these two fields.
Response(status, body) == [status |-> status, body |-> body, code |-> "none", httpStatus |-> 0]
ErrorBody(status, code) ==
  [status |-> status, body |-> "error", code |-> code, httpStatus |-> status]

(***************************************************************************)
(* The server side.                                                        *)
(***************************************************************************)
\* errorBody of an ApiError, ...
ApiError(status, code) == ErrorBody(status, code)
Invalid   == ApiError(400, "VALIDATION_FAILED")
TooLarge  == ApiError(413, "VALIDATION_FAILED")
NotFound  == ApiError(404, "CONTEXT_NOT_FOUND")

\* ... and of anything else.
OtherError == ErrorBody(502, "INTERNAL_ERROR")

\* mkdir reports FILESYSTEM_ERROR, but for two errnos.
codeOverride(op, errno) ==
  IF op = "mkdir" /\ errno \notin {"EACCES", "ENOSPC"}
  THEN "FILESYSTEM_ERROR"
  ELSE errorCodeForErrno(errno)

errnoErrorBody(op, errno) ==
  LET code == codeOverride(op, errno) IN ErrorBody(httpStatusForCode(code), code)

(***************************************************************************)
(* The client side: the class of the error thrown, its code and status.    *)
(***************************************************************************)
ClassOf(code) ==
  CASE code = "FILE_NOT_FOUND"       -> "FileNotFoundError"
    [] code = "FILE_EXISTS"          -> "FileExistsError"
    [] code = "FILE_TOO_LARGE"       -> "FileTooLargeError"
    [] code = "PERMISSION_DENIED"    -> "PermissionDeniedError"
    [] code \in {"NO_SPACE", "IS_DIRECTORY", "NOT_DIRECTORY", "FILESYSTEM_ERROR"}
                                     -> "FileSystemError"
    [] code = "CONTEXT_NOT_FOUND"    -> "ContextNotFoundError"
    [] code = "VALIDATION_FAILED"    -> "ValidationFailedError"
    [] code = "CODE_EXECUTION_ERROR" -> "CodeExecutionError"
    [] code = "NOT_SUPPORTED"        -> "NotSupportedError"
    [] OTHER                         -> "SandboxError"

Rejection(class, code, httpStatus) == [class |-> class, code |-> code, httpStatus |-> httpStatus]

createErrorFromResponse(response, status) ==
  IF response.body = "error"
  THEN Rejection(ClassOf(response.code), response.code, response.httpStatus)
  ELSE Rejection("SandboxError", "INTERNAL_ERROR", status)

\* Only a body that is not JSON is given the response's status; the default is 500.
StatusGiven(response) == IF response.body = "text" THEN response.status ELSE 500

\* parseJsonResponse, when it throws.
parseError(response) == createErrorFromResponse(response, StatusGiven(response))

IsOk(response) == response.status \in 200 .. 299
================================================================================
