------------------------------- MODULE MCRunCode -------------------------------
(* Instances of RunCode for TLC. *)
EXTENDS RunCode, TLC

CONSTANTS c1, c2, c3

Names == {"PYTHON", "RUBY", "OTHER", "NONE"}
Bound == "PYTHON" :> "runtime" @@ "RUBY" :> "stateless" @@ "OTHER" :> "foreign" @@ "NONE" :> "missing"

Code(via, ref, binding, fault, callEnv) ==
  [op |-> "run", via |-> via, ref |-> ref, binding |-> binding, fault |-> fault, env |-> callEnv]
SetEnvVars == [op |-> "env", via |-> "sdk"]
File(op, errno) == [op |-> op, via |-> "sdk", errno |-> errno]

\* One of each kind of request, and each kind of fault.
OfEachKind ==
  {Code("sdk", "binding", b, "none", "keep") : b \in {"PYTHON", "RUBY", "NONE"}}
  \union {Code("sdk", "context", "PYTHON", "none", "unset"), Code("sdk", "none", "PYTHON", "none", "keep"),
          Code("sdk", "binding", "PYTHON", "code too long", "keep")}
  \union {Code("gateway", "none", "PYTHON", f, "own") : f \in {"none", "json", "size", "env"}}
  \union {Code("direct", "none", b, "none", "own") : b \in {"PYTHON", "OTHER", "NONE"}}
  \union {Code("direct", "none", "RUBY", "env", "keep")}
  \union {SetEnvVars, File("write", "none"), File("mkdir", "EEXIST"), File("read", "EISDIR"),
          File("write", "EFBIG")}

\* The requests that share the sandbox's variables.
Sharing == {Code("sdk", "binding", "PYTHON", "none", "keep"), SetEnvVars}

\* The calls that have been sent: every pair of requests, or three that set and use the variables.
Sent == {c \in Calls : ~At(c, "new")}
Share == /\ \A c \in Sent : Request(c) \in Sharing /\ call[c].target <= 1
         /\ SetEnvVars \in {Request(c) : c \in Sent}
Bounded == Cardinality(Sent) <= 2 \/ Share

MCSpec == Init /\ [][Next /\ Bounded']_vars

Symmetry == Permutations(Calls)
================================================================================
