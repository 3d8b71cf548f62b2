---------------------------- MODULE ScriptTransform ----------------------------
(***************************************************************************)
(* The rewriting of JavaScript before it is evaluated                      *)
(* (packages/javascript/src/transform.mjs): which script is wrapped in an  *)
(* async function, which declarations persist in a session, and which      *)
(* return is illegal. JavaScriptSession has what the evaluation then does. *)
(*                                                                         *)
(* A script is a sequence of statements, a statement a kind and the        *)
(* statements inside it. "block" is any statement that holds others except *)
(* "with" (if, loops, try, switch, labels), "arrow" an expression with a   *)
(* function in it, "function" a declaration. `var` declares "v", `let`     *)
(* "l" and a function "f".                                                 *)
(***************************************************************************)
EXTENDS Naturals, Sequences

CONSTANTS
  Nodes,   \* the statements there are, with those inside them
  Height,  \* of each, how many others lie inside one another in it
  Scripts  \* the scripts to transform

\* A syntax tree is finite: what is inside a statement is lower than it.
NodesAreTrees ==
  /\ Height \in [Nodes -> Nat]
  /\ \A node \in Nodes :
       /\ node.body \in Seq(Nodes)
       /\ \A i \in DOMAIN node.body : Height[node.body[i]] < Height[node]

ScriptsAreOfNodes == \A s \in Scripts : s.body \in Seq(Nodes)

VARIABLES
  script,    \* what was sent: its statements, and how it parses
  stateless, \* what transformForAsyncExecution makes of it
  repl       \* what transformForRepl makes of it

vars == <<script, stateless, repl>>

Pending == [mode |-> "pending", hoisted |-> {}]

Init ==
  /\ script \in Scripts
  /\ stateless = "pending"
  /\ repl = Pending

(***************************************************************************)
(* What the code is compared with: the kinds on the way to a statement.    *)
(***************************************************************************)
PathsOf[node \in Nodes] ==
  {<<node.kind>>} \union
    UNION {{<<node.kind>> \o path : path \in PathsOf[node.body[i]]} : i \in DOMAIN node.body}

Paths == UNION {PathsOf[script.body[i]] : i \in DOMAIN script.body}

Functions == {"arrow", "function"}

\* A statement of that kind the script itself reaches, outside any function of its own.
Reaches(kind) ==
  \E path \in Paths :
    /\ path[Len(path)] = kind
    /\ \A i \in DOMAIN path : path[i] \notin Functions

\* acorn.parse as a script: a return outside a function is a syntax error.
tryParseJavaScript == ~Reaches("return")

(***************************************************************************)
(* The walks of transform.mjs.                                             *)
(***************************************************************************)
\* The statements the search for a return enters.
Holds == {"block"}

statementHasReturn[node \in Nodes] ==
  \/ node.kind = "return"
  \/ node.kind \in Holds /\ \E i \in DOMAIN node.body : statementHasReturn[node.body[i]]

hasTopLevelReturn == \E i \in DOMAIN script.body : statementHasReturn[script.body[i]]

\* Mutant: `for await` is no await.
ExpressionAwaits == {"await"}

Awaits == {"await", "forAwait"}

Walk[node \in Nodes] ==
  [insideFunction \in BOOLEAN |->
    \/ ~insideFunction /\ node.kind \in Awaits
    \/ \E i \in DOMAIN node.body :
         Walk[node.body[i]][insideFunction \/ node.kind \in Functions]]

hasTopLevelAwait == \E i \in DOMAIN script.body : Walk[script.body[i]][FALSE]

(***************************************************************************)
(* The two transformations. "js" is JavaScript, "ts" becomes JavaScript    *)
(* when its types are stripped, "broken" is neither.                       *)
(***************************************************************************)
transformForAsyncExecution ==
  CASE script.syntax = "broken" -> "wrapped"
    [] script.syntax # "broken" /\ tryParseJavaScript -> "script"
    [] OTHER -> IF hasTopLevelReturn THEN "illegal" ELSE "wrapped"

Declared == [k \in {"var", "let", "function"} |->
               CASE k = "var" -> "v" [] k = "let" -> "l" [] k = "function" -> "f"]

\* Mutant: only variables are hoisted.
HoistVariables == {"var", "let"}

HoistedKinds == DOMAIN Declared

\* collectNames over the statements of the script itself.
Hoisted ==
  {Declared[script.body[i].kind] : i \in {j \in DOMAIN script.body : script.body[j].kind \in HoistedKinds}}

Last == script.body[Len(script.body)].kind

transformForRepl ==
  CASE script.syntax = "broken" \/ ~tryParseJavaScript -> [mode |-> "raw", hoisted |-> {}]
    [] OTHER ->
         IF hasTopLevelAwait THEN [mode |-> "hoist", hoisted |-> Hoisted]
         ELSE IF Last \in {"expr", "arrow"} THEN [mode |-> "capture", hoisted |-> {}]
         ELSE [mode |-> "raw", hoisted |-> {}]

Transform ==
  /\ stateless = "pending"
  /\ stateless' = transformForAsyncExecution
  /\ repl' = transformForRepl
  /\ UNCHANGED script

Next == Transform

Spec == Init /\ [][Next]_vars

(***************************************************************************)
(* Properties.                                                             *)
(***************************************************************************)
\* The names a browser console would keep: those of the script's own statements, and those of
\* a `var` in any of its blocks.
OwnNames == {Declared[script.body[i].kind] : i \in {j \in DOMAIN script.body : script.body[j].kind \in DOMAIN Declared}}
ConsoleNames == OwnNames \union IF Reaches("var") THEN {"v"} ELSE {}

\* What persists: everything when the script runs as it is, what was hoisted when it does not.
Persisting == IF repl.mode = "hoist" THEN repl.hoisted ELSE ConsoleNames

\* A session's script is wrapped in an async function exactly when it awaits outside any
\* function of its own: a script that does not await is not, and keeps all its declarations.
AwaitIsHoisted ==
  repl.mode # "pending" /\ script.syntax # "broken" /\ tryParseJavaScript =>
    (repl.mode = "hoist" <=> Reaches("await") \/ Reaches("forAwait"))

\* Whatever way a script is run, the names its own statements declare persist.
OwnNamesPersist ==
  repl.mode # "pending" => OwnNames \subseteq Persisting

\* A script is told that its return is illegal only if it has one outside its functions.
RefusedForItsReturn == stateless = "illegal" => Reaches("return")

\* The transformation hoists what it must, loses nothing the script itself declares and refuses
\* no script for a return it has not.
HoistingIsSound == AwaitIsHoisted /\ OwnNamesPersist /\ RefusedForItsReturn

\* A stateless script with a return outside its functions is refused.
ReturnsAreIllegal ==
  stateless # "pending" /\ script.syntax # "broken" /\ Reaches("return") => stateless = "illegal"

\* A script that awaits keeps the declarations the same script would keep without its await.
ConsoleNamesPersist ==
  repl.mode # "pending" => ConsoleNames \subseteq Persisting
================================================================================
