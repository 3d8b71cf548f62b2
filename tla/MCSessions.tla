------------------------------- MODULE MCSessions ------------------------------
(***************************************************************************)
(* Instances of the two models of a JavaScript session: what executions    *)
(* leave to each other, and the transformation of the source. They share   *)
(* no state, so a behaviour is one of one of them: `part` says of which;   *)
(* the variables of the other keep their values.                           *)
(***************************************************************************)
EXTENDS JavaScriptSession

CONSTANTS Nodes, Height, Sources

VARIABLES
  part,
  text, stateless, repl

sourceVars == <<text, stateless, repl>>

Source == INSTANCE ScriptTransform WITH Scripts <- Sources, script <- text

ASSUME TreesAssumption == Source!NodesAreTrees /\ Source!ScriptsAreOfNodes

\* All scripts of at most two statements, three deep with one statement a level.
Leaf(k) == [kind |-> k, body |-> <<>>]
Leaves == {Leaf(k) : k \in {"return", "expr", "await", "forAwait", "var", "let"}}

Around(inner) ==
  inner \union [kind : {"block", "with", "arrow"}, body : {<<node>> : node \in inner}]

Inner == Around(Leaves)
SmallNodes == Around(Inner) \union [kind : {"function"}, body : {<<node>> : node \in Inner}]

SmallHeight ==
  [node \in SmallNodes |-> IF node.body = <<>> THEN 0 ELSE IF node.body[1].body = <<>> THEN 1
                           ELSE IF node.body[1].body[1].body = <<>> THEN 2 ELSE 3]

SmallSources ==
  [body : {<<s>> : s \in SmallNodes} \union {<<s, t>> : s \in SmallNodes, t \in SmallNodes},
   syntax : {"js", "ts", "broken"}]

MCInit ==
  /\ part \in {"session", "source"}
  /\ Init
  /\ IF part = "source" THEN Source!Init
     ELSE /\ text = [body |-> <<Leaf("expr")>>, syntax |-> "js"]
          /\ stateless = "pending" /\ repl = Source!Pending

MCNext ==
  /\ UNCHANGED part
  /\ \/ part = "session" /\ Next /\ UNCHANGED sourceVars
     \/ part = "source" /\ Source!Next /\ UNCHANGED vars

MCSpec == MCInit /\ [][MCNext]_<<part, vars, sourceVars>>

(***************************************************************************)
(* The property of the other, by the name its module gives it.             *)
(***************************************************************************)
\* ScriptTransform: hoisted exactly when it awaits, its own names persist, and no
\* script is refused for a return it has not.
HoistingIsSound == Source!HoistingIsSound
================================================================================
