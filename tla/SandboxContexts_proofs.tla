------------------------- MODULE SandboxContexts_proofs -------------------------
(***************************************************************************)
(* Proofs about the registry and its interpreters, for every set of        *)
(* contexts and bindings, every cap and every combination of faults.       *)
(***************************************************************************)
EXTENDS SandboxContexts, FiniteSetTheorems, TLAPS

LEMMA TurnsToRun ==
  ASSUME NEW r \in Tasks
  PROVE  LET s == [r EXCEPT !.op = "run", !.step = "call"]
         IN  /\ s \in Tasks /\ s.op = "run" /\ s.step = "call"
             /\ s.context = r.context /\ s.binding = r.binding
  BY DEF Tasks

(***************************************************************************)
(* Types, and which ids can be anywhere: only minted ones.                 *)
(***************************************************************************)
Typed ==
  /\ registry \in [Contexts -> Bindings \cup {NONE}]
  /\ hosted \in [Bindings -> SUBSET Contexts]
  /\ task \in [Threads -> Tasks \cup {NONE}]
  /\ minted \subseteq Contexts
  /\ acked \subseteq Contexts
  /\ deleted \subseteq minted
  /\ Registered \subseteq minted
  /\ undisturbed \in BOOLEAN

Request == task["request"]

\* The request in progress carries a context unless it still probes or destroys.
Named == Request # NONE /\ Request.op # "destroy" /\ Request.step # "probe"

RequestShape ==
  /\ Named => Request.context \in minted
  /\ Request # NONE /\ Request.step = "probe" => Request.op \in {"create", "default"}
  /\ task["alarm"] # NONE => task["alarm"].op = "destroy"

(***************************************************************************)
(* The id of a creation or an execution in progress has not been deleted.  *)
(***************************************************************************)
SaverIsAlive ==
  Named /\ Request.op \in {"create", "default", "run"} => Request.context \notin deleted

\* The id of a creation has no row yet.
CreatedIsNew ==
  Named /\ Request.op \in {"create", "default"} => Request.context \notin Registered

DInv == Typed /\ RequestShape /\ SaverIsAlive /\ CreatedIsNew /\ DeletedStaysDeleted

USE NoneAssumption, CapAssumption DEF Threads

LEMMA InitDeleted == Init => DInv
  BY DEF Init, DInv, Typed, RequestShape, SaverIsAlive, CreatedIsNew,
         DeletedStaysDeleted, Registered, Named, Request

(***************************************************************************)
(* Every step preserves it: a request saves only the id it minted itself   *)
(* or took from the registry, and a deleted id is in neither.              *)
(***************************************************************************)
LEMMA DeletedInvariant == DInv /\ [Next]_vars => DInv'
  <1> SUFFICES ASSUME DInv, [Next]_vars PROVE DInv'
    OBVIOUS
  <1> USE DEF DInv, Typed, RequestShape, SaverIsAlive, CreatedIsNew,
              DeletedStaysDeleted, Registered, Named, Request, Tasks, Task, At,
              Continue, Return, Begin, Creating, Answer
  <1>1. ASSUME NEW b \in Bindings, CreateContext(b) PROVE DInv'
    BY <1>1 DEF CreateContext
  <1>2. ASSUME NEW b \in Bindings, ExecuteDefault(b) PROVE DInv'
    BY <1>2 DEF ExecuteDefault
  <1>3. ASSUME NEW c \in Contexts, Execute(c) PROVE DInv'
    BY <1>3 DEF Execute
  <1>4. ASSUME NEW c \in Contexts, DeleteContext(c) PROVE DInv'
    BY <1>4 DEF DeleteContext
  <1>5. ASSUME NEW t \in Threads, NEW left \in SUBSET Bindings, CallNext(t, left),
               UNCHANGED <<hosted, minted, deleted>>, acked' \subseteq Contexts,
               undisturbed' \in BOOLEAN
        PROVE  DInv'
    BY <1>5 DEF CallNext, Wipe
  <1>6. ASSUME DestroySandbox \/ AlarmFires PROVE DInv'
    <2>1. \E t \in Threads : StartDestroy(t) /\ undisturbed' \in BOOLEAN
      BY <1>6 DEF DestroySandbox, AlarmFires
    <2>2. {registry[c] : c \in Registered} \subseteq Bindings
      OBVIOUS
    <2>. QED
      BY <1>5, <2>1, <2>2 DEF StartDestroy
  <1>7. ASSUME NEW t \in Threads, ContinueDestroy(t) PROVE DInv'
    <2>1. task[t] \in Tasks /\ CallNext(t, task[t].left)
          /\ UNCHANGED <<hosted, minted, acked, deleted, undisturbed>>
      BY <1>7 DEF ContinueDestroy
    <2>. QED
      BY <1>5, <2>1
  <1>8. CASE Probed
    <2>1. PICK c \in Contexts \ minted :
            /\ minted' = minted \cup {c}
            /\ task' = [task EXCEPT !["request"] =
                          [task["request"] EXCEPT !.step = "call", !.context = c]]
      BY <1>8 DEF Probed
    <2>2. /\ UNCHANGED <<registry, hosted, acked, deleted, undisturbed>>
          /\ Request \in Tasks /\ Request.op \in {"create", "default"}
      BY <1>8 DEF Probed
    <2>3. /\ Request' \in Tasks /\ Request'.op = Request.op /\ Request'.context = c
          /\ task'["alarm"] = task["alarm"] /\ Request'.step = "call"
      BY <2>1, <2>2
    <2>. QED
      BY <2>1, <2>2, <2>3
  <1>9. CASE ProbeFails \/ CreateFails \/ RunFails
    BY <1>9 DEF ProbeFails, CreateFails, RunFails
  <1>10. CASE SaveCreated
    <2>1. /\ Request \in Tasks /\ Request.op \in {"create", "default"} /\ Named
          /\ registry' = [registry EXCEPT ![Request.context] = Request.binding]
          /\ UNCHANGED <<hosted, minted, deleted, undisturbed>>
          /\ acked' = acked \/ acked' = acked \cup {Request.context}
      BY <1>10 DEF SaveCreated
    <2>2. \/ task' = [task EXCEPT !["request"] = NONE]
          \/ task' = [task EXCEPT !["request"] =
                        [Request EXCEPT !.op = "run", !.step = "call"]]
      BY <1>10 DEF SaveCreated
    <2>3. \/ Request' = NONE
          \/ /\ Request' \in Tasks /\ Request'.op = "run" /\ Request'.step = "call"
             /\ Request'.context = Request.context
      <3>1. CASE task' = [task EXCEPT !["request"] = NONE]
        BY <3>1
      <3>2. CASE task' = [task EXCEPT !["request"] =
                            [Request EXCEPT !.op = "run", !.step = "call"]]
        <4>1. Request' = [Request EXCEPT !.op = "run", !.step = "call"]
          BY <3>2
        <4>. HIDE DEF Tasks, Request
        <4>. QED
          BY <2>1, <4>1, TurnsToRun
      <3>. QED
        BY <2>2, <3>1, <3>2
    <2>4. task' \in [Threads -> Tasks \cup {NONE}] /\ task'["alarm"] = task["alarm"]
      BY <2>1, <2>2, <2>3
    <2>5. /\ registry' \in [Contexts -> Bindings \cup {NONE}]
          /\ \A c \in Contexts : c # Request.context => registry'[c] = registry[c]
      BY <2>1
    <2>. QED
      BY <2>1, <2>3, <2>4, <2>5
  <1>11. CASE SaveRun
    BY <1>11 DEF SaveRun
  <1>12. CASE DropMissing
    BY <1>12 DEF DropMissing
  <1>13. CASE FinishDelete
    BY <1>13 DEF FinishDelete
  <1>14. CASE HostCreate
    BY <1>14 DEF HostCreate
  <1>15. CASE HostRun
    BY <1>15 DEF HostRun
  <1>16. CASE HostDelete
    BY <1>16 DEF HostDelete
  <1>17. ASSUME NEW t \in Threads, HostDestroy(t) PROVE DInv'
    BY <1>17 DEF HostDestroy
  <1>18. ASSUME NEW t \in Threads, CallThrows(t) PROVE DInv'
    <2>1. /\ task[t] \in Tasks /\ task' = [task EXCEPT ![t] = [task[t] EXCEPT !.step = "thrown"]]
          /\ task[t].step # "probe"
          /\ UNCHANGED <<registry, hosted, minted, acked, deleted>> /\ undisturbed' = FALSE
      BY <1>18 DEF CallThrows
    <2>2. /\ task'[t] \in Tasks /\ task'[t].op = task[t].op
          /\ task'[t].context = task[t].context /\ task'[t].step = "thrown"
          /\ \A u \in Threads \ {t} : task'[u] = task[u]
      BY <2>1
    <2>0. task \in [Threads -> Tasks \cup {NONE}]
      OBVIOUS
    <2> HIDE DEF DInv, Typed, RequestShape, SaverIsAlive, CreatedIsNew,
                 DeletedStaysDeleted, Named, Tasks
    <2>3. task' \in [Threads -> Tasks \cup {NONE}]
      BY <2>0, <2>1, <2>2
    <2>4. /\ Request' # NONE <=> Request # NONE
          /\ Request # NONE =>
               /\ Request'.op = Request.op /\ Request'.context = Request.context
               /\ Request'.step \in {Request.step, "thrown"}
               /\ Request'.step = "probe" <=> Request.step = "probe"
      BY <2>0, <2>1, <2>2
    <2>5. task'["alarm"] # NONE => task["alarm"] # NONE /\ task'["alarm"].op = task["alarm"].op
      BY <2>0, <2>1, <2>2
    <2>6. Typed'
      BY <2>1, <2>3 DEF DInv, Typed
    <2>7. RequestShape' /\ (Named' <=> Named)
      BY <2>1, <2>4, <2>5 DEF DInv, RequestShape, Named
    <2>. QED
      BY <2>1, <2>4, <2>6, <2>7
      DEF DInv, SaverIsAlive, CreatedIsNew, DeletedStaysDeleted
  <1>19. CASE Crash
    BY <1>19 DEF Crash
  <1>20. ASSUME NEW b \in Bindings, InterpreterExpires(b) PROVE DInv'
    BY <1>20 DEF InterpreterExpires
  <1>21. CASE UNCHANGED vars
    BY <1>21 DEF vars
  <1>. QED
    BY <1>1, <1>2, <1>3, <1>4, <1>6, <1>7, <1>8, <1>9, <1>10, <1>11, <1>12, <1>13,
       <1>14, <1>15, <1>16, <1>17, <1>18, <1>19, <1>20, <1>21
    DEF Next, Requests, Steps, Environment

--------------------------------------------------------------------------------
(***************************************************************************)
(* The caps.  An admitted request keeps its place: until its row is        *)
(* written, either the row is there already or there is room for it.       *)
(***************************************************************************)
Finite == IsFiniteSet(Registered) /\ \A b \in Bindings : IsFiniteSet(hosted[b])

Admitted ==
  Request # NONE =>
    /\ Request.op = "create" \/ (Request.op = "default" /\ Named) => BelowCap
    /\ Request.op = "run" =>
         /\ MAX_CONTEXTS > 0
         /\ Request.context \in Registered \/ BelowCap

CInv == DInv /\ Finite /\ CapsHold /\ Admitted

LEMMA RegistryShrinks ==
  ASSUME Finite, Registered' \subseteq Registered
  PROVE  /\ IsFiniteSet(Registered')
         /\ Cardinality(Registered') <= Cardinality(Registered)
         /\ Cardinality(Registered') \in Nat /\ Cardinality(Registered) \in Nat
  BY FS_Subset, FS_CardinalityType DEF Finite

LEMMA RoomForOne ==
  ASSUME NEW S, IsFiniteSet(S), NEW c, Cardinality(S) < MAX_CONTEXTS
  PROVE  /\ IsFiniteSet(S \cup {c})
         /\ Cardinality(S \cup {c}) <= MAX_CONTEXTS
         /\ MAX_CONTEXTS > 0
  <1>1. IsFiniteSet(S \cup {c}) /\ Cardinality(S) \in Nat
    BY FS_AddElement, FS_CardinalityType
  <1>2. Cardinality(S \cup {c}) = IF c \in S THEN Cardinality(S) ELSE Cardinality(S) + 1
    BY FS_AddElement
  <1>. QED
    BY <1>1, <1>2

LEMMA HostsShrink ==
  ASSUME CInv, \A b \in Bindings : hosted'[b] \subseteq hosted[b]
  PROVE  \A b \in Bindings : /\ IsFiniteSet(hosted'[b])
                            /\ Cardinality(hosted'[b]) <= MAX_CONTEXTS
  <1> SUFFICES ASSUME NEW b \in Bindings
               PROVE  IsFiniteSet(hosted'[b]) /\ Cardinality(hosted'[b]) <= MAX_CONTEXTS
    OBVIOUS
  <1>1. IsFiniteSet(hosted[b]) /\ Cardinality(hosted[b]) <= MAX_CONTEXTS
    BY DEF CInv, Finite, CapsHold
  <1>2. /\ IsFiniteSet(hosted'[b])
        /\ Cardinality(hosted'[b]) <= Cardinality(hosted[b])
    BY <1>1, FS_Subset
  <1>. QED
    BY <1>1, <1>2, FS_CardinalityType

LEMMA InitCaps == Init => CInv
  <1> SUFFICES ASSUME Init PROVE CInv
    OBVIOUS
  <1>1. Registered = {} /\ \A b \in Bindings : hosted[b] = {}
    BY DEF Init, Registered
  <1>2. Request = NONE
    BY DEF Init, Request
  <1>. QED
    <2>1. Cardinality({}) = 0 /\ IsFiniteSet({}) /\ 0 <= MAX_CONTEXTS
      BY FS_EmptySet
    <2>2. Finite /\ CapsHold
      BY <1>1, <2>1 DEF Finite, CapsHold
    <2>. QED
      BY <1>2, <2>2, InitDeleted DEF CInv, Admitted

(***************************************************************************)
(* Steps that add no row and no hosted context keep the caps, if what they *)
(* let the request be is still admitted.                                   *)
(***************************************************************************)
LEMMA ShrinkingKeepsCaps ==
  ASSUME CInv, DInv', Admitted', Registered' \subseteq Registered,
         \A b \in Bindings : hosted'[b] \subseteq hosted[b]
  PROVE  CInv'
  <1>1. IsFiniteSet(Registered') /\ Cardinality(Registered') <= MAX_CONTEXTS
    BY RegistryShrinks DEF CInv, CapsHold
  <1>. QED
    BY <1>1, HostsShrink DEF CInv, Finite, CapsHold

LEMMA BelowCapKept ==
  ASSUME CInv, Registered' \subseteq Registered, BelowCap
  PROVE  BelowCap'
  BY RegistryShrinks DEF CInv, BelowCap

\* A wiped registry has room for one context.
LEMMA EmptyIsBelowCap ==
  ASSUME MAX_CONTEXTS > 0, Registered' = {}
  PROVE  BelowCap'
  BY FS_EmptySet DEF BelowCap

\* A registered context shows that the cap is not zero.
LEMMA RegisteredMeansRoom ==
  ASSUME CInv, NEW c \in Registered
  PROVE  MAX_CONTEXTS > 0
  <1>1. Cardinality(Registered) # 0 /\ Cardinality(Registered) \in Nat
    BY FS_EmptySet, FS_CardinalityType DEF CInv, Finite
  <1>. QED
    BY <1>1 DEF CInv, CapsHold

(***************************************************************************)
(* Every step preserves the caps: rows and hosted contexts are added only  *)
(* after a comparison with the cap that no other step can outdate.         *)
(***************************************************************************)
LEMMA CapsInvariant == CInv /\ [Next]_vars => CInv'
  <1> SUFFICES ASSUME CInv, [Next]_vars PROVE CInv'
    OBVIOUS
  <1>d. DInv /\ DInv'
    BY DeletedInvariant DEF CInv
  <1> USE DEF Named, Request, Task, At, Continue, Return, Begin, Creating, Answer
  <1>0. ASSUME UNCHANGED <<registry, hosted>>
        PROVE  /\ Registered' = Registered /\ BelowCap' = BelowCap
               /\ \A b \in Bindings : hosted'[b] \subseteq hosted[b]
    BY <1>0 DEF Registered, BelowCap
  <1>1. ASSUME NEW b \in Bindings, CreateContext(b) PROVE CInv'
    <2>1. Admitted'
      BY <1>d, <1>0, <1>1 DEF CreateContext, Admitted, DInv, Typed
    <2>. QED
      BY <1>d, <1>0, <1>1, <2>1, ShrinkingKeepsCaps DEF CreateContext
  <1>2. ASSUME NEW b \in Bindings, ExecuteDefault(b) PROVE CInv'
    <2>1. Admitted'
      BY <1>d, <1>0, <1>2 DEF ExecuteDefault, Admitted, DInv, Typed
    <2>. QED
      BY <1>d, <1>0, <1>2, <2>1, ShrinkingKeepsCaps DEF ExecuteDefault
  <1>3. ASSUME NEW c \in Contexts, Execute(c) PROVE CInv'
    <2>1. Admitted'
      BY <1>d, <1>0, <1>3, RegisteredMeansRoom DEF Execute, Admitted, DInv, Typed
    <2>. QED
      BY <1>d, <1>0, <1>3, <2>1, ShrinkingKeepsCaps DEF Execute
  <1>4. ASSUME NEW c \in Contexts, DeleteContext(c) PROVE CInv'
    <2>1. Admitted'
      BY <1>d, <1>0, <1>4 DEF DeleteContext, Admitted, DInv, Typed
    <2>. QED
      BY <1>d, <1>0, <1>4, <2>1, ShrinkingKeepsCaps DEF DeleteContext
  <1>5. ASSUME NEW t \in Threads, NEW left \in SUBSET Bindings, CallNext(t, left),
               UNCHANGED hosted
        PROVE  CInv'
    <2>1. CASE left # {}
      <3>1. /\ UNCHANGED <<registry, hosted>>
            /\ Request' = Request \/ (Request' # NONE => Request'.op = "destroy")
        BY <1>d, <1>5, <2>1 DEF CallNext, DInv, Typed
      <3>2. Admitted'
        BY <1>0, <3>1 DEF CInv, Admitted
      <3>. QED
        BY <1>d, <1>0, <3>1, <3>2, ShrinkingKeepsCaps
    <2>2. CASE left = {}
      <3>1. /\ Registered' = {} /\ hosted' = hosted
            /\ Request' = Request \/ Request' = NONE
        BY <1>d, <1>5, <2>2 DEF CallNext, Wipe, DInv, Typed, Registered
      <3>2. BelowCap => BelowCap'
        BY <3>1, BelowCapKept
      <3>3. MAX_CONTEXTS > 0 => BelowCap'
        BY <3>1, EmptyIsBelowCap
      <3>4. Admitted'
        BY <3>1, <3>2, <3>3 DEF CInv, Admitted
      <3>. QED
        BY <1>d, <3>1, <3>4, ShrinkingKeepsCaps
    <2>. QED
      BY <2>1, <2>2
  <1>6. ASSUME DestroySandbox \/ AlarmFires PROVE CInv'
    <2>1. {registry[c] : c \in Registered} \subseteq Bindings
      BY <1>d DEF DInv, Typed, Registered
    <2>. QED
      BY <1>5, <1>6, <2>1 DEF DestroySandbox, AlarmFires, StartDestroy
  <1>7. ASSUME NEW t \in Threads, ContinueDestroy(t) PROVE CInv'
    <2>1. task[t] \in Tasks /\ CallNext(t, task[t].left) /\ UNCHANGED hosted
      BY <1>d, <1>7 DEF ContinueDestroy, DInv, Typed
    <2>. QED
      BY <1>5, <2>1 DEF Tasks
  <1>8. CASE Probed
    <2>1. /\ UNCHANGED <<registry, hosted>> /\ BelowCap
          /\ Request.op \in {"create", "default"} /\ Request'.op = Request.op
      BY <1>d, <1>8 DEF Probed, CInv, Admitted, DInv, Typed, Tasks
    <2>2. Admitted'
      BY <1>0, <2>1 DEF Admitted
    <2>. QED
      BY <1>d, <1>0, <2>1, <2>2, ShrinkingKeepsCaps
  <1>9. CASE ProbeFails \/ CreateFails \/ RunFails
    <2>1. UNCHANGED <<registry, hosted>> /\ Request' = NONE
      BY <1>d, <1>9 DEF ProbeFails, CreateFails, RunFails, DInv, Typed
    <2>2. Admitted'
      BY <2>1 DEF Admitted
    <2>. QED
      BY <1>d, <1>0, <2>1, <2>2, ShrinkingKeepsCaps
  <1>10. CASE SaveCreated
    <2> DEFINE c == Request.context
    <2>1. /\ Request \in Tasks /\ Request.op \in {"create", "default"} /\ Named
          /\ c \in Contexts /\ Request.binding \in Bindings /\ BelowCap
          /\ registry' = [registry EXCEPT ![c] = Request.binding] /\ hosted' = hosted
      BY <1>d, <1>10
      DEF SaveCreated, CInv, Admitted, DInv, Typed, RequestShape, Tasks
    <2>2. Registered' = Registered \cup {c}
      BY <1>d, <2>1 DEF Registered, DInv, Typed
    <2>3. /\ IsFiniteSet(Registered') /\ Cardinality(Registered') <= MAX_CONTEXTS
          /\ MAX_CONTEXTS > 0
      <3>1. IsFiniteSet(Registered) /\ Cardinality(Registered) < MAX_CONTEXTS
        BY <2>1 DEF CInv, Finite, BelowCap
      <3>2. /\ IsFiniteSet(Registered \cup {c})
            /\ Cardinality(Registered \cup {c}) <= MAX_CONTEXTS /\ MAX_CONTEXTS > 0
        BY <3>1, RoomForOne
      <3>. QED
        BY <2>2, <3>2
    <2>4. Finite' /\ CapsHold'
      BY <2>1, <2>3 DEF CInv, Finite, CapsHold
    <2>5. \/ Request' = NONE
          \/ Request' = [Request EXCEPT !.op = "run", !.step = "call"]
      BY <1>d, <1>10 DEF SaveCreated, DInv, Typed
    <2>6. Request' = NONE \/ (Request'.op = "run" /\ Request'.context = c)
      <3> HIDE DEF Request, c
      <3>. QED
        BY <2>1, <2>5, TurnsToRun DEF c
    <2>7. Admitted'
      BY <2>2, <2>3, <2>6 DEF Admitted
    <2>. QED
      BY <1>d, <2>4, <2>7 DEF CInv
  <1>11. CASE SaveRun
    <2> DEFINE c == Request.context
    <2>1. /\ Request \in Tasks /\ Request.op = "run" /\ Named
          /\ c \in Contexts /\ Request.binding \in Bindings
          /\ c \in Registered \/ BelowCap
          /\ registry' = [registry EXCEPT ![c] = Request.binding] /\ hosted' = hosted
          /\ Request' = NONE
      BY <1>d, <1>11
      DEF SaveRun, CInv, Admitted, DInv, Typed, RequestShape, Tasks
    <2>2. Registered' = Registered \cup {c}
      BY <1>d, <2>1 DEF Registered, DInv, Typed
    <2>3. IsFiniteSet(Registered') /\ Cardinality(Registered') <= MAX_CONTEXTS
      <3>1. CASE c \in Registered
        <4>1. Registered' = Registered
          BY <2>2, <3>1
        <4>. QED
          BY <4>1 DEF CInv, Finite, CapsHold
      <3>2. CASE BelowCap
        <4>1. IsFiniteSet(Registered) /\ Cardinality(Registered) < MAX_CONTEXTS
          BY <3>2 DEF CInv, Finite, BelowCap
        <4>2. /\ IsFiniteSet(Registered \cup {c})
              /\ Cardinality(Registered \cup {c}) <= MAX_CONTEXTS
          BY <4>1, RoomForOne
        <4>. QED
          BY <2>2, <4>2
      <3>. QED
        BY <2>1, <3>1, <3>2
    <2>4. Finite' /\ CapsHold' /\ Admitted'
      BY <2>1, <2>3 DEF CInv, Finite, CapsHold, Admitted
    <2>. QED
      BY <1>d, <2>4 DEF CInv
  <1>12. CASE DropMissing \/ FinishDelete
    <2>1. /\ Request' = NONE /\ hosted' = hosted
          /\ registry' = [registry EXCEPT ![Request.context] = NONE]
      BY <1>d, <1>12 DEF DropMissing, FinishDelete, DInv, Typed
    <2>2. Registered' \subseteq Registered
      BY <1>d, <2>1 DEF Registered, DInv, Typed
    <2>3. Admitted'
      BY <2>1 DEF Admitted
    <2>. QED
      BY <1>d, <2>1, <2>2, <2>3, ShrinkingKeepsCaps
  <1>13. ASSUME NEW step \in {"ok", "refused", "thrown"}, NEW t \in Threads,
                task[t] # NONE, task[t].step # "probe", Answer(t, step), UNCHANGED registry
         PROVE  Admitted' /\ Registered' = Registered
    <2>1. /\ Request' = Request
             \/ /\ Request # NONE /\ Request.step # "probe"
                /\ Request'.op = Request.op /\ Request'.context = Request.context
          /\ Registered' = Registered /\ BelowCap' = BelowCap
      <3>1. Registered' = Registered /\ BelowCap' = BelowCap
        BY <1>13 DEF Registered, BelowCap
      <3>2. task' = [task EXCEPT ![t] = [task[t] EXCEPT !.step = step]] /\ task[t] \in Tasks
        BY <1>d, <1>13 DEF DInv, Typed
      <3>3. CASE t = "request"
        BY <1>d, <1>13, <3>1, <3>2, <3>3 DEF DInv, Typed, Tasks
      <3>4. CASE t # "request"
        BY <1>d, <3>1, <3>2, <3>4 DEF DInv, Typed
      <3>. QED
        BY <3>3, <3>4
    <2>. QED
      BY <2>1 DEF CInv, Admitted
  <1>14. CASE HostCreate
    <2>1. PICK step \in {"ok", "refused"} : Answer("request", step)
      BY <1>14 DEF HostCreate
    <2>2. /\ Request \in Tasks /\ Request.binding \in Bindings
          /\ Request.step = "call" /\ UNCHANGED registry
      BY <1>d, <1>14 DEF HostCreate, DInv, Typed, Tasks
    <2>3. Admitted' /\ Registered' = Registered
      BY <1>13, <1>14, <2>1, <2>2 DEF HostCreate
    <2>4. CASE UNCHANGED hosted
      BY <1>d, <2>2, <2>3, <2>4, ShrinkingKeepsCaps
    <2>5. CASE /\ Cardinality(hosted[Request.binding]) < MAX_CONTEXTS
               /\ hosted' = [hosted EXCEPT ![Request.binding] = @ \cup {Request.context}]
      <3>1. /\ IsFiniteSet(hosted'[Request.binding])
            /\ Cardinality(hosted'[Request.binding]) <= MAX_CONTEXTS
        <4>1. /\ IsFiniteSet(hosted[Request.binding])
              /\ hosted'[Request.binding] = hosted[Request.binding] \cup {Request.context}
          BY <1>d, <2>2, <2>5 DEF CInv, Finite, DInv, Typed
        <4>. QED
          <5>1. /\ IsFiniteSet(hosted[Request.binding] \cup {Request.context})
                /\ Cardinality(hosted[Request.binding] \cup {Request.context}) <= MAX_CONTEXTS
            BY <2>5, <4>1, RoomForOne
          <5>. QED
            BY <4>1, <5>1
      <3>2. \A b \in Bindings : b # Request.binding => hosted'[b] = hosted[b]
        BY <1>d, <2>5 DEF DInv, Typed
      <3>3. Finite' /\ CapsHold'
        BY <2>3, <3>1, <3>2 DEF CInv, Finite, CapsHold
      <3>. QED
        BY <1>d, <2>3, <3>3 DEF CInv
    <2>. QED
      BY <1>14, <2>4, <2>5 DEF HostCreate
  <1>15. CASE HostRun
    <2>1. /\ task["request"] # NONE /\ task["request"].step = "call"
          /\ UNCHANGED <<registry, hosted>>
          /\ \E step \in {"ok", "refused"} : Answer("request", step)
      BY <1>15 DEF HostRun
    <2>2. Admitted'
      BY <1>13, <2>1
    <2>. QED
      BY <1>d, <1>0, <2>1, <2>2, ShrinkingKeepsCaps
  <1>16. CASE HostDelete
    <2>1. /\ task["request"] # NONE /\ task["request"].step = "call"
          /\ UNCHANGED registry
          /\ \E step \in {"ok", "refused"} : Answer("request", step)
          /\ \A b \in Bindings : hosted'[b] \subseteq hosted[b]
      BY <1>d, <1>16 DEF HostDelete, DInv, Typed
    <2>2. Admitted' /\ Registered' = Registered
      BY <1>13, <2>1
    <2>. QED
      BY <1>d, <2>1, <2>2, ShrinkingKeepsCaps
  <1>17. ASSUME NEW t \in Threads, HostDestroy(t) PROVE CInv'
    <2>1. /\ task[t] # NONE /\ task[t].step = "call"
          /\ UNCHANGED registry /\ Answer(t, "ok")
          /\ \A b \in Bindings : hosted'[b] \subseteq hosted[b]
      BY <1>d, <1>17 DEF HostDestroy, DInv, Typed
    <2>2. Admitted' /\ Registered' = Registered
      BY <1>13, <2>1
    <2>. QED
      BY <1>d, <2>1, <2>2, ShrinkingKeepsCaps
  <1>18. ASSUME NEW t \in Threads, CallThrows(t) PROVE CInv'
    <2>1. Admitted'
      BY <1>13, <1>18 DEF CallThrows
    <2>. QED
      BY <1>d, <1>0, <1>18, <2>1, ShrinkingKeepsCaps DEF CallThrows
  <1>19. CASE Crash
    <2>1. Request' = NONE /\ UNCHANGED <<registry, hosted>>
      BY <1>19 DEF Crash
    <2>2. Admitted'
      BY <2>1 DEF Admitted
    <2>. QED
      BY <1>d, <1>0, <2>1, <2>2, ShrinkingKeepsCaps
  <1>20. ASSUME NEW b \in Bindings, InterpreterExpires(b) PROVE CInv'
    <2>1. /\ UNCHANGED <<registry, task>>
          /\ \A i \in Bindings : hosted'[i] \subseteq hosted[i]
      BY <1>d, <1>20 DEF InterpreterExpires, DInv, Typed
    <2>2. Admitted' /\ Registered' = Registered
      BY <2>1 DEF CInv, Admitted, Registered, BelowCap
    <2>. QED
      BY <1>d, <2>1, <2>2, ShrinkingKeepsCaps
  <1>21. CASE UNCHANGED vars
    <2>1. Admitted'
      BY <1>0, <1>21 DEF vars, CInv, Admitted
    <2>. QED
      BY <1>d, <1>0, <1>21, <2>1, ShrinkingKeepsCaps DEF vars
  <1>. QED
    BY <1>1, <1>2, <1>3, <1>4, <1>6, <1>7, <1>8, <1>9, <1>10, <1>11, <1>12,
       <1>14, <1>15, <1>16, <1>17, <1>18, <1>19, <1>20, <1>21
    DEF Next, Requests, Steps, Environment

--------------------------------------------------------------------------------
(***************************************************************************)
(* Agreement of the two sides in undisturbed histories, at every await:    *)
(* what the task in progress, alone, makes of "the interpreters host the   *)
(* registered contexts".                                                   *)
(***************************************************************************)
HostsOf(b) == {c \in Contexts : registry[c] = b}

Matches == \A b \in Bindings : hosted[b] = HostsOf(b)

CreateAgrees(r) ==
  /\ r.step \in {"probe", "call", "ok"}
  /\ r.step # "ok" => Matches
  /\ r.step = "ok" => \A b \in Bindings, c \in Contexts :
       c \in hosted[b] <=> registry[c] = b \/ (c = r.context /\ b = r.binding)

RunAgrees(r) ==
  r.step \in {"call", "ok"} /\ Matches /\ registry[r.context] = r.binding

DeleteAgrees(r) ==
  /\ registry[r.context] = r.binding
  /\ \/ r.step = "call" /\ Matches
     \/ /\ r.step = "ok"
        /\ \A b \in Bindings, c \in Contexts :
             c \in hosted[b] <=> registry[c] = b /\ c # r.context

DestroyAgrees(r) ==
  /\ r.step \in {"call", "ok"}
  /\ r.binding \notin r.left
  /\ \A b \in Bindings :
       hosted[b] = IF b \in r.left \/ (b = r.binding /\ r.step = "call")
                   THEN HostsOf(b) ELSE {}

TaskAgrees(r) ==
  /\ r.op \in {"create", "default"} => CreateAgrees(r)
  /\ r.op = "run" => RunAgrees(r)
  /\ r.op = "delete" => DeleteAgrees(r)
  /\ r.op = "destroy" => DestroyAgrees(r)

Agreement ==
  undisturbed =>
    /\ \A t \in Threads : task[t] # NONE =>
         /\ TaskAgrees(task[t])
         /\ \A u \in Threads \ {t} : task[u] = NONE
    /\ (\A t \in Threads : task[t] = NONE) => Matches

AInv == CInv /\ Agreement

LEMMA InitAgreement == Init => AInv
  <1> SUFFICES ASSUME Init PROVE AInv
    OBVIOUS
  <1>2. Matches
    BY DEF Init, Matches, HostsOf
  <1>3. Agreement
    BY <1>2 DEF Init, Agreement
  <1>. QED
    BY <1>3, InitCaps DEF AInv

\* In an undisturbed history an interpreter hosts no more than is registered.
LEMMA HostHasRoom ==
  ASSUME CInv, Matches, BelowCap, NEW b \in Bindings
  PROVE  Cardinality(hosted[b]) < MAX_CONTEXTS
  <1>1. hosted[b] \subseteq Registered /\ IsFiniteSet(Registered)
    BY DEF CInv, Finite, Matches, HostsOf, Registered
  <1>2. /\ Cardinality(hosted[b]) <= Cardinality(Registered)
        /\ Cardinality(hosted[b]) \in Nat /\ Cardinality(Registered) \in Nat
    BY <1>1, FS_Subset, FS_CardinalityType
  <1>. QED
    BY <1>2 DEF BelowCap

(***************************************************************************)
(* Every step of an undisturbed history, in which no call fails and        *)
(* nothing crashes, expires or overlaps, preserves the agreement.          *)
(***************************************************************************)
LEMMA AgreementInvariant == AInv /\ [Next]_vars => AInv'
  <1> SUFFICES ASSUME AInv, [Next]_vars PROVE AInv'
    OBVIOUS
  <1>d. CInv /\ CInv' /\ Typed /\ Typed' /\ RequestShape /\ CreatedIsNew
    BY CapsInvariant DEF AInv, CInv, DInv
  <1>u. SUFFICES ASSUME undisturbed, undisturbed' PROVE Agreement'
    <2>1. undisturbed' => undisturbed
      BY <1>d
      DEF Next, Requests, Steps, Environment, CreateContext, ExecuteDefault, Execute,
          DeleteContext, DestroySandbox, AlarmFires, ContinueDestroy, Begin,
          Probed, ProbeFails, CreateFails, SaveCreated, SaveRun, RunFails, DropMissing,
          FinishDelete, HostCreate, HostRun, HostDelete, HostDestroy, CallThrows, Crash,
          InterpreterExpires, vars, Typed
    <2>. QED
      BY <1>d, <2>1 DEF AInv, Agreement
  <1>a. /\ \A t \in Threads : task[t] # NONE =>
             TaskAgrees(task[t]) /\ \A u \in Threads \ {t} : task[u] = NONE
        /\ (\A t \in Threads : task[t] = NONE) => Matches
    BY <1>u DEF AInv, Agreement
  <1> USE DEF At, Continue, Return, Begin, Creating, Answer, Request
  <1>1. ASSUME NEW b \in Bindings, CreateContext(b) \/ ExecuteDefault(b)
        PROVE  Agreement'
    <2>0. PICK op \in {"create", "default"} :
            /\ Begin("request")
            /\ task' = [task EXCEPT !["request"] = Task(op, "probe", NONE, b, {})]
      BY <1>1 DEF CreateContext, ExecuteDefault
    <2>1. \A t \in Threads : task[t] = NONE
      BY <1>u, <2>0
    <2>2. /\ UNCHANGED <<registry, hosted>> /\ Matches
          /\ task'["alarm"] = NONE /\ Request' = Task(op, "probe", NONE, b, {})
      BY <1>a, <1>d, <1>1, <2>0, <2>1 DEF CreateContext, ExecuteDefault, Typed
    <2>3. Request'.op \in {"create", "default"} /\ Request'.step = "probe"
      BY <2>2 DEF Task
    <2>. QED
      BY <2>2, <2>3 DEF Agreement, TaskAgrees, CreateAgrees, Matches, HostsOf
  <1>2. ASSUME NEW c \in Contexts, Execute(c) \/ DeleteContext(c)
        PROVE  Agreement'
    <2>0. PICK op \in {"run", "delete"} :
            /\ Begin("request")
            /\ task' = [task EXCEPT !["request"] = Task(op, "call", c, registry[c], {})]
      BY <1>2 DEF Execute, DeleteContext
    <2>1. \A t \in Threads : task[t] = NONE
      BY <1>u, <2>0
    <2>2. /\ UNCHANGED <<registry, hosted>> /\ Matches
          /\ task'["alarm"] = NONE /\ Request' = Task(op, "call", c, registry[c], {})
      BY <1>a, <1>d, <1>2, <2>0, <2>1 DEF Execute, DeleteContext, Typed
    <2>3. /\ Request'.op \in {"run", "delete"} /\ Request'.step = "call"
          /\ Request'.context = c /\ Request'.binding = registry[c]
      BY <2>2 DEF Task
    <2>. QED
      BY <2>2, <2>3 DEF Agreement, TaskAgrees, RunAgrees, DeleteAgrees, Matches, HostsOf
  <1>3. ASSUME NEW t \in Threads, NEW left \in SUBSET Bindings, CallNext(t, left),
               UNCHANGED hosted, \A u \in Threads \ {t} : task[u] = NONE,
               \A b \in Bindings : hosted[b] = IF b \in left THEN HostsOf(b) ELSE {}
        PROVE  Agreement'
    <2>1. CASE left = {}
      <3>1. /\ \A u \in Threads : task'[u] = NONE
            /\ \A c \in Contexts : registry'[c] = NONE
            /\ \A b \in Bindings : hosted'[b] = {}
        BY <1>d, <1>3, <2>1 DEF CallNext, Wipe, Typed
      <3>2. Matches'
        BY <3>1 DEF Matches, HostsOf
      <3>. QED
        BY <3>1, <3>2 DEF Agreement
    <2>2. CASE left # {}
      <3>1. PICK b \in left : task' = [task EXCEPT ![t] =
                                         Task("destroy", "call", NONE, b, left \ {b})]
        BY <1>3, <2>2 DEF CallNext
      <3>2. /\ UNCHANGED <<registry, hosted>> /\ task'[t].op = "destroy"
            /\ task'[t].step = "call" /\ task'[t].binding = b /\ task'[t].left = left \ {b}
            /\ \A u \in Threads \ {t} : task'[u] = NONE
            /\ task'[t] \in Tasks
        BY <1>d, <1>3, <2>2, <3>1 DEF CallNext, Task, Tasks, Typed
      <3>3. DestroyAgrees(task[t])'
        BY <1>3, <3>2 DEF DestroyAgrees, HostsOf
      <3>4. TaskAgrees(task[t])'
        BY <3>2, <3>3 DEF TaskAgrees
      <3>5. \A u \in Threads : task'[u] # NONE => u = t
        BY <3>2
      <3>6. (\A u \in Threads : task'[u] = NONE) => Matches'
        BY <3>2
      <3>. QED
        BY <3>2, <3>4, <3>5, <3>6 DEF Agreement
    <2>. QED
      BY <2>1, <2>2
  <1>4. ASSUME DestroySandbox \/ AlarmFires PROVE Agreement'
    <2>1. PICK t \in Threads : Begin(t) /\ StartDestroy(t)
      BY <1>4 DEF DestroySandbox, AlarmFires
    <2>2. /\ \A u \in Threads \ {t} : task[u] = NONE
          /\ Matches
      BY <1>u, <1>a, <2>1
    <2> DEFINE left == {registry[c] : c \in Registered}
    <2>3. left \subseteq Bindings
      BY <1>d DEF Typed, Registered
    <2>4. \A b \in Bindings : hosted[b] = IF b \in left THEN HostsOf(b) ELSE {}
      BY <2>2 DEF Matches, HostsOf, Registered
    <2>. QED
      BY <1>3, <2>1, <2>2, <2>3, <2>4 DEF StartDestroy
  <1>5. ASSUME NEW t \in Threads, ContinueDestroy(t) PROVE Agreement'
    <2>1. /\ task[t] \in Tasks /\ task[t].op = "destroy" /\ task[t].step # "call"
          /\ CallNext(t, task[t].left) /\ UNCHANGED hosted
      BY <1>d, <1>5 DEF ContinueDestroy, Typed
    <2>2. /\ DestroyAgrees(task[t]) /\ \A u \in Threads \ {t} : task[u] = NONE
          /\ task[t].left \in SUBSET Bindings
      BY <1>a, <2>1 DEF TaskAgrees, Tasks
    <2>3. \A b \in Bindings : hosted[b] = IF b \in task[t].left THEN HostsOf(b) ELSE {}
      BY <2>1, <2>2 DEF DestroyAgrees
    <2>. QED
      BY <1>3, <2>1, <2>2, <2>3
  <1>6. ASSUME Request \in Tasks, Request # NONE
        PROVE  /\ task["alarm"] = NONE /\ TaskAgrees(Request)
               /\ \A u \in Threads : u # "request" => task[u] = NONE
    BY <1>a, <1>6
  <1>7. CASE Probed
    <2>1. /\ Request \in Tasks /\ Request.op \in {"create", "default"}
          /\ Request.step = "probe" /\ UNCHANGED <<registry, hosted>>
          /\ \E c \in Contexts : task' = [task EXCEPT !["request"] =
                 [Request EXCEPT !.step = "call", !.context = c]]
      BY <1>d, <1>7 DEF Probed, Typed
    <2>2. Matches /\ task["alarm"] = NONE
      BY <1>6, <1>7, <2>1 DEF TaskAgrees, CreateAgrees, Probed
    <2>3. /\ Request'.op = Request.op /\ Request'.step = "call" /\ Request' \in Tasks
          /\ task'["alarm"] = NONE
      <3>1. PICK c \in Contexts : task' = [task EXCEPT !["request"] =
                 [Request EXCEPT !.step = "call", !.context = c]]
        BY <2>1
      <3>2. /\ Request' = [Request EXCEPT !.step = "call", !.context = c]
            /\ task'["alarm"] = NONE
        BY <1>d, <2>2, <3>1 DEF Typed
      <3> HIDE DEF Request
      <3>. QED
        BY <2>1, <3>2 DEF Tasks
    <2>. QED
      BY <2>1, <2>2, <2>3 DEF Agreement, TaskAgrees, CreateAgrees, Matches, HostsOf
  <1>8. CASE ProbeFails
    <2>1. /\ Request \in Tasks /\ Request.op \in {"create", "default"}
          /\ Request.step = "probe" /\ UNCHANGED <<registry, hosted>>
          /\ task' = [task EXCEPT !["request"] = NONE]
      BY <1>d, <1>8 DEF ProbeFails, Typed
    <2>2. Matches /\ task["alarm"] = NONE
      BY <1>6, <1>8, <2>1 DEF TaskAgrees, CreateAgrees, ProbeFails
    <2>. QED
      BY <1>d, <2>1, <2>2 DEF Agreement, Matches, HostsOf, Typed
  <1>9. CASE CreateFails \/ RunFails \/ DropMissing
    <2>1. /\ Request \in Tasks /\ Request # NONE
          /\ \/ /\ Request.op \in {"create", "default"}
                /\ Request.step \in {"refused", "thrown"}
             \/ Request.op = "run" /\ Request.step \in {"refused", "thrown"}
      BY <1>d, <1>9 DEF CreateFails, RunFails, DropMissing, Typed
    <2>. QED
      BY <1>6, <2>1 DEF TaskAgrees, CreateAgrees, RunAgrees
  <1>10. CASE SaveCreated
    <2> DEFINE c == Request.context
               b == Request.binding
    <2>1. /\ Request \in Tasks /\ Request.op \in {"create", "default"}
          /\ Request # NONE /\ Request.step = "ok"
          /\ registry' = [registry EXCEPT ![c] = b] /\ hosted' = hosted
          /\ \/ task' = [task EXCEPT !["request"] = NONE]
             \/ task' = [task EXCEPT !["request"] =
                           [Request EXCEPT !.op = "run", !.step = "call"]]
      BY <1>d, <1>10 DEF SaveCreated, Typed
    <2>2. c \in Contexts /\ b \in Bindings /\ registry[c] = NONE
      BY <1>d, <2>1 DEF RequestShape, CreatedIsNew, Named, Registered, Typed, Tasks
    <2>3. /\ task["alarm"] = NONE
          /\ \A i \in Bindings, x \in Contexts :
               x \in hosted[i] <=> registry[x] = i \/ (x = c /\ i = b)
      BY <1>6, <2>1 DEF TaskAgrees, CreateAgrees
    <2>4. /\ \A x \in Contexts : registry'[x] = IF x = c THEN b ELSE registry[x]
          /\ \A i \in Bindings : hosted'[i] \subseteq Contexts
      BY <1>d, <2>1, <2>2 DEF Typed
    <2>5. \A i \in Bindings, x \in Contexts : x \in hosted'[i] <=> registry'[x] = i
      BY <2>1, <2>2, <2>3, <2>4
    <2>6. Matches'
      BY <2>4, <2>5 DEF Matches, HostsOf
    <2>7. /\ task'["alarm"] = NONE
          /\ \/ Request' = NONE
             \/ /\ Request'.op = "run" /\ Request'.step = "call"
                /\ Request'.context = c /\ Request'.binding = b
      <3>1. CASE task' = [task EXCEPT !["request"] = NONE]
        BY <1>d, <2>3, <3>1 DEF Typed
      <3>2. CASE task' = [task EXCEPT !["request"] =
                            [Request EXCEPT !.op = "run", !.step = "call"]]
        <4>1. /\ Request' = [Request EXCEPT !.op = "run", !.step = "call"]
              /\ task'["alarm"] = NONE
          BY <1>d, <2>3, <3>2 DEF Typed
        <4> HIDE DEF Request, c, b
        <4>. QED
          BY <2>1, <4>1, TurnsToRun DEF c, b
      <3>. QED
        BY <2>1, <3>1, <3>2
    <2>8. Request' # NONE => TaskAgrees(Request)'
      BY <2>2, <2>4, <2>6, <2>7 DEF TaskAgrees, RunAgrees
    <2>. QED
      BY <2>6, <2>7, <2>8 DEF Agreement
  <1>11. CASE SaveRun
    <2>1. /\ Request \in Tasks /\ Request.op = "run" /\ Request # NONE
          /\ registry' = [registry EXCEPT ![Request.context] = Request.binding]
          /\ hosted' = hosted /\ task' = [task EXCEPT !["request"] = NONE]
      BY <1>d, <1>11 DEF SaveRun, Typed
    <2>2. Matches /\ registry[Request.context] = Request.binding /\ task["alarm"] = NONE
      BY <1>6, <2>1 DEF TaskAgrees, RunAgrees
    <2>3. registry' = registry
      BY <1>d, <2>1, <2>2 DEF Typed
    <2>. QED
      BY <1>d, <2>1, <2>2, <2>3 DEF Agreement, Matches, HostsOf, Typed
  <1>12. CASE FinishDelete
    <2> DEFINE c == Request.context
    <2>1. /\ Request \in Tasks /\ Request.op = "delete" /\ Request # NONE
          /\ Request.step # "call"
          /\ registry' = [registry EXCEPT ![c] = NONE]
          /\ hosted' = hosted /\ task' = [task EXCEPT !["request"] = NONE]
      BY <1>d, <1>12 DEF FinishDelete, Typed
    <2>2. /\ task["alarm"] = NONE
          /\ \A i \in Bindings, x \in Contexts :
               x \in hosted[i] <=> registry[x] = i /\ x # c
      BY <1>6, <2>1 DEF TaskAgrees, DeleteAgrees
    <2>3. /\ \A x \in Contexts : registry'[x] = IF x = c THEN NONE ELSE registry[x]
          /\ \A i \in Bindings : hosted'[i] \subseteq Contexts
      BY <1>d, <2>1 DEF Typed
    <2>4. Matches'
      BY <2>1, <2>2, <2>3 DEF Matches, HostsOf
    <2>. QED
      BY <1>d, <2>1, <2>2, <2>4 DEF Agreement, Typed
  <1>13. ASSUME NEW step \in {"ok", "refused"}, Request \in Tasks, Request # NONE,
                Answer("request", step), UNCHANGED registry
         PROVE  /\ Request'.op = Request.op /\ Request'.step = step /\ Request' \in Tasks
                /\ Request'.context = Request.context /\ Request'.binding = Request.binding
                /\ task'["alarm"] = NONE
    <2>1. Request' = [Request EXCEPT !.step = step] /\ task'["alarm"] = NONE
      BY <1>d, <1>6, <1>13 DEF Typed
    <2> HIDE DEF Request
    <2>. QED
      BY <1>13, <2>1 DEF Tasks
  <1>14. CASE HostCreate
    <2> DEFINE c == Request.context
               b == Request.binding
    <2>1. /\ Request \in Tasks /\ Request.op \in {"create", "default"}
          /\ Request # NONE /\ Request.step = "call" /\ UNCHANGED registry
          /\ b \in Bindings
      BY <1>d, <1>14 DEF HostCreate, Typed, Tasks
    <2>2. Matches /\ BelowCap
      BY <1>d, <1>6, <2>1 DEF TaskAgrees, CreateAgrees, CInv, Admitted, Named
    <2>3. Cardinality(hosted[b]) < MAX_CONTEXTS
      BY <1>d, <2>1, <2>2, HostHasRoom
    <2>4. hosted' = [hosted EXCEPT ![b] = @ \cup {c}] /\ Answer("request", "ok")
      BY <1>14, <2>3 DEF HostCreate
    <2>5. /\ Request'.op = Request.op /\ Request'.step = "ok" /\ Request' \in Tasks
          /\ Request'.context = c /\ Request'.binding = b /\ task'["alarm"] = NONE
      BY <1>13, <2>1, <2>4
    <2>6. \A i \in Bindings, x \in Contexts :
            x \in hosted'[i] <=> registry'[x] = i \/ (x = c /\ i = b)
      BY <1>d, <2>1, <2>2, <2>4 DEF Matches, HostsOf, Typed
    <2>7. TaskAgrees(Request)'
      BY <2>1, <2>5, <2>6 DEF TaskAgrees, CreateAgrees
    <2>. QED
      BY <2>5, <2>7 DEF Agreement
  <1>15. CASE HostRun
    <2>1. /\ Request \in Tasks /\ Request.op = "run" /\ Request # NONE
          /\ Request.step = "call" /\ UNCHANGED <<registry, hosted>>
          /\ Request.context \in Contexts /\ Request.binding \in Bindings
      BY <1>d, <1>15 DEF HostRun, Typed, RequestShape, Named, Tasks
    <2>2. Matches /\ registry[Request.context] = Request.binding
      BY <1>6, <2>1 DEF TaskAgrees, RunAgrees
    <2>3. Request.context \in hosted[Request.binding]
      BY <2>1, <2>2 DEF Matches, HostsOf
    <2>4. Answer("request", "ok")
      BY <1>15, <2>3 DEF HostRun
    <2>5. /\ Request'.op = Request.op /\ Request'.step = "ok" /\ Request' \in Tasks
          /\ Request'.context = Request.context /\ Request'.binding = Request.binding
          /\ task'["alarm"] = NONE
      BY <1>13, <2>1, <2>4
    <2>6. Matches'
      BY <2>1, <2>2 DEF Matches, HostsOf
    <2>. QED
      BY <2>1, <2>2, <2>5, <2>6 DEF Agreement, TaskAgrees, RunAgrees
  <1>16. CASE HostDelete
    <2> DEFINE c == Request.context
               b == Request.binding
    <2>1. /\ Request \in Tasks /\ Request.op = "delete" /\ Request # NONE
          /\ Request.step = "call" /\ UNCHANGED registry
          /\ c \in Contexts /\ b \in Bindings
          /\ hosted' = [hosted EXCEPT ![b] = @ \ {c}]
      BY <1>d, <1>16 DEF HostDelete, Typed, RequestShape, Named, Tasks
    <2>2. Matches /\ registry[c] = b
      BY <1>6, <2>1 DEF TaskAgrees, DeleteAgrees
    <2>3. c \in hosted[b]
      BY <2>1, <2>2 DEF Matches, HostsOf
    <2>4. Answer("request", "ok")
      BY <1>16, <2>3 DEF HostDelete
    <2>5. /\ Request'.op = Request.op /\ Request'.step = "ok" /\ Request' \in Tasks
          /\ Request'.context = c /\ Request'.binding = b /\ task'["alarm"] = NONE
      BY <1>13, <2>1, <2>4
    <2>6. \A i \in Bindings, x \in Contexts : x \in hosted'[i] <=> registry'[x] = i /\ x # c
      BY <1>d, <2>1, <2>2 DEF Matches, HostsOf, Typed
    <2>7. TaskAgrees(Request)'
      BY <2>1, <2>2, <2>5, <2>6 DEF TaskAgrees, DeleteAgrees
    <2>. QED
      BY <2>5, <2>7 DEF Agreement
  <1>17. ASSUME NEW t \in Threads, HostDestroy(t) PROVE Agreement'
    <2>1. /\ task[t] \in Tasks /\ task[t] # NONE /\ task[t].op = "destroy"
          /\ task[t].step = "call" /\ UNCHANGED registry
          /\ hosted' = [hosted EXCEPT ![task[t].binding] = {}]
          /\ task' = [task EXCEPT ![t] = [task[t] EXCEPT !.step = "ok"]]
      BY <1>d, <1>17 DEF HostDestroy, Typed
    <2>2. DestroyAgrees(task[t]) /\ \A u \in Threads \ {t} : task[u] = NONE
      BY <1>a, <2>1 DEF TaskAgrees
    <2>3. /\ task'[t] = [task[t] EXCEPT !.step = "ok"]
          /\ \A u \in Threads \ {t} : task'[u] = NONE
      BY <1>d, <2>1, <2>2 DEF Typed
    <2>4. /\ task'[t] \in Tasks /\ task'[t].op = "destroy" /\ task'[t].step = "ok"
          /\ task'[t].binding = task[t].binding /\ task'[t].left = task[t].left
      BY <2>1, <2>3 DEF Tasks
    <2> DEFINE b == task[t].binding
    <2>5. \A i \in Bindings : hosted'[i] = IF i = b THEN {} ELSE hosted[i]
      BY <1>d, <2>1 DEF Typed
    <2>6. b \notin task[t].left
      BY <2>1, <2>2 DEF DestroyAgrees
    <2>7. DestroyAgrees(task[t])'
      BY <2>1, <2>2, <2>4, <2>5, <2>6 DEF DestroyAgrees, HostsOf
    <2>8. TaskAgrees(task[t])'
      BY <2>4, <2>7 DEF TaskAgrees
    <2>. QED
      BY <2>3, <2>4, <2>8 DEF Agreement
  <1>18. ASSUME \/ \E t \in Threads : CallThrows(t)
                \/ Crash
                \/ \E b \in Bindings : InterpreterExpires(b)
         PROVE  FALSE
    BY <1>u, <1>18 DEF CallThrows, Crash, InterpreterExpires
  <1>19. CASE UNCHANGED vars
    BY <1>a, <1>19
    DEF vars, Agreement, TaskAgrees, CreateAgrees, RunAgrees, DeleteAgrees, DestroyAgrees,
        Matches, HostsOf
  <1>. QED
    BY <1>1, <1>2, <1>4, <1>5, <1>7, <1>8, <1>9, <1>10, <1>11, <1>12, <1>14, <1>15,
       <1>16, <1>17, <1>18, <1>19
    DEF Next, Requests, Steps, Environment

--------------------------------------------------------------------------------
LEMMA Invariance == Spec => []AInv
  BY InitAgreement, AgreementInvariant, PTL DEF Spec

(***************************************************************************)
(* Type correctness.                                                       *)
(***************************************************************************)
THEOREM TypeCorrect == Spec => []TypeOK
  <1>1. AInv => TypeOK
    BY DEF AInv, CInv, DInv, Typed, TypeOK
  <1>. QED
    BY <1>1, Invariance, PTL

(***************************************************************************)
(* The caps of both sides hold at every await, whatever fails or expires   *)
(* and wherever the alarm interleaves.                                     *)
(***************************************************************************)
THEOREM CapsAlwaysHold == Spec => []CapsHold
  <1>1. AInv => CapsHold
    BY DEF AInv, CInv
  <1>. QED
    BY <1>1, Invariance, PTL

(***************************************************************************)
(* A context whose deletion has been answered is never registered again.   *)
(***************************************************************************)
THEOREM DeletionIsFinal == Spec => []DeletedStaysDeleted
  <1>1. AInv => DeletedStaysDeleted
    BY DEF AInv, CInv, DInv
  <1>. QED
    BY <1>1, Invariance, PTL

(***************************************************************************)
(* In an undisturbed history the interpreters host, between requests,      *)
(* exactly the registered contexts.                                        *)
(***************************************************************************)
THEOREM UndisturbedSidesAgree == Spec => []HostedIsRegistered
  <1>1. AInv => HostedIsRegistered
    BY DEF AInv, Agreement, HostedIsRegistered, Matches, HostsOf
  <1>. QED
    BY <1>1, Invariance, PTL

(***************************************************************************)
(* In an undisturbed history no interpreter refuses a context the sandbox  *)
(* admits.                                                                 *)
(***************************************************************************)
THEOREM AdmittedIsNotRefused == Spec => []CreateIsNotRefused
  <1>1. AInv => CreateIsNotRefused
    BY DEF AInv, Agreement, CreateIsNotRefused, Creating, At, TaskAgrees, CreateAgrees
  <1>. QED
    BY <1>1, Invariance, PTL

--------------------------------------------------------------------------------
(***************************************************************************)
(* How far an operation under way still is from its end: each await has a  *)
(* rank, a call being ranked above its answer and the answer above a       *)
(* throw, and what comes after this call is counted whole: one more call   *)
(* for a creation that goes on to run, one for each binding that a destroy *)
(* has not called.                                                         *)
(***************************************************************************)
InCall == [probe |-> 4, call |-> 3, ok |-> 2, refused |-> 2, thrown |-> 1]

AfterCall(r) == IF r.op = "destroy" THEN 3 * Cardinality(r.left)
                ELSE IF r.op \in {"create", "default"} THEN 3 ELSE 0

Remaining(r) == AfterCall(r) + InCall[r.step]

Moves(t)       == task[t] # NONE /\ task'[t] # task[t]
ComesNearer(t) == task'[t] = NONE \/ Remaining(task'[t]) < Remaining(task[t])

\* What is under way only comes nearer its end, and every step brings a task on.
TasksComeNearer ==
  /\ \A t \in Threads : Moves(t) => ComesNearer(t)
  /\ Steps => \E t \in Threads : Moves(t)

(***************************************************************************)
(* The bindings a destroy still has to call are finitely many, for they    *)
(* are those of the registry; and no interpreter refuses to be destroyed.  *)
(***************************************************************************)
WellFormed(r) ==
  r # NONE => /\ IsFiniteSet(r.left)
              /\ r.op = "destroy" => r.step \in {"call", "ok", "thrown"}

TasksAreWellFormed == \A t \in Threads : WellFormed(task[t])

FInv == CInv /\ TasksAreWellFormed

(***************************************************************************)
(* What a task may become in one step.                                     *)
(***************************************************************************)
\* The call is made, answered or thrown: what comes after it stays.
Answered(r, s) ==
  /\ s.op = r.op /\ s.left = r.left
  /\ InCall[s.step] < InCall[r.step]
  /\ s.op = "destroy" => s.step # "refused"

\* The context of an execution has been created: its run is called.
GoesOnToRun(r, s) ==
  /\ r.op = "default" /\ r.step = "ok"
  /\ s.op = "run" /\ s.step = "call" /\ s.left = r.left

\* A destroy has called one interpreter and calls the next.
CallsAnother(r, s) ==
  /\ r.op = "destroy" /\ r.step \in {"ok", "thrown"}
  /\ s.op = "destroy" /\ s.step = "call"
  /\ \E b \in r.left : s.left = r.left \ {b}

Onwards(r, s) ==
  \/ s = r
  \/ s = NONE
  \/ r = NONE /\ s \in Tasks /\ WellFormed(s)
  \/ /\ r \in Tasks /\ s \in Tasks
     /\ Answered(r, s) \/ GoesOnToRun(r, s) \/ CallsAnother(r, s)

\* The way of one task is a descent that ends.
LEMMA OnwardsIsDown ==
  ASSUME NEW r, NEW s, WellFormed(r), r \in Tasks \/ r = NONE, Onwards(r, s)
  PROVE  /\ WellFormed(s)
         /\ r # NONE /\ s # r => s = NONE \/ Remaining(s) < Remaining(r)
  <1>1. CASE s = r \/ s = NONE
    BY <1>1 DEF WellFormed
  <1>2. CASE r = NONE /\ s \in Tasks /\ WellFormed(s)
    BY <1>2
  <1>3. ASSUME r \in Tasks, s \in Tasks,
               Answered(r, s) \/ GoesOnToRun(r, s) \/ CallsAnother(r, s)
        PROVE  WellFormed(s) /\ Remaining(s) < Remaining(r)
    <2>0. /\ IsFiniteSet(r.left) /\ Cardinality(r.left) \in Nat
          /\ r.op = "destroy" => r.step \in {"call", "ok", "thrown"}
          /\ r.step \in {"probe", "call", "ok", "refused", "thrown"}
          /\ s.step \in {"probe", "call", "ok", "refused", "thrown"}
      BY <1>3, FS_CardinalityType DEF WellFormed, Tasks
    <2>1. CASE Answered(r, s)
      <3>1. AfterCall(s) = AfterCall(r) /\ AfterCall(r) \in Nat
        BY <2>0, <2>1 DEF Answered, AfterCall
      <3>2. InCall[s.step] < InCall[r.step] /\ InCall[s.step] \in Nat /\ InCall[r.step] \in Nat
        BY <2>0, <2>1 DEF Answered, InCall
      <3>3. s.op = "destroy" => s.step \in {"call", "ok", "thrown"}
        BY <2>0, <2>1 DEF Answered, InCall
      <3>. QED
        BY <2>0, <2>1, <3>1, <3>2, <3>3 DEF Answered, WellFormed, Remaining
    <2>2. CASE GoesOnToRun(r, s)
      <3>1. Remaining(r) = 5 /\ Remaining(s) = 3
        BY <2>2 DEF GoesOnToRun, Remaining, AfterCall, InCall
      <3>. QED
        BY <2>0, <2>2, <3>1 DEF GoesOnToRun, WellFormed
    <2>3. CASE CallsAnother(r, s)
      <3>1. PICK b \in r.left : s.left = r.left \ {b}
        BY <2>3 DEF CallsAnother
      <3>2. IsFiniteSet(s.left) /\ Cardinality(s.left) = Cardinality(r.left) - 1
        <4>0. IsFiniteSet(r.left)
          BY <2>0
        <4>1. /\ IsFiniteSet(r.left \ {b})
              /\ Cardinality(r.left \ {b}) =
                   IF b \in r.left THEN Cardinality(r.left) - 1 ELSE Cardinality(r.left)
          BY <4>0, FS_RemoveElement
        <4>. QED
          BY <3>1, <4>1
      <3>3. /\ Remaining(s) = 3 * Cardinality(s.left) + 3
            /\ Remaining(r) \in {3 * Cardinality(r.left) + 2, 3 * Cardinality(r.left) + 1}
        BY <2>3 DEF CallsAnother, Remaining, AfterCall, InCall
      <3>. QED
        BY <2>0, <2>3, <3>2, <3>3 DEF CallsAnother, WellFormed
    <2>. QED
      BY <1>3, <2>1, <2>2, <2>3
  <1>. QED
    BY <1>1, <1>2, <1>3 DEF Onwards

(***************************************************************************)
(* Every step takes every task onwards, and the steps of the operations    *)
(* themselves take one on that is under way.                               *)
(***************************************************************************)
Brings(t) == (\A u \in Threads : Onwards(task[u], task'[u])) /\ Moves(t)

LEMMA OneTaskContinues ==
  ASSUME Typed, NEW t \in Threads, NEW x, Continue(t, x), Onwards(task[t], x)
  PROVE  /\ \A u \in Threads : Onwards(task[u], task'[u])
         /\ task[t] # NONE /\ x # task[t] => Brings(t)
  <1>1. task'[t] = x /\ \A u \in Threads \ {t} : task'[u] = task[u]
    BY DEF Continue, Typed
  <1>2. \A u \in Threads : Onwards(task[u], task'[u])
    BY <1>1 DEF Onwards
  <1>. QED
    BY <1>1, <1>2 DEF Brings, Moves

LEMMA OneTaskReturns ==
  ASSUME Typed, NEW t \in Threads, Return(t), task[t] # NONE
  PROVE  Brings(t)
  BY OneTaskContinues DEF Return, Onwards

\* Of a record only the step is written.
LEMMA StepIsWritten ==
  ASSUME NEW r \in Tasks, NEW step \in {"call", "ok", "refused", "thrown"}
  PROVE  LET s == [r EXCEPT !.step = step]
         IN  s \in Tasks /\ s.op = r.op /\ s.left = r.left /\ s.step = step
  BY DEF Tasks

LEMMA OneTaskIsAnswered ==
  ASSUME Typed, NEW t \in Threads, NEW step \in {"ok", "refused", "thrown"},
         Answer(t, step), task[t] # NONE,
         task[t].step = "call" \/ (task[t].step \in {"ok", "refused"} /\ step = "thrown"),
         task[t].op = "destroy" => step # "refused"
  PROVE  Brings(t)
  <1> DEFINE r == task[t]
             s == [r EXCEPT !.step = step]
  <1>1. r \in Tasks /\ task' = [task EXCEPT ![t] = s]
    BY DEF Typed, Answer
  <1>2. s \in Tasks /\ s.op = r.op /\ s.left = r.left /\ s.step = step
    <2>. HIDE DEF r
    <2>1. r \in Tasks /\ step \in {"call", "ok", "refused", "thrown"}
      BY <1>1
    <2>. QED
      BY <2>1, StepIsWritten
  <1>3. InCall[s.step] < InCall[r.step]
    BY <1>2 DEF InCall
  <1>4. Onwards(r, s) /\ s # r
    <2>. HIDE DEF r, s
    <2>1. Answered(r, s)
      BY <1>2, <1>3 DEF Answered, r
    <2>2. s.step # r.step
      BY <1>1, <1>2, <1>3 DEF r
    <2>. QED
      BY <1>1, <1>2, <2>1, <2>2 DEF Onwards
  <1>. QED
    BY <1>1, <1>4, OneTaskContinues DEF Continue

\* The bindings of a finite registry are finitely many.
LEMMA BindingsAreFinite ==
  ASSUME Finite
  PROVE  IsFiniteSet({registry[c] : c \in Registered})
  <1> DEFINE T == {registry[c] : c \in Registered}
             f == [c \in Registered |-> registry[c]]
  <1>1. f \in Surjection(Registered, T)
    BY DEF Surjection
  <1>. QED
    BY <1>1, FS_Surjection DEF Finite

\* A destroy calls the next interpreter of its list, or wipes and ends.
LEMMA NextIsCalled ==
  ASSUME Typed, NEW t \in Threads, NEW left \in SUBSET Bindings, CallNext(t, left),
         IsFiniteSet(left),
         \/ task[t] = NONE
         \/ /\ task[t].op = "destroy" /\ task[t].step \in {"ok", "thrown"}
            /\ left = task[t].left
  PROVE  /\ \A u \in Threads : Onwards(task[u], task'[u])
         /\ task[t] # NONE => Brings(t)
  <1>1. CASE left = {}
    <2>1. Return(t)
      BY <1>1 DEF CallNext, Wipe
    <2>. QED
      BY <2>1, OneTaskContinues DEF Return, Onwards
  <1>2. CASE left # {}
    <2>1. PICK b \in left : Continue(t, Task("destroy", "call", NONE, b, left \ {b}))
      BY <1>2 DEF CallNext
    <2> DEFINE s == Task("destroy", "call", NONE, b, left \ {b})
    <2>2. /\ s \in Tasks /\ s.op = "destroy" /\ s.step = "call" /\ s.left = left \ {b}
          /\ IsFiniteSet(s.left)
      BY FS_RemoveElement DEF Task, Tasks
    <2> HIDE DEF s
    <2>3. task[t] = NONE \/ task[t] \in Tasks
      BY DEF Typed
    <2>4. task[t] # NONE => CallsAnother(task[t], s) /\ s # task[t]
      BY <2>2 DEF CallsAnother
    <2>5. Onwards(task[t], s)
      BY <2>2, <2>3, <2>4 DEF Onwards, WellFormed
    <2>. QED
      BY <2>1, <2>4, <2>5, OneTaskContinues DEF s
  <1>. QED
    BY <1>1, <1>2

\* A request begins with no binding left to destroy.
LEMMA RequestBegins ==
  ASSUME Typed, task["request"] = NONE,
         NEW op \in {"create", "default", "run", "delete"},
         NEW step \in {"probe", "call"}, NEW c \in Contexts \cup {NONE}, NEW b \in Bindings,
         Continue("request", Task(op, step, c, b, {}))
  PROVE  \A u \in Threads : Onwards(task[u], task'[u])
  <1> DEFINE s == Task(op, step, c, b, {})
  <1>1. s \in Tasks /\ s.op # "destroy" /\ s.left = {}
    BY DEF Task, Tasks
  <1>2. Onwards(task["request"], s)
    BY <1>1, FS_EmptySet DEF Onwards, WellFormed
  <1>. QED
    BY <1>2, OneTaskContinues

LEMMA StepsBringTasksOn ==
  ASSUME FInv, Steps
  PROVE  \E t \in Threads : Brings(t)
  <1>0. Typed /\ \A t \in Threads : task[t] # NONE => task[t] \in Tasks
    BY DEF FInv, CInv, DInv, Typed
  <1>1. CASE Probed
    <2> DEFINE To(c) == [task["request"] EXCEPT !.step = "call", !.context = c]
    <2>0. \E c \in Contexts \ minted : minted' = minted \cup {c} /\ Continue("request", To(c))
      BY <1>1, Zenon DEF Probed
    <2>1. PICK c \in Contexts \ minted : Continue("request", To(c))
      <3>. HIDE DEF To
      <3>. QED
        BY <2>0
    <2> DEFINE r == task["request"]
               s == To(c)
    <2>2. r # NONE /\ r \in Tasks /\ r.op \in {"create", "default"} /\ r.step = "probe"
      BY <1>0, <1>1 DEF Probed, Creating, At
    <2>3. s \in Tasks /\ s.op = r.op /\ s.left = r.left /\ s.step = "call"
      BY <2>2 DEF Tasks
    <2>4. Answered(r, s) /\ s # r
      <3>. HIDE DEF r, s
      <3>. QED
        BY <2>2, <2>3 DEF Answered, InCall
    <2>5. Onwards(r, s)
      BY <2>2, <2>3, <2>4 DEF Onwards
    <2>. QED
      BY <1>0, <2>1, <2>2, <2>4, <2>5, OneTaskContinues DEF Continue
  <1>2. CASE SaveCreated
    <2> DEFINE r == task["request"]
               s == [r EXCEPT !.op = "run", !.step = "call"]
    <2>1. r # NONE /\ r \in Tasks /\ r.op \in {"create", "default"} /\ r.step = "ok"
      BY <1>0, <1>2 DEF SaveCreated, Creating, At
    <2>2. CASE Return("request")
      BY <1>0, <2>1, <2>2, OneTaskReturns
    <2>3. CASE r.op # "create" /\ Continue("request", s)
      <3>1. s \in Tasks /\ s.op = "run" /\ s.left = r.left /\ s.step = "call"
        BY <2>1 DEF Tasks
      <3>2. GoesOnToRun(r, s) /\ s # r
        BY <2>1, <2>3, <3>1 DEF GoesOnToRun
      <3>3. Onwards(r, s)
        BY <2>1, <3>1, <3>2 DEF Onwards
      <3>. QED
        BY <1>0, <2>1, <2>3, <3>2, <3>3, OneTaskContinues
    <2>. QED
      BY <1>2, <2>1, <2>2, <2>3 DEF SaveCreated
  <1>3. CASE ProbeFails \/ CreateFails \/ SaveRun \/ DropMissing \/ RunFails \/ FinishDelete
    <2>1. task["request"] # NONE /\ Return("request")
      BY <1>3 DEF ProbeFails, CreateFails, SaveRun, DropMissing, RunFails, FinishDelete,
                  Creating, At
    <2>. QED
      BY <1>0, <2>1, OneTaskReturns
  <1>4. CASE HostCreate \/ HostRun \/ HostDelete
    <2>1. /\ task["request"] # NONE /\ task["request"].step = "call"
          /\ task["request"].op # "destroy"
      BY <1>4 DEF HostCreate, HostRun, HostDelete, Creating, At
    <2>2. \E step \in {"ok", "refused"} : Answer("request", step)
      BY <1>4 DEF HostCreate, HostRun, HostDelete
    <2>. QED
      BY <1>0, <2>1, <2>2, OneTaskIsAnswered
  <1>5. ASSUME NEW t \in Threads, ContinueDestroy(t) PROVE Brings(t)
    <2>1. /\ task[t] # NONE /\ task[t].op = "destroy" /\ task[t].step \in {"ok", "thrown"}
          /\ CallNext(t, task[t].left)
      BY <1>5 DEF ContinueDestroy, At
    <2>2. task[t].left \in SUBSET Bindings /\ IsFiniteSet(task[t].left)
      BY <1>0, <2>1 DEF FInv, TasksAreWellFormed, WellFormed, Tasks
    <2>. QED
      BY <1>0, <2>1, <2>2, NextIsCalled
  <1>6. ASSUME NEW t \in Threads, HostDestroy(t) PROVE Brings(t)
    BY <1>0, <1>6, OneTaskIsAnswered DEF HostDestroy, At
  <1>. QED
    BY <1>1, <1>2, <1>3, <1>4, <1>5, <1>6 DEF Steps

LEMMA TasksGoOnwards ==
  ASSUME FInv, [Next]_vars
  PROVE  \A t \in Threads : Onwards(task[t], task'[t])
  <1>0. Typed /\ Finite /\ \A t \in Threads : task[t] # NONE => task[t] \in Tasks
    BY DEF FInv, CInv, DInv, Typed
  <1>1. CASE Steps
    BY <1>1, StepsBringTasksOn DEF Brings
  <1>2. ASSUME NEW b \in Bindings, CreateContext(b) \/ ExecuteDefault(b)
        PROVE  \A t \in Threads : Onwards(task[t], task'[t])
    BY <1>0, <1>2, RequestBegins DEF CreateContext, ExecuteDefault, Begin
  <1>3. ASSUME NEW c \in Contexts, Execute(c) \/ DeleteContext(c)
        PROVE  \A t \in Threads : Onwards(task[t], task'[t])
    <2>1. registry[c] \in Bindings
      BY <1>0, <1>3 DEF Execute, DeleteContext, Registered, Typed
    <2>. QED
      BY <1>0, <1>3, <2>1, RequestBegins DEF Execute, DeleteContext, Begin
  <1>4. CASE DestroySandbox \/ AlarmFires
    <2>1. PICK t \in Threads : task[t] = NONE /\ StartDestroy(t)
      BY <1>4 DEF DestroySandbox, AlarmFires, Begin
    <2> DEFINE left == {registry[c] : c \in Registered}
    <2>2. left \in SUBSET Bindings /\ IsFiniteSet(left) /\ CallNext(t, left)
      BY <1>0, <2>1, BindingsAreFinite DEF StartDestroy, Registered, Typed
    <2>. QED
      <3>. HIDE DEF left
      <3>. QED
        BY <1>0, <2>1, <2>2, NextIsCalled
  <1>5. ASSUME NEW t \in Threads, CallThrows(t)
        PROVE  \A u \in Threads : Onwards(task[u], task'[u])
    BY <1>0, <1>5, OneTaskIsAnswered DEF CallThrows, Brings
  <1>6. CASE Crash
    BY <1>6 DEF Crash, Onwards
  <1>7. CASE (\E b \in Bindings : InterpreterExpires(b)) \/ UNCHANGED vars
    BY <1>7 DEF InterpreterExpires, vars, Onwards
  <1>. QED
    BY <1>1, <1>2, <1>3, <1>4, <1>5, <1>6, <1>7 DEF Next, Requests, Environment

LEMMA WellFormedInvariant == FInv /\ [Next]_vars => FInv'
  <1> SUFFICES ASSUME FInv, [Next]_vars PROVE FInv'
    OBVIOUS
  <1>1. CInv'
    BY CapsInvariant DEF FInv
  <1>2. ASSUME NEW t \in Threads PROVE WellFormed(task'[t])
    <2>1. /\ Onwards(task[t], task'[t]) /\ WellFormed(task[t])
          /\ task[t] \in Tasks \/ task[t] = NONE
      BY TasksGoOnwards DEF FInv, TasksAreWellFormed, CInv, DInv, Typed
    <2>. QED
      BY <2>1, OnwardsIsDown
  <1>. QED
    BY <1>1, <1>2 DEF FInv, TasksAreWellFormed

(***************************************************************************)
(* Whatever is under way on either thread only comes nearer its end,       *)
(* whichever calls fail and however requests and the alarm interleave: no  *)
(* step makes a destroy call an interpreter twice, starts a call again or  *)
(* adds a binding to the list; and each step of an operation brings one    *)
(* on.  So the promise chain is never kept for ever by what is on it.      *)
(***************************************************************************)
THEOREM OperationsComeToAnEnd == Spec => [][TasksComeNearer]_vars
  <1>1. Init => FInv
    <2>1. Init => TasksAreWellFormed
      BY DEF Init, TasksAreWellFormed, WellFormed
    <2>. QED
      BY <2>1, InitCaps DEF FInv
  <1>2. FInv /\ [Next]_vars => [TasksComeNearer]_vars
    <2> SUFFICES ASSUME FInv, [Next]_vars PROVE TasksComeNearer
      OBVIOUS
    <2>1. ASSUME NEW t \in Threads, Moves(t) PROVE ComesNearer(t)
      <3>1. /\ Onwards(task[t], task'[t]) /\ WellFormed(task[t])
            /\ task[t] \in Tasks \/ task[t] = NONE
        BY TasksGoOnwards DEF FInv, TasksAreWellFormed, CInv, DInv, Typed
      <3>. QED
        BY <2>1, <3>1, OnwardsIsDown DEF Moves, ComesNearer
    <2>2. Steps => \E t \in Threads : Moves(t)
      BY StepsBringTasksOn DEF Brings
    <2>. QED
      BY <2>1, <2>2 DEF TasksComeNearer
  <1>. QED
    BY <1>1, <1>2, WellFormedInvariant, PTL DEF Spec

================================================================================
