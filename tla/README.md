# A TLA+ model of sandbox-workers

sandbox-workers runs untrusted Python, JavaScript, Perl and Ruby on Cloudflare
Workers.  A caller owns a `Sandbox` Durable Object per sandbox; each language is
a runtime Worker with an `Interpreter` Durable Object that runs WebAssembly
builds of the language.  This directory holds TLA+ models of the parts of that
system whose correctness depends on the order of events, the TLC runs that check
them and TLAPS proofs about them.

## 1. Inventory

| Component | State | Operations | Hard behaviour | What makes it correct |
|---|---|---|---|---|
| Idle expiry policy, `packages/core/src/idle-alarm.ts`, in both objects | the platform's alarm, `alarmAt` (its cache), `meta.lastUsed` | `touch`, `onAlarm`, `reset` | throttled re-arming, a handler that is not queued and awaits remote calls, evictions that lose the cache | never decides early, always wipes in the end, the cache never lies |
| Memory snapshots, `packages/interpreter/src/snapshot.ts` | none (pure) | `hashMemory`, `diffPages`, `chunksToWrite`, `readChunk` | incremental writes, a partial last chunk, pages that return to zero | applying a diff equals writing everything |
| Interpreter object, `packages/interpreter/src/server.ts` | tables `meta`, `contexts`, `chunks`; one resident instance with its diffing state; the workspace mirror; the promise chain | create and delete a context, execute, destroy, alarm | one resident slot shared by contexts, evictions, deployments of another engine build, a hook that changes a memory as it is restored, failures half way, an alarm in the middle of an execution | a context continues from its live, its last stored or a fresh memory and nothing else |
| Workspace tree, `packages/core/src/workspace.ts` | a tree of inodes | write, mkdir, delete, rename, applySync, changes, manifest, load | a path that changes its type, limits, partial effects | stays a tree; `applySync` gives the tree described |
| Workspace persistence and mirror, `sandbox.ts` with `server.ts` | tree and `files` table; `changesSince`, `persistedDirs`; a mirror per interpreter; the call in flight | file operations, execute with manifest, `getFiles` pull, response diff | evictions on both sides, lost answers, failing transactions | acknowledged files are durable; guests see exactly the workspace |
| WASI host, `packages/interpreter/src/wasi.ts`, and the file classes of `workspace.ts` | open descriptors, the mounted tree, file buffers | guest opens, reads, writes, renames and unlinks; the File API switch; roll-back | in-place writes into buffers others hold, a descriptor that outlives its file's name, a switch set per call under a resident instance | a script starts from the sandbox's files and what is stored is what it left |
| Sandbox registry and lifecycle, `packages/core/src/sandbox.ts`, `interpreter-client.ts` | table `contexts`, the promise chain, the alarm | create, default context, execute, delete, destroy, alarm | every await is a remote call that may fail; `alarm()` runs beside requests | caps hold, deleted stays deleted, acknowledged stays registered, requests end |
| SDK client, protocol and errors (`client.ts`, `protocol.ts`, `errors.ts`, `durable.ts`), gateway `src/index.ts`, `worker.ts` | calls in flight, the sandbox's queue and variables | `runCode` and `setEnvVars` by every route, timeouts and aborts | a hop fails before or after the run, an error crosses two objects and a fetch, a caller leaves while the sandbox goes on | what the caller is told is what happened |
| JavaScript engine, `packages/javascript/src` | the Wasm instance: fuel and interrupt words, captures, job queue | boot, restore, execute, snapshot; the source transformation | traps, fuel in guest memory, continuations of earlier scripts, hoisted awaits | an execution starts clean; what is stored is at rest |
| Python, Perl and Ruby engines | the Wasm instance, its working directory | boot, restore, execute | a directory that a roll-back or the File API removes | a script starts where its context says |
| Playground page, `ui/main.js` | editor, drafts, modes, history; sessions, logs, panes; workspace list and view | run, switch language or mode, New session, Reset, file requests | answers in any order after any clicks | the page shows what belongs to the language and session shown |
| Build tooling, CLI, scripts, templates, examples, docs | none shared | | | not modelled |

The caller's requests reach `Sandbox.fetch`, which serialises them on a promise
chain.  An execution calls `executeInContext` of an interpreter with a manifest
of `/workspace`; the interpreter reconciles its mirror, calls back `getFiles` at
most once, runs the guest synchronously, stores the context's memory and answers
with the changes to the workspace, which the sandbox applies and persists.  The
alarm handlers of both objects bypass their chains.  An execution without a
sandbox goes straight to a runtime Worker.  The Playground page talks to a
sandbox per language through the gateway.

## 2. Modules

| Module | Models | Code |
|---|---|---|
| `IdleAlarm` | the policy and either Durable Object that drives it (`owner`): begin and end of requests, `setEnvVars`, failing requests, DELETE and the alarm, whose `destroy()` ends at once or, for a sandbox with contexts, after awaiting its interpreters (`delivered`); eviction | `idle-alarm.ts`; `ensureSandboxMeta`, `touchAlarm`, `handleSetEnv`, `alarm`, `destroy` of `sandbox.ts`; `alarm`, `destroy` of `server.ts` |
| `LinearMemory` | hashing, diffing and chunking as operators on functions from pages to contents | `snapshot.ts`, restore in `ensureInstance`, writes in `persist` |
| `InterpreterSnapshots` | context rows, chunk rows, the resident instance, executions in two steps around the one await, restores with the driver's `afterRestore` hook for the builds that have one (`Hooked`), evictions, deployments, destruction | `server.ts`; `wasmify/embedded.ts`, the driver of `python` |
| `ContextMemory` | the abstract specification: one plain memory image per context and build, one live instance, and what of it saving does not see | what `InterpreterSnapshots` implements |
| `WorkspaceTree` | the tree as a function from existing paths to a content or `DIR`; operations with their preconditions; `applySync` in its fixed order; `load` | `workspace.ts` |
| `WorkspaceMirror` | tree, table, diffing state, mirrors and the call in flight | `persistWorkspace`, `handleFiles`, `handleExecute`; `executeInContextImpl`, `run` |
| `GuestFiles` | buffers, names and descriptors of one interpreter's mirror: what a guest does through paths and open descriptors, with the gates of the File API, reconciliation, roll-back, what is stored | `wasi.ts`; the inode classes, `serialize`, `restoreFrom`, `changes` of `workspace.ts`; `run`, `destroy` |
| `SandboxContexts` | the registry, the contexts each interpreter hosts, and two threads of control (requests, alarm) that advance from await to await | `sandbox.ts`, `interpreter-client.ts`, answering side of `server.ts` |
| `WireErrors` | error codes, bodies and classes, and how each hop turns one into the next | `errors.ts`, `errorBody` and `errnoErrorBody`, `parseJsonResponse` |
| `RunCode` | calls of the SDK from the send to the error or result the caller gets, over the SDK, the gateway or a Service Binding: the queue, validation, contexts, variables, the RPC, timeouts and aborts, crashes | `client.ts`, `fetch` and `handle*` of `sandbox.ts`, `worker.ts`, `src/index.ts`, `executeInContextImpl` |
| `JavaScriptSession` | a guest's fuel, interrupt words, captures and job queue over executions, traps, snapshots and restores, and the stateless engine beside it | `engine.mjs`, `prelude.mjs` |
| `ScriptTransform` | the source transformation as an algorithm on syntax trees, against the paths to the statements a script reaches | `transform.mjs` |
| `SessionDirectory` | where a guest is, what the context's row says and what exists, over executions, roll-backs and restores | `wasmify/embedded.ts`, the drivers of `python`, `perl`, `ruby`; `onCwdChange` and `run` of `server.ts` |
| `PlaygroundEditor` | the page's editor: modes, drafts, history, examples, languages, storage and reloads | `ui/main.js` |
| `PlaygroundSessions` | scripts, REPL lines and session details requested and answered, and what the page shows of them | `ui/main.js` |
| `PlaygroundWorkspace` | the Workspace tab: list, view and file requests against the sandboxes of the sessions, and lines of the prompt, whose runs change files and whose answers refresh the session's details | `ui/main.js` |
| `*_proofs` | theorems about the module before the underscore; `InterpreterSnapshots_proofs` also that it implements `ContextMemory`; `GuestFiles_proofs` also about `SessionDirectory`; `JavaScriptSession_proofs` also about `ScriptTransform`; `Page_proofs` about the three models of the page | |
| `MC*` | instances for TLC | |

Correspondence.  A variable stands for a field, table or element of the same
name where the code has one; the others are `running` (the `context` local of
`executeInContextImpl`, loaded before the await), `call` (the RPC in flight with
its phase), `task` (per thread, the operation and the await it stands at), and
in the page's modules the requests in flight (`asked`, `ops`, `runs`).
History, which decides no step of the code, are `touched`, `expiresAt`, `taken`,
`acked`, `deleted`, `undisturbed`, `behind`, the fields `limited` and `rewritten`
of the resident instance and `said` of a guest, and what each module names so;
`lifetime` is `meta.lifetime`, which the code writes and never reads either.
Each action is a handler, or the part of a handler between two awaits: Durable
Objects and the page run JavaScript in one thread, so nothing else interleaves.

Abstractions.
* A page, a file's content, an id and a build are model values.  Hashes are
  compared through `HashOf`, injective on contents (`HashAssumption`): the code
  uses 32-bit page hashes and relies on them not colliding for one page.
* A guest run is any change of memory (up to `PagesPerRun` of the pages in
  `GuestPages`), and any tree for the workspace, unless a run restricts changes of
  a path's type (`Retypes`).  `afterRestore` is such a change too, of pages in
  `HookPages`.  A run that raises is rolled back to the names there were, with any
  contents: `restoreFrom` puts back the buffers the guest may have written in
  place.  `GuestFiles` looks inside a run, at flat names.
* The awaits of `destroy()` are one in `IdleAlarm`, from the decision to the wipe;
  `SandboxContexts` has each of them.
* A script is what it does to the state: in `JavaScriptSession` the steps a guest
  may take until it ends, in `ScriptTransform` its tree of statements, in
  `PlaygroundEditor` one of a few texts.
* An interpreter handles calls one at a time and reconciles at the start of
  each, so a run that starts after its caller has given up has the effect of a
  run whose answer was lost (`RunCode` has it as a step of its own,
  `OrphanRuns`).

## 3. Runs

Every run takes two workers and less than three minutes.  Some check several
models, or one in several sizes, side by side: a behaviour is one of one of
them, a variable `part` or `size` says of which, and the variables of the others
keep their first values; nothing is composed that way, and nothing lost.

| Run | Question | Bounds |
|---|---|---|
| `idle_alarm` | Is a touched object armed for 0.9 to 1 TTL after its last touch, never given up before, always wiped later, although requests go on while its `destroy()` awaits?  Does TTL 0 disable everything? | a sandbox and an interpreter; TTL 10 (so the tenth is one tick) and 0, requests until time 26: two whole cycles of arming, lagging, re-arming in the handler and expiry |
| `snapshots` | Does the sum of incremental writes restore to what was snapshotted, and does the interpreter implement `ContextMemory`? | two contexts for one slot, two builds, one of them with a restore hook; memories of two and three pages in chunks of two, so that the last chunk is partial, memory grows and a chunk can vanish; one page changes per run, the first or the last (`GuestPages`), and a hook rewrites the first (`HookPages`), so that a rewritten page shares its chunk with others and is or is not written by a later run; the contexts are symmetric |
| `snapshots_faults` | Can any failure leave chunk rows without a record? | one context, two builds, one with a hook, every page open to guest and hook; failing boots and transactions, an alarm during the pull, one destruction |
| `workspace` | Is what was acknowledged durable, and does the guest see the workspace?  Does reconciliation repair any mirror, also one a failed run has written into? | size "deep": two names and paths of depth three, two contents, three entries (the limit is reached), evictions of both sides at each step; size "two": two interpreters, a path and its child changing types, failing transactions (after which the table is only known by what guests see), an alarm that destroys a mirror during a call |
| `guest_files` | Does a script start from the sandbox's files, whatever descriptors, roll-backs and the File API switch did before, and is what it left what is stored (`part` "files")?  Where does a script start ("directory")? | two names and one descriptor that outlives renames, removals and executions; two texts of sizes zero and one, two system calls an execution; evictions and destroys; two directories.  No action tells one text or directory from another, so each pair is symmetric |
| `contexts` | Do caps, deletion, hosting and completion survive the alarm at every await, failing calls, crashes and expiry? | three ids over a cap of two, two bindings, so that a destroy makes two calls |
| `calls` | Is what a caller is told what happened: not run, run once, refused for the reason given? | any two of nineteen kinds of request, by each route, with each fault of validation, or three that share the variables, at least one of which sets them; every hop fails before or after its effect, the caller leaves at any time, the objects crash |
| `sessions` | What do executions leave to each other in a guest (`part` "session")?  Does the transformation preserve what it must ("source")? | three executions with fuel for one step and one entry of output, one job at a time that no script awaits; all scripts of one or two statements that are three deep (`SmallNodes`, with their heights) |
| `page` | Does the page show only what belongs to the language and session shown, are all runs answered ("sessions")?  Does the editor keep its texts apart ("editor")? | two languages, two generations, two lines and a log of one row, so that rows are dropped under selection; editor: a language with and one without a REPL, histories of two |
| `page_files` | Are the workspace list and view those of the session, whatever files requests and lines change? | part "languages": two languages and three sessions over one file, New session; "files": one language, two sessions over two files, New session and Reset; "lines": two languages and two sessions over one file, New session, Reset and lines of the prompt; two requests in flight in each |

Two runs show the code departing from what the repository says of it:

| Run | What happens |
|---|---|
| `workspace_file_to_dir` | A run replaces file `/a` by a directory: the response has `/a` both in `dirs` and in `deleted`, and `applySync` creates it and removes it again with all its files. |
| `alarm_race` | A request answered while the alarm's `destroy()` waits for an interpreter is wiped when it resumes. |

### Departures

Twenty-three more departures came up while modelling.  Each is a definition at
the end of its module, which says what the repository says and which the code, as
modelled, violates: TLC refutes it when it is checked in place of the
properties of the module's instance.  They are kept out of the runs above; the
properties of those runs are what holds in spite of them.

* **`IdleIsEventuallyWiped`** of `IdleAlarm`,
  `packages/core/src/sandbox.ts:339`: ensureSandboxMeta saves the meta row
  before the handler runs and only a successful handler arms the alarm
  (touchAlarm, 569-581), so a sandbox whose requests all fail is kept for ever;
  src/scripts/template-readme.md:66 says "An idle sandbox is deleted
  automatically by your caller's own `Sandbox` Durable Object".
* **`BehindIsFlagged`** of `InterpreterSnapshots`,
  `packages/interpreter/src/server.ts:834`: `existing` is null when the round
  hit an ExecutionLimitError (line 791 sets `live` to null), so the record is
  not flagged; the comment at src/packages/interpreter/src/server.ts:826-831
  says "or this round's outcome was an ExecutionLimitError: ... restoring the
  on-disk snapshot later would replay an older memory image than what this
  execution produced. Flag it so the response's `context.snapshot.stale` is
  true".
* **`InFlightCannotWrite`** of `InterpreterSnapshots`,
  `packages/interpreter/src/server.ts:565`: alarm() is not enqueued and no code
  compares `lifetime`, so an execution awaiting getFiles when the alarm
  destroys the object then saves its context row and chunks;
  src/docs/sessions-design.md:211-212 says "`lifetime` is rotated on `DELETE`
  so in-flight work started before a destroy cannot write into the new
  session".
* **`AckedIsDurable`** of `WorkspaceMirror`,
  `packages/core/src/sandbox.ts:420`: persistWorkspace writes the new file's
  row and then executes DELETE for the same path as a removed directory;
  src/website/content/concepts/sandboxes.md:14 says files "survive across
  executions, redeploys, and Durable Object eviction or hibernation".
* **`EnteringReplSavesTheScript`** of `PlaygroundEditor`, `src/ui/main.js:436`:
  switchLanguage fills the REPL prompt without saving what the editor shows;
  from Ruby, which is shown as a script while userMode is "repl", the script of
  the editor is lost. src/ui/main.js:136-137 says "entering REPL saves the
  editor's current content here, and leaving REPL restores it".
* **`SubmittedLineIsLogged`** of `PlaygroundEditor`, `src/ui/main.js:977`:
  submitReplLine empties the prompt before runReplCell parses the environment
  variables and returns on invalid JSON (988-992), so the line is neither
  logged nor kept; src/README.md:149 says the prompt "submits each line against
  the default code context of a durable, per-browser Playground sandbox ...,
  appending its result to a scrolling log".
* **`ReplShowsThePrompt`** of `PlaygroundEditor`, `src/ui/main.js:653`: Before
  GET /languages is answered the mode button is not disabled and
  setMode("repl") lays the page out as a REPL while the stored script stays in
  the editor; src/ui/main.js:135-136 says "In REPL mode the editor shows the
  prompt (a snippet or the user's in-progress line), never this draft".
* **`StaleRequestsLeaveThePage`** of `PlaygroundSessions`,
  `src/ui/main.js:1080`: The code after the awaits of New session and Reset
  (1080-1085, 1106-1110) never compares the generation, so it draws an empty
  log and sets the status of whatever language is shown by then;
  src/ui/main.js:203-205 says "In-flight requests started before a bump must
  not touch shared UI (status/metrics/response/display) once it no longer
  matches".
* **`NewSessionDeletesTheSandbox`** of `PlaygroundWorkspace`,
  `src/ui/main.js:1065`: A DELETE that fails is swallowed and the id forgotten,
  and a file request of the old session that arrives later creates the sandbox
  again; src/docs/sdk-parity-design.md:344 says "\"New session\" deletes the
  sandbox".
* **`RollbackDiscardsWrites`** of `GuestFiles`,
  `packages/core/src/workspace.ts:651`: serialize() hands out the buffers
  fd_write sets in place, so restoreFrom puts back the bytes the failed
  execution has overwritten; src/packages/interpreter/src/server.ts:771-772
  says a guest-level error "discards this execution's workspace writes in
  place", and src/docs/sandbox-1-0-design.md:259-260 "A guest error already
  makes the interpreter roll its mirror back to the pre-run state". The next
  reconciliation repairs the mirror.
* **`DisabledRefusesWrites`** of `GuestFiles`,
  `packages/interpreter/src/wasi.ts:263`: Only path_open, fd_readdir and the
  path operations ask workspaceDisabled(); fd_read and fd_write of a descriptor
  opened before the File API was disabled are not wrapped.
  src/docs/sandbox-1-0-design.md:187-190 says the interpreter treats disabled
  "as an instruction to refuse every `/workspace` read, write, mkdir, delete,
  rename, and directory listing with `EACCES`, regardless of what its own
  mirror currently holds".
* **`WorkspaceWithinLimits`** of `GuestFiles`,
  `packages/core/src/workspace.ts:121`: Guest writes go through OpenFile, which
  checks no limit, and applySync/_putFile store what the response brings (716);
  src/packages/core/README.md:130-131 says "(1 MiB per file, 16 MiB per
  workspace, 4096 entries)".
* **`HttpStatusIsDescribed`** of `RunCode`, `packages/core/src/client.ts:457`:
  parseJsonResponse calls createErrorFromResponse(body) without the status when
  the body is JSON but no ErrorResponse, so httpStatus is 500;
  src/packages/core/src/errors.ts:267-269 says it maps "`body`'s
  absence/malformed shape to a generic `INTERNAL_ERROR` describing the HTTP
  status".
* **`NeverThrows`** of `JavaScriptSession`,
  `packages/javascript/src/engine.mjs:561`: A result above 64 KiB or one JSON
  cannot represent makes __sandboxSession.end throw; checkInterrupted turns
  that into a plain Error, which execute rethrows, the server answers
  EngineError and drops the session.
  src/packages/interpreter/src/engine.ts:91-92 says "`execute()` never throws
  for a guest-level error or a resource limit -- both come back as
  `outcome.error`".
* **`ErrorsKeepTheirLogs`** of `JavaScriptSession`,
  `packages/javascript/src/engine.mjs:547`: A script without top-level await
  that throws is answered with empty logs, since end() that collects them is
  not evaluated; src/website/content/api/interpreter.md:231 says "logs produced
  before the error are still returned".
* **`ResultIsOwn`** of `JavaScriptSession`,
  `packages/javascript/src/prelude.mjs:231`: The async body of an earlier
  execution that a later one resumes calls setResult after the later one did,
  so the later one is answered with its value;
  src/website/content/api/interpreter.md:251 says "`results` has at most one
  entry, chosen from the value of the last top-level expression".
* **`StartsInItsDirectory`** of `SessionDirectory`,
  `packages/python/src/engine.mjs:85`: createCodeContext only normalises cwd
  (src/packages/core/src/sandbox.ts:693-701) and a failing os.chdir is
  swallowed, so the script runs wherever the guest already is;
  src/website/content/stateful/code-contexts.md:92 says "`os.chdir(cwd)` runs
  before the body".
* **`CwdOutlivesTheScript`** of `SessionDirectory`,
  `packages/interpreter/src/server.ts:769`: The reported cwd is taken before
  the roll-back of a failed script (771-782) removes the directory it made, and
  is saved with the context;
  src/packages/interpreter/src/wasmify/embedded.ts:158-159 says "Persist the
  reported cwd only if it still resolves to a directory under /workspace".
* **`ReturnsAreIllegal`** of `ScriptTransform`,
  `packages/javascript/src/transform.mjs:276`: statementHasReturn has no case
  for a with statement, so `with (o) { return 1 }` is wrapped in a function and
  runs; src/packages/javascript/src/transform.mjs:32-37 says a top-level return
  is something "the SDK no longer allows" that is detected "so we can report a
  clear guest-side SyntaxError".
* **`ConsoleNamesPersist`** of `ScriptTransform`,
  `packages/javascript/src/transform.mjs:174`: Only the declarations of the
  script's own body are hoisted, so a var inside a block of a script that
  awaits is local to the async function;
  src/website/content/stateful/code-contexts.md:86 says "top-level `var`,
  `let`, `const`, `class`, and `function` declarations persist across
  executions exactly as in a browser console" and "A top-level `await` is
  hoisted the way Node's REPL does it, so values assigned that way persist
  too".
* **`WipedOnTime`** of `IdleAlarm`, `packages/core/src/sandbox.ts:586`:
  destroy() awaits each interpreter between the alarm's decision and deleteAll;
  a request that ends in between re-arms and is told a new expiresAt, and is
  wiped all the same. src/website/content/concepts/sandboxes.md:30 says "either
  side can go idle for as little as **0.9× its configured TTL** before
  expiring", src/docs/snapshot-cost-design.md:170-171 "`expiresAt` reports the
  armed deadline, so it is always exact".
* **`DiffAfterRestoreIsExact`** of `InterpreterSnapshots`,
  `packages/interpreter/src/server.ts:472`: The memory is hashed after the
  driver's afterRestore has run guest code in it
  (src/packages/interpreter/src/wasmify/embedded.ts:264; for Python a
  random.seed(), src/packages/python/src/engine.mjs:189-196), so the pages that
  code changed count as stored and are not written until something in their
  chunk changes: what is stored is then a mix of two memories.
  src/packages/interpreter/src/server.ts:469-471 says "The restored instance's
  memory isn't necessarily identical to what was stored (restore only replays
  non-zero pages) -- hash it once so the next diff is exact".
* **`OnlyWaitingIsUnsettled`** of `JavaScriptSession`,
  `packages/javascript/src/prelude.mjs:110`: An error whose name, message or
  stack String() throws on, in the catch block of execute, leaves the slot
  unset, and the stateless caller is told "a promise never settled", without
  its output. src/packages/javascript/src/prelude.mjs:92-93 says it "settles
  within the same js_eval call unless it awaits something that never resolves".

The models admit failures of storage and of an engine's boot as well (`Faults`).
Under a failing transaction `prevPageHashes`, `chunkIds`, `changesSince` and
`persistedDirs` are ahead of what is stored, and neither `ChunkIdsAreStored`,
`StoredImageIsLastSnapshot` nor `AckedIsDurable` holds until the object is
evicted (`TableIsExact` says so of `AckedIsDurable`: its history variable `intact`
is false from then on); under a boot that fails after the chunks of another build were dropped,
the record is left without its chunks.  The passing runs admit them only where
the property survives (`NoOrphanChunks`, and `GuestSeesTheWorkspace` in size "two").

Bounds named in the models: `Horizon` and `ClockLimit` (time), `MaxPages`,
`PagesPerRun`, `GuestPages`, `HookPages`, `MaxLifetimes`, `MAX_ENTRIES` and the
set `Paths` (a rename whose target leaves `Paths` is not taken), `MaxExecutions`,
`MaxEntries`, `Fuel` and one job at a time that nobody awaits (`Start`, in
`JavaScriptSession`), `Generations`, `Lines` and `MAX_CELLS` (the page, where
`MAX_CELLS` is the code's own limit), `MaxSessions` and `InFlight`
(`PlaygroundWorkspace`), `MaxContexts` and, in `MCRunCode`, `Bounded` (which
calls are made together).  The contexts are numbered by `minted`, so a random id
is used once.  `CHECK_DEADLOCK FALSE` is set where the system does stop: at the
end of time (`IdleAlarm`), with no lifetime, id, execution or generation left
(`InterpreterSnapshots`, `SandboxContexts`, `sessions`, `page`, `page_files`),
and when every call is settled (`calls`).

Properties.  Where several promises hold together they are named parts of one
property, which the run checks: `ShownIsCurrent`, for instance, is the
conjunction of `ResponseIsCurrent`, `PaneIsCurrent`, `PendingRowsArePending`,
`OutputIsFresh` and `StripIsCurrent`, each defined and explained in
`PlaygroundSessions`.

Mutants.  Operators marked `Mutant:` are plausible mistakes in one mapped
definition; substituted for it, each makes TLC refute a named part of the
properties.  PROJECT.json pairs each property with one of them.

## 4. Fairness

* `IdleAlarm`: time passes, a request that began ends, and the platform delivers
  a due alarm ("guaranteed at-least-once execution" of Durable Object alarms).  A
  handler cut short by a crash is delivered again, and not every one of them is:
  the end of a `destroy()` under way is strongly fair.  No request is obliged to
  arrive.
* `SandboxContexts`: steps of operations under way are taken; a remote call is
  answered or throws.  The steps are one set under one weak fairness condition,
  so nothing is assumed about the order of the two threads.
* `PlaygroundSessions`: every script and every line is answered or fails, since
  both requests carry `AbortSignal.timeout(15_000)`.  New session, Reset and the
  file requests have no deadline and no fairness.

The other specifications have none.  `RunCode` states in place of liveness that
nobody is stuck: in every state the head of the queue, and every call outside it
that waits, has a next step that the code can make, so a request that throws
never blocks the queue behind it (`NobodyIsStuck`; section 5 says why such steps
come to an end).

## 5. Proofs

Every theorem holds for all values of the constants that satisfy the named
assumptions of the module it is about.

| Module | Assumptions | Theorems |
|---|---|---|
| `IdleAlarm_proofs` | TTLs and the horizon are natural numbers; the owners are sandboxes or interpreters | `TypeCorrect`, `CacheCoherence`, `ArmedWindow`, `NoEarlyExpiry`, `DisabledIsForever` |
| `InterpreterSnapshots_proofs`, part one | chunks are not empty, page hashes do not collide, the boot memory is a memory | `TypeCorrect`, `NoOrphans`, whatever fails |
| `InterpreterSnapshots_proofs`, part two | those, and `Faults = {}` | `StoredIsLastSnapshot`, `ChunkIdsAreExact`, `ReportedCountIsExact`, `BehindIsKnown` |
| `InterpreterSnapshots_proofs`, part three | those, and `Faults = {}` | `Refinement` (`ImplementsContextMemory`) |
| `SandboxContexts_proofs` | the cap is a natural number | `TypeCorrect`, `CapsAlwaysHold`, `DeletionIsFinal`, `UndisturbedSidesAgree`, `AdmittedIsNotRefused`, `OperationsComeToAnEnd`, whatever fails |
| `WorkspaceMirror_proofs` | the paths are finitely many sequences of names closed under prefixes; `DIR` is no content; the entry limit is a natural number | `MirrorTypes`, `GuestRunsOnTheWorkspace`, `AckedWorkspaceIsStored`, whatever fails |
| | those, and no `"alarm"` in `Faults` | `OneRoundIsEnough`; without `"file to dir"` in `Retypes`, `DeliveryReachesTheGuestsTree` |
| | those, no `"storage"` in `Faults`, no `"dir to file"` in `Retypes` | `NothingIsLost` |
| `RunCode_proofs` | requests have one of the three shapes, there is room for a context | `RunCodeTypes`, `CallersAreToldTheTruth`, `ErrorsArriveAsReported`, `DefaultContextIsShared`, `ConfirmedEnvIsSeen`, `EveryPromiseIsFinal`, `WritingBackIsHarmless`, `NobodyIsForgotten`, `WhoWaitsCanGoOn`, `NoCallIsLedBack` |
| `JavaScriptSession_proofs`, part one | there is fuel, an execution, and a console limit that is a natural number | `BoundedExecutions`, `StoredAtRest`, `ExactAnswers` |
| `JavaScriptSession_proofs`, part two | syntax trees have a height, and scripts are sequences of them (`TreesAssumption`) | `TransformIsSound` |
| `GuestFiles_proofs`, part one | names and descriptors are finitely many, sizes and bounds are natural numbers | `MirrorStaysSound`, `StartsFromTheWorkspace`, `StoredIsLeft` |
| `GuestFiles_proofs`, part two | none; for every set of directories | `DirectoryTracked` |
| `Page_proofs`, part one | the languages are finitely many; there is a session id | `TabShowsTheSession`, `ListSettles` |
| `Page_proofs`, part two | every language has an example, the first one has a REPL, the history has room for a line | `EditorCoherence` |
| `Page_proofs`, part three | the languages are finitely many, generations, lines and log are bounded by natural numbers | `ShownBelongs` |

The constant `NONE` is assumed to differ from the values it stands beside.

*Idle alarm.*  `NeverEarly` looks at one step and `ArmedWithinWindow` compares
the alarm with the last touch; neither says why skipping a re-arming is safe.
The invariant adds it: `lastUsed` lags the last touch by at most a tenth of the
TTL (`LagBounded`), a reported deadline is no later than the one the owner is
armed for (`ReportedIsArmed`), an alarm still to come is no later than a TTL
after `lastUsed` (`ArmedForTheOwner`), `lastUsed` is never in the future
(`UsedInThePast`), and only an owner with a meta row, never one with expiry
disabled, has a cached deadline (`CacheIsOfAnOwner`).  While a handler awaits
interpreters the deadline it was delivered for stands in for the alarm
(`Pending`): it is past, and if another alarm is set a request has armed it
(`DeliveredIsPast`).  So the wipe at the end of a `destroy()` is of an owner idle
long enough unless a request has come between, which is what `NeverEarly` grants
and where the code departs from its documents (section 3, `WipedOnTime`).  The
interesting step is `touch`, a lemma with one case per branch of the code.
`DisabledIsForever` is about a deployment with expiry disabled over an object
that an earlier one armed: the step that could wipe it, the old alarm, clears
itself instead, and nothing arms another.

*Snapshots.*  The property compares what a restore gives with the memory last
snapshotted, but a write touches only the chunks whose pages differ from
`prevPageHashes`.  The invariant therefore speaks of the stored rows: the chunks
of a context are exactly `ChunkImage` of its base, the memory they give back or
nothing, and `prevPageHashes` and `chunkIds` of the resident describe that same
base (`SInv`).  Had restoring no hook, the base would be the memory last
snapshotted.  As it is, the hashes are taken after `afterRestore` has changed
pages that the rows have as they were, so hashes and base differ in the pages of
`rewritten`, and only there (`DiffsAgainst`); a write clears those of the chunks
it touches.  What is proved of the snapshot is what follows from that (`Describes`):
the same size, the same contents but for rewritten pages, and for a build without
the hook the same memory.  That a restore gives it exactly is what the code's
comment says and the code does not do (section 3, `DiffAfterRestoreIsExact`).  The lemmas of part zero carry the argument about data:
a chunk that the diff leaves alone is the same in both memories
(`UntouchedChunkIsUnchanged`, where injectivity of hashes is used), so writing
the difference on the image of a base gives the image of another that differs
from the new memory where the old ones did, in the chunks left alone
(`WritingGivesImage`, `WritingTracks`), and an image read back up to its page
count is the memory (`RestoringGivesMemory`).
Part two needs `Faults = {}`: a failing transaction leaves the diffing state of
the resident ahead of the stored base, and a failing boot or an alarm in the
middle of an execution drops chunks or rows under it (section 3).  `NoOrphans`
needs no such assumption; it is inductive once the row held across the await
is known to have come from the table when its chunks did (`TInv`).

*Refinement.*  `Refinement` maps the abstract image of a context to what a
the stored rows give back, and its unseen pages to the rewritten ones; `SInv`
then lets the steps be compared without chunks or hashes.  `EnsureRefines` is
the core: the three cases of `ensureInstance` are those of `Starts` and
`KeptImage` in `ContextMemory`.  The pull that fails and the start of an
execution are stutters.

*Contexts.*  Requests save rows they built before an await, so the caps and the
finality of deletion rest on what a request in progress may rely on: it was
admitted when its thread last looked and nothing since has added a row
(`Admitted`), its id is not a deleted one (`SaverIsAlive`), and a created id is
not registered yet (`CreatedIsNew`).  Requests are serialised and the alarm only
removes; the proof goes through every pair of a request's await and a step of
the alarm.  For histories without failure or overlap, `Agreement` says for each
await of each operation how the two tables differ at that moment.

That requests complete is a liveness property and stays with TLC, but what it
rests on besides fairness is proved: `OperationsComeToAnEnd`.  `Remaining` counts
the awaits an operation has before it, the calls a destroy has not made included,
which are finitely many because the registry is (`BindingsAreFinite`).  A task can
only be answered, go on to its run, or call one binding less (`Onwards`), each of
which lowers the count; a step of the alarm leaves the request's alone, and a
crash ends both.

*Workspace.*  Three layers.  The first is about data: `IsPrefix` orders paths, a
path's parent is the longest of its proper prefixes, and so in a function of
which only parents are known to be directories *every* prefix is one
(`AncestorsExist`).  That is an induction over the length of a path, which the
prover has no schema for; it is done by a least counterexample, from the
well-foundedness of `<` on numbers (`LeastNumber`).  The second layer says once
what each operator of the tree leaves, pointwise and as a named relation
(`IsCut`, `IsEnsured`, `IsPlaced`, `IsPruned`, `IsSynced`, `IsApplied`), and that
it is a tree; `RenameIsTree` covers a directory that moves below itself.  `Synced`
and `NothingMissingIsEqual` make of it that a mirror with the manifest's
directories from which no file is missing *is* the workspace, `PullingAllIsEnough`
that one pull fetches all that is missing, `Delivered` that directories, changed
files and deletions in this order give back the guest's tree unless a file became
a directory, and `PersistedIsTheTree` that the four statements of the transaction
write the tree unless a file has come where the table has a directory.  Those two
hypotheses are where the code departs (section 3), and they are needed nowhere
else.  The response to a run that raised carries the directories there were and
no files, so delivering it changes nothing in the sandbox although the mirror may
hold what the run wrote in place (`RunRaisesStep`; the next reconciliation finds
those files outdated).  The third layer is the invariant.  `GuestSeesTheWorkspace` is inductive
with the types alone, since reconciliation assumes nothing of the mirror; the
types need that the files of a response do not lie below one another
(`ResponseIsApart`), or `putFiles` would not leave a tree.  For the table, the
diffing state describes it and it holds the acknowledged tree row by row
(`TableIsAcked`), which is more than that it loads as that tree.  `NothingIsLost`
discharges the condition `intact`: the tree in memory only ever adds directories
to the table's rows (`Covers`, after a `mkdir -p` that the limit cut short), so no
file operation and, for such guests, no response puts a file in the place of a
stored directory.

*Calls.*  Each call carries through the hops what has been done to it: how often
it ran, what the host saw, what was answered.  The invariant says of each stage
of a call what can have happened by then (`Sound`, with one part for a promise
that is settled), that at most the first of the queue is being handled (`Queued`),
what the tables hold at that moment (`Tabled`), and how confirmed writes of the
variables, the value stored and what running calls have read follow one another
(`Ordered`).  `OneDefaultContext` and `EnvIsConfirmed` rest on `Queued` alone of
all that is concurrent, which is to say on the promise chain of the sandbox.
`WritingBackIsHarmless` is the reason: a handler that saves the row it loaded
writes the value that is there.

*Nobody waits for ever.*  `NobodyIsStuck` says that there is always somebody whose
next step depends on nobody else, and that the code can make that step.  The first
half, `NobodyIsLeftBehind`, follows from what the invariant says of the head of
the queue: its handler has been neither answered nor forgotten, whatever ended
the requests before it.  The second half is an ENABLED, which the prover does not
handle; `WhoWaitsCanGoOn` replaces it by a witness, an action `GoesOn` that gives
every variable its next value and is shown to be a step of the call.  That such
steps lead somewhere is `NoCallIsLedBack`: the stages of a call are numbered along
its way (`Way`), its own steps go up and no other goes down.

*JavaScript executions.*  The properties speak of an execution that is over; what
makes them true is what holds while it runs.  The interrupt words are set only
when this execution's meter has run down, because its start clears those of the
last one (`Fuelled`); an instance with torn frames is `invalid` until it is gone,
so `Conclude` never stores it (`Rested`); both captures are empty or of this
execution (`Captures`); and in a script that is an async function, the body that
has not marked itself done awaits or is queued (`Pending`), so that `end`, which
is asked when the queue is empty, finds it waiting.  All of that needs a body to
be in one place, waiting or once in the queue (`Queued`), in the stored memory
too.  A stateless instance has only ever run one body, its own, and goes through
three stages (`Alone`, `Stages`): the body runs or waits and nothing is captured;
it has settled and `__sandbox.execute` is queued to continue; the slot is final,
with what was logged by then, or unset for good because the error cannot be
described.  A script that does not parse goes to the last stage at once
(`SyntaxErrorStep`), and jobs nobody awaits may log on, unheard, in any of them.
`GuestStep` and `GuestCapture` say once what any step of the guest's code does,
so that each part of the invariant looks at it in one case.

*Source transformation.*  The walks over a syntax tree and the paths they are
compared with are recursive functions, and to the prover a recursive function is
a choice among those that satisfy its equation: first it must be shown that there
is one.  `RecursionExists` does it once for any equation that looks only at what
lies inside a statement: functions that are right below one height give one for
the next (`BelowExists`), and together one for all.  No induction scheme is
available, here as for the paths of the workspace; a claim that fails for some
statement would fail for a lowest one (`LowestStatement`).  The content is
`OneStepDown`: a statement of a kind is found through another exactly when that
one is no function, and is of the kind or one inside it finds it; the walk for
awaits goes down the same way, and the search for a return goes nowhere else.

*Guest files.*  A heap is five things: the names, the open descriptors, where
file objects point, what buffers hold, and the buffers that a roll-back would put
back.  `Sound` says of five such things that everything reachable is there, that
no two names lead to one buffer (`Distinct`) and that none would after a roll-back
(`Apart`), which is where an overwrite in place could otherwise reach a second
file.  Each system call gives a new heap that is shown sound by itself; the action
`Objects` then drops what nothing reaches, and `Collected` says once that this
changes no content.  The identities of objects are numbers up to what can be
reachable at a time, so that TLC's space is finite; that a fresh one is always
left, and as many as a pull needs, is an argument about cardinalities
(`OneIsFree`, `SomeAreFree`).  The rest is what a call may rely on (`CallOK`): its
manifest is what the sandbox holds until it ends, nothing is pulled with the File
API off, and the tree that changes are computed against (`since`) is the manifest.
A byte that a failed execution overwrote in place does survive its roll-back
(section 3, `RollbackDiscardsWrites`), and the proof does not need that it is
undone: the next execution compares contents, finds the file outdated and fetches
it again.

*Working directory.*  `DirectoryIsTracked` is almost inductive: its parts speak
of the ends of a script, and what is missing is that a script which ended well,
or with an error, has left session and row agreeing *before* its end is concluded
(`AgreedAtTheEnd`).

*Workspace tab.*  The list of a settled tab is exact because every change of the
files is followed by a load: a write or delete of the sandbox shown that is done
on the server stays a request in flight until its answer starts one
(`Reloads`), and so does a line of the prompt, whose answer asks for the session's
details, whose answer in turn starts the load.  Whenever the list differs from
the files there is one of those, or the load itself, or the tab has yet to be
opened; every path that is listed or missing is accounted for by one of them
(`Accounted`).  A step that changes nothing of this keeps all that is on its way
on its way (`Awaits`), and what is on its way is of a session that no other
language has (`Left`).  That answers
are told apart by session id alone suffices because an id belongs to one
language for good (`Fits`).

*Editor.*  What is stored must be a script although the same element holds the
prompt.  The invariant says where the script is at each moment: in the editor,
an example being loaded included, unless the prompt is shown, and then in
`scriptDraft` (`ELayout`); what the history keys put away and bring back is
related to the log's lines, which are texts of the prompt (`EBrowsing`).

*Sessions of the page.*  Answers are compared with the ids on the page, and all
rests on an id never being used twice.  The model draws ids from a finite set, so
the proof must show that one is left: ids given out, languages still without one
and New sessions in flight are together at most the languages and the
generations so far (`SBound`, an argument about cardinalities).  The rest says
where each thing on the page comes from: a line is of the language that has its
session (`Owned`); a row that reads "evaluating" and is of this generation is of
the session shown and its line still waits (`RowIsFresh`); a pane of another
session is empty (`SPane`); unless one request overtook another, at most one is
asked and it is about the session shown (`SAsked`); and a script that was crossed
by a change of language is of an earlier generation (`SRuns`).

Only model-checked: the liveness properties (`TouchedIsEventuallyWiped`,
`RequestsComplete`, `EverythingIsAnswered`), since the prover does not handle
fairness; the ENABLED half of `NobodyIsStuck` as it is written, for which
`WhoWaitsCanGoOn` stands; and `SyncConverges`, which is `OneRoundIsEnough` and
`DeliveryReachesTheGuestsTree` for the run's larger size.

## 6. Plan

1. `Expiry`: the idle policies of a sandbox and its interpreters against one
   clock.  File operations touch only the sandbox, so an interpreter can expire
   first; a context whose remote deletion failed lives while another is in use
   ("the interpreter forgets this context on its own idle expiry" holds of the
   interpreter, not of the context); the TTL may differ between deployments.
2. `ensureSchema`: format upgrades that wipe storage under `blockConcurrencyWhile`.
3. `SandboxContexts` over lifetimes: requests and `setEnvVars` that save a row
   they loaded before the alarm wiped it.
4. `GuestFiles` with directories, joined to `WorkspaceMirror`.
5. Proofs: the caps and deletions of `SandboxContexts` over lifetimes, and
   `Expiry`, once they are modelled.

## 7. Not modelled, and why

* Validation of request fields, path normalisation, module resolution,
  `parseIdleTtlMs`: pure functions with unit tests; a refused request is one
  outcome (`Refuse`).
* Formatting of console output and values, the `fs` functions of the JavaScript
  prelude, mode bits, clocks and random numbers of the WASI host: no state that
  several steps share.
* The page's layout, themes, output tabs, lint of environment variables and
  lists of examples.
* The build tooling (`wasmify`), test doubles, CLI, template and package scripts,
  templates and examples: no state shared with a running sandbox.
* The engines' Wasm code and the platform (alarms, SQLite transactions, RPC, the
  WASI shim) appear as external definitions, as the code uses them.
