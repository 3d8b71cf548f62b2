---------------------------- MODULE PlaygroundWorkspace ----------------------------
(***************************************************************************)
(* The Workspace tab of the playground page (ui/main.js): it lists the     *)
(* files of the current session's sandbox, opens one in a view with Save   *)
(* and Delete, and creates files.  Each of these is a request to the       *)
(* sandbox; answers come back in any order, or fail, while the user        *)
(* changes tab, mode, language and session.  A line entered at the prompt  *)
(* changes files too, and its answer asks for the session's status, which  *)
(* lists the files again.  The tab exists only where the sandbox's File    *)
(* API is enabled, which the page learns from the status.                  *)
(***************************************************************************)
EXTENDS Integers, FiniteSets

CONSTANTS
  Languages,
  First,        \* the language the page opens in
  Paths, Contents,
  MaxSessions,  \* bound on the session ids generated
  InFlight,     \* bound on the requests on their way when the user clicks
  NONE          \* null

Sids == 1..MaxSessions

VARIABLES
  language, repl,   \* repl: the REPL layout is shown
  sessionIds, minted,
  tab,           \* "workspace" or "result", which stands for the three others
  hidden,        \* the Workspace tab is not offered
  panel,         \* the workspace panel in the page, NONE when it is not there
  openPath,      \* workspaceOpenPath
  fileApi,       \* sessionFileApi, TRUE where not known
  infos,         \* status requests on their way
  ops,           \* file requests on their way
  asked,         \* New session, Reset and lines of the prompt on their way
  files,         \* the server: the files of each sandbox, NONE where there is none
  enabled,       \* the server: SANDBOX_FILE_API
  behind         \* history: a listing was asked for while another was on its way,
                 \* or an answer got lost or came too late to be looked at

user == <<language, repl, sessionIds, minted>>
tabs == <<tab, hidden, fileApi, infos>>
vars == <<user, tabs, panel, openPath, ops, asked, files, enabled, behind>>

sessionId == sessionIds[language]
NoFiles == [p \in Paths |-> NONE]

Init ==
  /\ language = First /\ repl = TRUE
  /\ sessionIds = [l \in Languages |-> IF l = First THEN 1 ELSE 0] /\ minted = 1
  /\ tab = "result" /\ hidden = FALSE /\ panel = NONE /\ openPath = NONE
  /\ fileApi = [s \in Sids |-> TRUE] /\ infos = {[lang |-> First, sid |-> 1]}
  /\ ops = {} /\ asked = {}
  /\ files = [s \in Sids |-> NONE] /\ enabled \in BOOLEAN /\ behind = FALSE

--------------------------------------------------------------------------------
\* Mutant: an id that is in use.
usedSessionId == minted
newSessionId == minted + 1

\* here: the panel the request was made from is still in the page.
Op(op, path, text) ==
  [op |-> op, lang |-> language', sid |-> sessionIds'[language'], path |-> path, text |-> text,
   here |-> TRUE, phase |-> "sent", result |-> NONE]

\* The user has moved on: the answers to the lines come too late.
Outdated(as) == {IF a.op = "line" THEN [a EXCEPT !.fresh = FALSE] ELSE a : a \in as}

Detached(os) == {[o EXCEPT !.here = FALSE] : o \in os}

\* The list says "Loading..." until the answer comes.
loadWorkspace(p, os) ==
  /\ panel' = [p EXCEPT !.list = NONE]
  /\ ops' = os \cup {Op("list", NONE, NONE)}
  /\ behind' = ((behind /\ os # {}) \/ \E o \in os : o.op = "list")

\* An existing panel keeps its file view.
renderWorkspacePanel(p, os) ==
  loadWorkspace(IF p = NONE THEN [list |-> NONE, view |-> NONE] ELSE p, os)

\* Every other tab replaces the panel.
display(p, os) ==
  IF tab' = "workspace"
    THEN renderWorkspacePanel(p, os)
    ELSE panel' = NONE /\ ops' = Detached(os) /\ UNCHANGED behind

updateWorkspaceTabVisibility ==
  /\ hidden' = ~(repl' /\ fileApi'[sessionIds'[language']])
  /\ tab' = IF hidden' THEN "result" ELSE tab

refreshSessionInfo ==
  infos' = IF repl' THEN infos \cup {[lang |-> language', sid |-> sessionIds'[language']]} ELSE infos

--------------------------------------------------------------------------------
Room == Cardinality(ops) + Cardinality(infos) + Cardinality(asked) < InFlight

SelectTab(t) ==
  /\ Room
  /\ t = "workspace" => ~hidden
  /\ tab' = t
  /\ UNCHANGED <<user, hidden, fileApi, infos>>
  /\ display(panel, ops)
  /\ UNCHANGED <<openPath, asked, files, enabled>>

Refresh ==
  /\ Room
  /\ panel # NONE
  /\ UNCHANGED <<user, tabs>>
  /\ loadWorkspace(panel, ops)
  /\ UNCHANGED <<openPath, asked, files, enabled>>

setMode ==
  /\ Room
  /\ repl' = ~repl
  /\ UNCHANGED <<language, sessionIds, minted, fileApi>>
  /\ updateWorkspaceTabVisibility /\ refreshSessionInfo /\ display(panel, ops)
  /\ UNCHANGED <<openPath, asked, files, enabled>>

\* The output is emptied first, so the file view goes.  workspaceOpenPath stays.
switchLanguage(l) ==
  /\ Room
  /\ sessionIds[l] # 0 \/ minted < MaxSessions
  /\ language' = l
  /\ sessionIds' = IF sessionIds[l] = 0 THEN [sessionIds EXCEPT ![l] = newSessionId] ELSE sessionIds
  /\ minted' = IF sessionIds[l] = 0 THEN newSessionId ELSE minted
  /\ UNCHANGED <<repl, fileApi>>
  /\ updateWorkspaceTabVisibility /\ refreshSessionInfo /\ display(NONE, Detached(ops))
  /\ asked' = Outdated(asked)
  /\ UNCHANGED <<openPath, files, enabled>>

\* The buttons of the panel: a row of the list, Save and Delete of the file view
\* and "Create / overwrite".
Send(op, path, text) ==
  /\ panel # NONE /\ Room
  /\ UNCHANGED <<user, tabs>>
  /\ ops' = ops \cup {Op(op, path, text)}
  /\ UNCHANGED <<panel, openPath, asked, files, enabled, behind>>

ClickFile(path) ==
  /\ panel # NONE /\ panel.list # NONE /\ path \in panel.list.paths
  /\ Send("read", path, NONE)

\* The view's buttons act on the session current when they are clicked.
ClickSave(text) ==
  /\ panel # NONE /\ panel.view # NONE
  /\ Send("write", panel.view.path, text)

ClickDelete ==
  /\ panel # NONE /\ panel.view # NONE
  /\ Send("delete", panel.view.path, NONE)

ClickCreate(path, text) == Send("write", path, text)

--------------------------------------------------------------------------------
\* The sandbox handles a request; one that does not exist yet is created.
ServerHandles(o) ==
  LET old == IF files[o.sid] = NONE THEN NoFiles ELSE files[o.sid]
      new == CASE enabled /\ o.op = "write"  -> [old EXCEPT ![o.path] = o.text]
               [] enabled /\ o.op = "delete" -> [old EXCEPT ![o.path] = NONE]
               [] OTHER                      -> old
      ok  == /\ enabled
             /\ o.op \in {"read", "delete"} => old[o.path] # NONE
  IN /\ o \in ops /\ o.phase = "sent"
     /\ files' = [files EXCEPT ![o.sid] = new]
     /\ ops' = (ops \ {o}) \cup
          {[o EXCEPT !.phase = IF ok THEN "done" ELSE "refused",
                     !.result = IF o.op = "list" THEN {p \in Paths : old[p] # NONE}
                                ELSE IF o.op = "read" THEN old[o.path] ELSE NONE]}
     /\ UNCHANGED <<user, tabs, panel, openPath, asked, enabled, behind>>

\* Mutant: the session is not compared.
IsStaleLanguage(o) == language # o.lang
IsStale(o) == language # o.lang \/ sessionIds[o.lang] # o.sid

ListAnswers(o) ==
  /\ panel' = IF panel = NONE THEN NONE
              ELSE [panel EXCEPT !.list = [sid |-> o.sid, paths |-> o.result]]
  /\ ops' = ops \ {o}
  /\ UNCHANGED <<openPath, behind>>

ReadAnswers(o) ==
  /\ openPath' = o.path
  /\ panel' = IF panel = NONE THEN NONE
              ELSE [panel EXCEPT !.view = [sid |-> o.sid, path |-> o.path]]
  /\ ops' = ops \ {o}
  /\ UNCHANGED behind

\* Mutant: the list is left as it is.
ThenKeepList(p, os) == panel' = p /\ ops' = os /\ UNCHANGED behind
ThenLoad(p, os) ==
  IF p = NONE THEN panel' = NONE /\ ops' = os /\ UNCHANGED behind ELSE loadWorkspace(p, os)

WriteAnswers(o) ==
  /\ ThenLoad(panel, ops \ {o})
  /\ UNCHANGED openPath

\* Without a panel the handler fails at its view, with openPath already reset.
DeleteAnswers(o) ==
  /\ openPath' = IF openPath = o.path THEN NONE ELSE openPath
  /\ ThenLoad(IF openPath = o.path /\ panel # NONE THEN [panel EXCEPT !.view = NONE] ELSE panel,
              ops \ {o})

Answers(o) ==
  /\ o \in ops /\ o.phase = "done"
  /\ UNCHANGED <<user, tabs>>
  /\ IF IsStale(o) THEN ops' = ops \ {o} /\ UNCHANGED <<panel, openPath, behind>>
     ELSE CASE o.op = "list"   -> ListAnswers(o)
            [] o.op = "read"   -> ReadAnswers(o)
            [] o.op = "write"  -> WriteAnswers(o)
            [] o.op = "delete" -> DeleteAnswers(o)
  /\ UNCHANGED <<asked, files, enabled>>

\* A refusal, or a failed request whether the sandbox handled it or not.  Only
\* a listing changes the panel: it says so in place of the list, if it is there.
Fails(o) ==
  /\ o \in ops
  /\ ops' = ops \ {o}
  /\ panel' = IF o.op = "list" /\ o.here /\ panel # NONE /\ ~IsStale(o)
                THEN [panel EXCEPT !.list = NONE] ELSE panel
  /\ behind' = (behind \/ o.phase # "refused")
  /\ UNCHANGED <<user, tabs, openPath, asked, files, enabled>>

\* Mutant: the tab stays as it is.
ShowsTabAnyway == UNCHANGED <<hidden, tab>>
ShowsTab == updateWorkspaceTabVisibility

InfoAnswers(i, ok) ==
  /\ i \in infos
  /\ UNCHANGED <<user, openPath, asked, files, enabled>>
  /\ infos' = infos \ {i}
  /\ IF IsStale(i)
       THEN UNCHANGED <<fileApi, hidden, tab, panel, ops, behind>>
       ELSE /\ fileApi' = [fileApi EXCEPT ![i.sid] = IF ok THEN enabled ELSE @]
            /\ ShowsTab
            /\ display(panel, ops)

--------------------------------------------------------------------------------
\* nr tells two requests of one session apart; fresh: a line of the `generation`
\* the page is in.
Request(op) ==
  [op |-> op, lang |-> language, sid |-> sessionId, fresh |-> TRUE, handled |-> FALSE,
   nr |-> CHOOSE n \in 0..Cardinality(asked) : \A a \in asked : a.nr # n]

Ask(op) ==
  /\ Room
  /\ repl
  /\ op = "new" => minted < MaxSessions
  /\ asked' = Outdated(asked) \cup {Request(op)}
  /\ UNCHANGED <<user, tabs, panel, openPath, ops, files, enabled, behind>>

\* The line's cell is the one on display, or is not.
MayRedraw == display(panel, ops) \/ UNCHANGED <<panel, ops, behind>>

EnterLine ==
  /\ Room
  /\ repl
  /\ asked' = asked \cup {Request("line")}
  /\ UNCHANGED <<user, tabs, openPath, files, enabled>>
  /\ MayRedraw

\* What the line's run leaves in the workspace.  An answer that would come too
\* late is not waited for.
ServerRuns(a) ==
  /\ a \in asked /\ a.op = "line" /\ ~a.handled
  /\ \E left \in [Paths -> Contents \cup {NONE}] : files' = [files EXCEPT ![a.sid] = left]
  /\ asked' = (asked \ {a}) \cup IF a.fresh THEN {[a EXCEPT !.handled = TRUE]} ELSE {}
  /\ behind' = (behind \/ ~a.fresh)
  /\ UNCHANGED <<user, tabs, panel, openPath, ops, enabled>>

\* A line that fails, or whose 15 seconds are over, is shown like an answer, and
\* the sandbox may still run it.
LineAnswers(a) ==
  /\ a \in asked /\ a.op = "line" /\ (a.fresh \/ a.handled)
  /\ asked' = (asked \ {a}) \cup IF a.handled THEN {} ELSE {[a EXCEPT !.fresh = FALSE]}
  /\ UNCHANGED <<user, tab, hidden, fileApi, openPath, files, enabled>>
  /\ IF a.fresh /\ ~IsStale(a)
       THEN refreshSessionInfo /\ MayRedraw
       ELSE UNCHANGED <<infos, panel, ops>> /\ behind' = (behind \/ a.handled)

ServerDeletes(a) ==
  /\ a \in asked /\ a.op = "new" /\ files[a.sid] # NONE
  /\ files' = [files EXCEPT ![a.sid] = NONE]
  /\ UNCHANGED <<user, tabs, panel, openPath, ops, asked, enabled, behind>>

\* Mutant: the path stays open.
ForgetNothing == UNCHANGED openPath
ForgetOpenPath == openPath' = NONE

\* Whether the DELETE succeeded is not looked at.
NewSessionContinues(a) ==
  /\ a \in asked /\ a.op = "new" /\ minted < MaxSessions
  /\ asked' = asked \ {a}
  /\ minted' = newSessionId
  /\ sessionIds' = [sessionIds EXCEPT ![a.lang] = newSessionId]
  /\ ForgetOpenPath
  /\ UNCHANGED <<language, repl, fileApi, files, enabled>>
  /\ updateWorkspaceTabVisibility /\ refreshSessionInfo /\ display(panel, ops)

ResetContinues(a) ==
  /\ a \in asked /\ a.op = "reset"
  /\ asked' = asked \ {a}
  /\ openPath' = NONE
  /\ UNCHANGED <<user, tab, hidden, fileApi, files, enabled>>
  /\ refreshSessionInfo /\ display(panel, ops)

--------------------------------------------------------------------------------
Next ==
  \/ \E t \in {"workspace", "result"} : SelectTab(t)
  \/ Refresh \/ setMode
  \/ \E l \in Languages : switchLanguage(l)
  \/ \E p \in Paths : ClickFile(p) \/ \E c \in Contents : ClickCreate(p, c)
  \/ \E c \in Contents : ClickSave(c)
  \/ ClickDelete
  \/ \E o \in ops : ServerHandles(o) \/ Answers(o) \/ Fails(o)
  \/ \E i \in infos, ok \in BOOLEAN : InfoAnswers(i, ok)
  \/ \E op \in {"new", "reset"} : Ask(op)
  \/ EnterLine
  \/ \E a \in asked : ServerDeletes(a) \/ NewSessionContinues(a) \/ ResetContinues(a)
                          \/ ServerRuns(a) \/ LineAnswers(a)

Spec == Init /\ [][Next]_vars

--------------------------------------------------------------------------------
TypeOK ==
  /\ language \in Languages /\ repl \in BOOLEAN /\ minted \in Sids
  /\ sessionIds \in [Languages -> Sids \cup {0}] /\ sessionId # 0
  /\ \A l, m \in Languages : l # m /\ sessionIds[l] # 0 => sessionIds[l] # sessionIds[m]
  /\ tab \in {"workspace", "result"} /\ hidden \in BOOLEAN /\ behind \in BOOLEAN
  /\ panel # NONE =>
       /\ panel.list # NONE => panel.list.sid \in Sids /\ panel.list.paths \subseteq Paths
       /\ panel.view # NONE => panel.view.sid \in Sids /\ panel.view.path \in Paths
  /\ openPath \in Paths \cup {NONE} /\ fileApi \in [Sids -> BOOLEAN]
  /\ files \in [Sids -> [Paths -> Contents \cup {NONE}] \cup {NONE}]

\* The Workspace tab is only shown in REPL mode and where the File API is not
\* known to be disabled, and never stays selected while hidden, whichever of
\* the status answers and changes of session, mode and language come first
\* (updateWorkspaceTabVisibility).
WorkspaceTabNeedsFileApi ==
  /\ hidden = ~(repl /\ fileApi[sessionId])
  /\ (tab = "workspace") = (panel # NONE)
  /\ tab = "workspace" => ~hidden

\* The list shown is of the current session's sandbox, never of one left behind
\* by a change of language or by New session.
ListIsOfTheSession ==
  panel # NONE /\ panel.list # NONE => panel.list.sid = sessionId

\* The file in the view is the one the page takes for open, and comes from the
\* current session's sandbox, so that Save and Delete act where it was read,
\* except after New session or Reset, which forget the path and leave the view.
ViewIsTheOpenFile ==
  panel # NONE /\ panel.view # NONE /\ openPath # NONE =>
    /\ panel.view.path = openPath
    /\ panel.view.sid = sessionId

\* All the tab shows is of the current session, and Save and Delete act on it.
TabIsOfTheSession ==
  TypeOK /\ WorkspaceTabNeedsFileApi /\ ListIsOfTheSession /\ ViewIsTheOpenFile

\* Once everything is answered the list shows the files there are, those that a
\* line of the prompt left included, provided no two listings raced, no answer
\* was lost or too late and no sandbox is being deleted (writeWorkspaceFile,
\* deleteWorkspaceFile and refreshSessionInfo load the list again).
SettledListIsExact ==
  panel # NONE /\ panel.list # NONE /\ ops = {} /\ infos = {} /\ ~behind /\ asked = {}
    /\ files[sessionId] # NONE =>
      panel.list.paths = {p \in Paths : files[sessionId][p] # NONE}

\* ""New session" deletes the sandbox" (docs/sdk-parity-design.md).
NewSessionDeletesTheSandbox ==
  \A s \in Sids : files[s] # NONE =>
    (\E l \in Languages : sessionIds[l] = s) \/ (\E a \in asked : a.sid = s)

================================================================================
