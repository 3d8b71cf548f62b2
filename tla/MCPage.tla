--------------------------------- MODULE MCPage --------------------------------
(***************************************************************************)
(* Instances of the three models of the page: the sessions with their log  *)
(* and panes, the editor they are started from, and the Workspace tab.     *)
(* Their requests have no more in common than the language, the mode and   *)
(* the session ids, so a behaviour is one of one of them: `part` says of   *)
(* which.  The Workspace tab comes in three sizes: two languages and three *)
(* sessions over one file, one language and two sessions over two, and one *)
(* language and two sessions over one file with lines of the prompt.       *)
(***************************************************************************)
EXTENDS PlaygroundSessions

CONSTANTS
  javascript, python, ruby, a, b, x, NONE,
  Parts,                                           \* the models of this run
  EditorLanguages, EditorNoRepl, Examples, Cells, Variants, Blank,
  Paths, Contents, MaxSessions, InFlight

VARIABLES
  part,
  editorLanguage, editorMode, editor, scriptDraft, stored, saved, loading, requested, shown,
  selected, log, cursor, historyDraft, before,
  fileLanguage, repl, fileSessions, newest, tab, hidden, panel, openPath, fileApi, statuses,
  ops, leaving, files, enabled, behind

editorVars ==
  <<editorLanguage, editorMode, editor, scriptDraft, stored, saved, loading, requested, shown,
    selected, log, cursor, historyDraft, before>>
fileVars ==
  <<fileLanguage, repl, fileSessions, newest, tab, hidden, panel, openPath, fileApi, statuses,
    ops, leaving, files, enabled, behind>>

ASSUME EditorAssumption ==
  /\ First \in EditorLanguages \ EditorNoRepl
  /\ Cells \in Nat \ {0} /\ Variants \in Nat
  /\ Examples \in [EditorLanguages -> Nat \ {0}]

ASSUME FilesAssumption ==
  /\ MaxSessions \in Nat \ {0} /\ InFlight \in Nat
  /\ NONE \notin Paths \cup Contents
  /\ NONE \notin [Paths -> Contents \cup {NONE}]
  /\ NONE \notin [sid : 1..MaxSessions, paths : SUBSET Paths]
  /\ NONE \notin [sid : 1..MaxSessions, path : Paths]
  /\ NONE \notin [list : [sid : 1..MaxSessions, paths : SUBSET Paths] \cup {NONE},
                  view : [sid : 1..MaxSessions, path : Paths] \cup {NONE}]

Editor == INSTANCE PlaygroundEditor WITH
  Languages <- EditorLanguages, NoRepl <- EditorNoRepl, MAX_CELLS <- Cells,
  language <- editorLanguage, userMode <- editorMode

Files == INSTANCE PlaygroundWorkspace WITH
  language <- fileLanguage, sessionIds <- fileSessions, minted <- newest, infos <- statuses,
  asked <- leaving

\* Two examples in the first language and one in the others.
FewExamples == [l \in EditorLanguages |-> IF l = First THEN 2 ELSE 1]

\* The three sizes of the Workspace tab.
OneFile     == /\ \A o \in ops' : o.path # b
               /\ \A s \in 1..MaxSessions : files'[s] # NONE => files'[s][b] = NONE
TwoSessions == newest' + Cardinality({q \in leaving' : q.op = "new"}) <= 2
Only(kinds) == \A q \in leaving' : q.op \in kinds

MCInit ==
  /\ part \in Parts
  /\ Init
  /\ Editor!Init /\ (part # "editor" => requested = NONE)
  /\ Files!Init /\ (part \in {"sessions", "editor"} => enabled = TRUE)

MCNext ==
  /\ UNCHANGED part
  /\ \/ part = "sessions" /\ Next /\ UNCHANGED <<editorVars, fileVars>>
     \/ part = "editor" /\ Editor!Next /\ UNCHANGED <<vars, fileVars>>
     \/ part = "languages" /\ Files!Next /\ OneFile /\ Only({"new"}) /\ UNCHANGED <<vars, editorVars>>
     \/ part = "files" /\ Files!Next /\ fileLanguage' = First /\ TwoSessions
        /\ Only({"new", "reset"}) /\ UNCHANGED <<vars, editorVars>>
     \/ part = "lines" /\ Files!Next /\ OneFile /\ TwoSessions /\ UNCHANGED <<vars, editorVars>>

MCSpec == MCInit /\ [][MCNext]_<<part, vars, editorVars, fileVars>> /\ Fairness

(***************************************************************************)
(* The properties of the other two, by the names their modules give them.  *)
(***************************************************************************)
\* PlaygroundEditor: the one editor keeps script, prompt and history apart.
EditorIsCoherent == Editor!EditorIsCoherent

\* PlaygroundWorkspace: all the tab shows is of the current session.
TabIsOfTheSession == Files!TabIsOfTheSession

\* PlaygroundWorkspace: once everything is answered the list shows the files there are.
SettledListIsExact == Files!SettledListIsExact
================================================================================
