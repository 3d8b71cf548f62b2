----------------------------- MODULE PlaygroundEditor -----------------------------
(***************************************************************************)
(* The editor of the playground page (ui/main.js).  One text widget serves *)
(* as the script editor and as the REPL prompt.  The page keeps the script *)
(* aside while the prompt is shown, writes its state to local storage at   *)
(* every change, and lets the arrow keys browse the lines of the current   *)
(* session.  Everything here runs in one event handler at a time; what     *)
(* makes it hard is that five pieces of state are kept in step by hand in  *)
(* a dozen handlers, and that the page is usable before its list of        *)
(* languages has arrived.                                                  *)
(***************************************************************************)
EXTENDS Integers, Sequences, SequencesExt

CONSTANTS
  Languages,
  NoRepl,      \* languages without a REPL mode (ruby)
  First,       \* the language of a freshly loaded page (javascript), not one of NoRepl
  Examples,    \* number of examples of each language
  MAX_CELLS,   \* lines kept per session
  Variants,    \* bound: how many different texts the user types
  Blank,       \* the empty text, no script
  NONE         \* null

(***************************************************************************)
(* A text is told apart by where it comes from: scripts are the examples   *)
(* and what is typed in the script editor, prompts are the snippets and    *)
(* what is typed at the prompt.                                            *)
(***************************************************************************)
Text(kind, lang, n) == [kind |-> kind, lang |-> lang, n |-> n]
Example(l, i) == Text("example", l, i)
Snippet(l)    == Text("snippet", l, 1)
Scripts == [kind : {"example", "typed"}, lang : Languages, n : Nat]
Prompts == [kind : {"snippet", "line"}, lang : Languages, n : Nat] \cup {Blank}
Texts   == Scripts \cup Prompts
Modes   == {"script", "repl"}
Records == [language : Languages, mode : Modes, code : Texts]

VARIABLES
  language, userMode,
  editor,        \* the text shown
  scriptDraft,   \* the script kept while the prompt is shown
  stored,        \* the record in local storage, NONE before the first visit
  saved,         \* what the page read from storage; not used once the languages are known
  loading,       \* the list of languages has not arrived
  requested,     \* language asked for in the URL or by an early click
  shown,         \* the mode the page was last laid out for (syncModeUI)
  selected,      \* index of the chosen example
  log,           \* the lines of each language's current session
  cursor,        \* position in the log while browsing it, 0 when not (null)
  historyDraft,
  before         \* history: the text at the prompt when the browsing began

mode   == <<language, userMode, shown>>
page   == <<saved, loading, requested>>
vars   == <<mode, page, editor, scriptDraft, stored, selected, log, cursor,
            historyDraft, before>>

IsRepl(l, m) == l \notin NoRepl /\ m = "repl"
\* Once submitted a text is a line, whatever it was.
AsLine(text) == [text EXCEPT !.kind = "line"]

effectiveMode(l, m) == IF IsRepl(l, m) THEN "repl" ELSE "script"
Submitted == log[language]

\* What the page makes of the record it finds in storage.
LoadedMode(record) == IF record = NONE THEN "script" ELSE record.mode
LoadedText(record) == IF record = NONE THEN Example(First, 1) ELSE record.code

Init ==
  /\ language = First /\ userMode = LoadedMode(NONE) /\ shown = "script"
  /\ editor = LoadedText(NONE) /\ scriptDraft = LoadedText(NONE)
  /\ saved = NONE /\ loading = TRUE /\ requested \in Languages \cup {NONE}
  /\ selected = 1 /\ cursor = 0 /\ historyDraft = Blank /\ before = Blank
  /\ stored = NONE
  /\ log = [l \in Languages |-> <<>>]

--------------------------------------------------------------------------------
\* Mutant: what the editor shows is the script.
persistedDoc(l, m, doc, draft) == [language |-> l, mode |-> m, code |-> doc]

persisted(l, m, doc, draft) ==
  [language |-> l, mode |-> m, code |-> IF IsRepl(l, m) THEN draft ELSE doc]

\* Every handler ends by writing the record of the state it leaves behind.
persist == stored' = persisted(language', userMode', editor', scriptDraft')

StopBrowsing == cursor' = 0 /\ historyDraft' = Blank /\ before' = Blank

\* A change of the document that is not a recall ends the browsing.
Edit(text) ==
  /\ editor' = text
  /\ StopBrowsing

KeepText == UNCHANGED <<editor, cursor, historyDraft, before>>

\* The user types: at the prompt a line, otherwise a script.
Type(n) ==
  /\ Edit(Text(IF shown = "repl" THEN "line" ELSE "typed", language, n))
  /\ UNCHANGED <<mode, page, scriptDraft, selected, log>>
  /\ persist

selectExample(i) ==
  /\ ~IsRepl(language, userMode)
  /\ i \in 1..Examples[language]
  /\ selected' = i
  /\ Edit(Example(language, i))
  /\ UNCHANGED <<mode, page, scriptDraft, log>>
  /\ persist

\* The Reset button, hidden in the REPL layout, reloads the selected example.
reset ==
  /\ shown = "script"
  /\ selected \in 1..Examples[language]
  /\ Edit(Example(language, selected))
  /\ UNCHANGED <<mode, page, scriptDraft, selected, log>>
  /\ persist

insertSnippet ==
  /\ IsRepl(language, userMode)
  /\ Edit(Snippet(language))
  /\ UNCHANGED <<mode, page, scriptDraft, selected, log>>
  /\ persist

setMode(m) ==
  LET was == IsRepl(language, userMode)
      is  == IsRepl(language, m)
  IN /\ m = "repl" => language \notin NoRepl
     /\ userMode' = m
     /\ shown' = effectiveMode(language, m)
     /\ scriptDraft' = IF ~was /\ is THEN editor ELSE scriptDraft
     /\ IF was = is
          THEN KeepText
          ELSE Edit(IF is THEN Snippet(language) ELSE scriptDraft)
     /\ UNCHANGED <<language, page, selected, log>>
     /\ persist

\* Mutant: the prompt is not filled.
ScriptOf(l, restore) == IF restore /\ saved # NONE THEN saved.code ELSE Example(l, 1)
TextOf(l, restore) ==
  IF IsRepl(l, userMode) THEN Snippet(l)
  ELSE IF restore /\ saved # NONE THEN saved.code ELSE Example(l, 1)

\* Mutant: off by one.
SelectedFromZero(l) == IF IsRepl(l, userMode) THEN selected ELSE 0
Selected(l) == IF IsRepl(l, userMode) THEN selected ELSE 1

Show(l, restore) ==
  /\ language' = l
  /\ shown' = effectiveMode(l, userMode)
  /\ selected' = Selected(l)
  /\ Edit(TextOf(l, restore))
  /\ UNCHANGED <<userMode, scriptDraft, log>>
  /\ persist

\* Before the languages are known the selector only offers the first one.
switchLanguage(l) ==
  /\ loading => l = First
  /\ Show(l, FALSE)
  /\ requested' = IF loading THEN l ELSE requested
  /\ UNCHANGED <<saved, loading>>

RequestLanguage(l) ==
  /\ loading /\ l # First
  /\ requested' = l
  /\ KeepText
  /\ UNCHANGED <<mode, saved, loading, scriptDraft, stored, selected, log>>

\* GET /languages answers.  saved and requested are not read afterwards.
LanguagesKnown ==
  LET initial == IF requested # NONE THEN requested
                 ELSE IF saved # NONE THEN saved.language ELSE First
  IN /\ loading
     /\ Show(initial, initial # requested)
     /\ loading' = FALSE
     /\ saved' = NONE
     /\ requested' = NONE

\* submitReplLine empties the prompt before runReplCell looks at the
\* environment variables, which may not parse.
submitReplLine(envVarsParse) ==
  /\ IsRepl(language, userMode)
  /\ editor # Blank
  /\ Edit(Blank)
  /\ log' = IF ~envVarsParse THEN log
            ELSE [log EXCEPT ![language] =
                    Append(IF Len(@) = MAX_CELLS THEN Tail(@) ELSE @, AsLine(editor))]
  /\ UNCHANGED <<mode, page, scriptDraft, selected>>
  /\ persist

recallHistory(text) == editor' = text

historyUp ==
  /\ shown = "repl" /\ Submitted # <<>>
  /\ cursor # 1
  /\ historyDraft' = IF cursor = 0 THEN editor ELSE historyDraft
  /\ before' = IF cursor = 0 THEN editor ELSE before
  /\ cursor' = IF cursor = 0 THEN Len(Submitted) ELSE cursor - 1
  /\ recallHistory(Submitted[cursor'])
  /\ UNCHANGED <<mode, page, scriptDraft, selected, log>>
  /\ persist

historyDown ==
  /\ shown = "repl" /\ cursor # 0
  /\ IF cursor >= Len(Submitted)
       THEN recallHistory(historyDraft) /\ StopBrowsing
       ELSE /\ recallHistory(Submitted[cursor + 1])
            /\ cursor' = cursor + 1
            /\ UNCHANGED <<historyDraft, before>>
  /\ UNCHANGED <<mode, page, scriptDraft, selected, log>>
  /\ persist

\* Mutant: the history is not told.
EmptyLogBrowsing(l) ==
  /\ log' = [log EXCEPT ![l] = <<>>]
  /\ KeepText
  /\ UNCHANGED <<mode, page, scriptDraft, selected>>
  /\ persist

\* The log of a session is emptied: by Clear log for the current language, by
\* New session and Reset for the language they were pressed in, whichever
\* language is shown when their requests come back.
EmptyLog(l) ==
  /\ log' = [log EXCEPT ![l] = <<>>]
  /\ StopBrowsing
  /\ UNCHANGED editor
  /\ UNCHANGED <<mode, page, scriptDraft, selected>>
  /\ persist

Reload ==
  /\ language' = First /\ userMode' = LoadedMode(stored) /\ shown' = "script"
  /\ editor' = LoadedText(stored) /\ scriptDraft' = LoadedText(stored)
  /\ saved' = stored /\ loading' = TRUE /\ requested' \in Languages \cup {NONE}
  /\ selected' = 1 /\ cursor' = 0 /\ historyDraft' = Blank /\ before' = Blank
  /\ UNCHANGED <<stored, log>>

Next ==
  \/ \E n \in 1..Variants : Type(n)
  \/ \E i \in 1..Examples[language] : selectExample(i)
  \/ reset \/ insertSnippet
  \/ \E m \in Modes : setMode(m)
  \/ \E l \in Languages : switchLanguage(l) \/ RequestLanguage(l) \/ EmptyLog(l)
  \/ LanguagesKnown
  \/ \E ok \in BOOLEAN : submitReplLine(ok)
  \/ historyUp \/ historyDown
  \/ Reload

Spec == Init /\ [][Next]_vars

--------------------------------------------------------------------------------
TypeOK ==
  /\ language \in Languages /\ userMode \in Modes /\ shown \in Modes
  /\ editor \in Texts /\ scriptDraft \in Texts
  /\ stored \in Records \cup {NONE} /\ saved \in Records \cup {NONE}
  /\ loading \in BOOLEAN /\ requested \in Languages \cup {NONE}
  /\ selected \in Nat \ {0} /\ cursor \in Nat
  /\ log \in [Languages -> Seq(Texts)]
  /\ historyDraft \in Texts /\ before \in Texts

\* What a reload brings back as the script is a script, never a REPL prompt,
\* in whatever order modes, languages and edits came, the moments before the
\* languages are known included (persist and the handlers that move texts
\* between the editor and scriptDraft).
StoredIsAScript ==
  /\ scriptDraft \in Scripts
  /\ stored # NONE => stored.code \in Scripts

\* While the user browses, the prompt shows the line the cursor is at, which
\* exists, and ArrowDown past the newest line will bring back what was there
\* when the browsing began, although sessions are emptied by requests that
\* come back meanwhile (historyUp, historyDown, the three handlers that empty
\* a log).
BrowsingIsCoherent ==
  cursor # 0 =>
    /\ cursor <= Len(Submitted) /\ editor = Submitted[cursor]
    /\ historyDraft = before

\* Once the languages are known the page is laid out for the mode it is in, and
\* the two kinds of text are never mixed: the REPL layout shows a prompt, the
\* script layout a script (setMode, switchLanguage, the /languages answer).
LayoutMatchesText ==
  ~loading =>
    /\ shown = effectiveMode(language, userMode)
    /\ editor \in IF shown = "repl" THEN Prompts ELSE Scripts

\* The one editor keeps script, prompt and history apart.
EditorIsCoherent == TypeOK /\ StoredIsAScript /\ BrowsingIsCoherent /\ LayoutMatchesText

\* "In REPL mode the editor shows the prompt [...], never this draft" (ui/main.js,
\* the comment on scriptDraft).
ReplShowsThePrompt == shown = "repl" => editor \in Prompts

\* "entering REPL saves the editor's current content here" (ui/main.js, the
\* comment on scriptDraft).
EnteringReplSavesTheScript ==
  [][shown = "script" /\ ~loading /\ shown' = "repl" => scriptDraft' = editor]_vars

\* "submits each line against the default code context [...], appending its
\* result to a scrolling log" (README, the REPL mode).
SubmittedLineIsLogged ==
  [][\A l \in Languages :
       shown = "repl" /\ language = l /\ editor # Blank /\ editor' = Blank
         => log'[l] # <<>> /\ Last(log'[l]) = AsLine(editor)]_vars

================================================================================
