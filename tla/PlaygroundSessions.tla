---------------------------- MODULE PlaygroundSessions ----------------------------
(***************************************************************************)
(* The requests of the playground page (ui/main.js): script runs, lines of *)
(* the REPL, New session, Reset and the session's status strip.  Every one *)
(* is a fetch followed by code that changes what the page shows, and the   *)
(* user goes on clicking meanwhile.  `generation` is the page's guard      *)
(* against late answers: it grows with every change of language, New       *)
(* session and Reset.                                                      *)
(***************************************************************************)
EXTENDS Integers, Sequences, SequencesExt, FiniteSets

CONSTANTS
  Languages,
  NoRepl,       \* languages without a REPL mode
  First,        \* the language the page opens in
  MAX_CELLS,    \* lines kept per session
  Generations,  \* bound on `generation`
  Lines         \* bound on the lines submitted

ASSUME LanguagesAssumption ==
  /\ IsFiniteSet(Languages) /\ First \in Languages /\ NoRepl \subseteq Languages
  /\ MAX_CELLS \in Nat \ {0} /\ Generations \in Nat /\ Lines \in Nat

Sids == 1..(Cardinality(Languages) + Generations)
Ids  == 1..Lines
NoId == 0

VARIABLES
  language, userMode, generation,
  sessionIds,    \* per language, 0 before the first use
  minted,        \* session ids generated so far
  cells,         \* per session: the lines of its log, oldest first
  line,          \* the lines submitted: [lang, sid, gen, status]
  selectedCell, followLatest,   \* per session
  pane,          \* the REPL log on screen: [sid, rows]
  output,        \* the line in the result pane: [id, status]
  strip,         \* the session the status strip was filled from, 0 for none
  infos,         \* status requests on their way: [lang, sid]
  run,           \* the script runs on their way (at most one): [lang, gen, crossed]
  response,      \* the script answers shown (at most one)
  asked,         \* New session and Reset on their way: [op, lang, sid, gen]
  overlapped     \* history: a New session or Reset was overtaken by another
                 \* change of session or language, and the log not redrawn since

mode    == <<language, userMode, generation>>
ids     == <<sessionIds, minted>>
logs    == <<cells, line, selectedCell, followLatest>>
screen  == <<pane, output, strip>>
scripts == <<run, response>>
vars    == <<mode, ids, logs, screen, infos, scripts, asked, overlapped>>

IsRepl(l, m) == l \notin NoRepl /\ m = "repl"
InRepl == IsRepl(language, userMode)
sessionId == sessionIds[language]

Init ==
  /\ language = First /\ userMode = "script" /\ generation = 0
  /\ sessionIds = [l \in Languages |-> IF l = First THEN 1 ELSE 0] /\ minted = 1
  /\ cells = [s \in Sids |-> <<>>] /\ line = <<>>
  /\ selectedCell = [s \in Sids |-> NoId] /\ followLatest = [s \in Sids |-> TRUE]
  /\ pane = [sid |-> 0, rows |-> <<>>] /\ output = [id |-> NoId, status |-> "none"]
  /\ strip = 0 /\ infos = {}
  /\ run = {} /\ response = {} /\ asked = {}
  /\ overlapped = FALSE

--------------------------------------------------------------------------------
\* What the two panes show.  Both are drawn from the state the handler leaves.
renderReplLog(sid) ==
  pane' = [sid  |-> sid,
           rows |-> [i \in DOMAIN cells'[sid] |->
                      [id |-> cells'[sid][i], status |-> line'[cells'[sid][i]].status]]]

\* A selection that is no longer in the log falls back to the newest line.
selectedCellFor(list, id) ==
  IF id \in Range(list) THEN id ELSE IF list = <<>> THEN NoId ELSE Last(list)

display ==
  output' = IF IsRepl(language', userMode')
              THEN LET sid == sessionIds'[language']
                       id  == selectedCellFor(cells'[sid], selectedCell'[sid])
                   IN [id |-> id, status |-> IF id = NoId THEN "none" ELSE line'[id].status]
              ELSE [id |-> NoId, status |-> "none"]

refreshSessionInfo ==
  infos' = IF IsRepl(language', userMode')
             THEN infos \cup {[lang |-> language', sid |-> sessionIds'[language']]}
             ELSE infos

\* sessionIdFor: a language without a session gets one as it is shown.
Mint(l) ==
  /\ sessionIds' = IF sessionIds[l] = 0 THEN [sessionIds EXCEPT ![l] = minted + 1] ELSE sessionIds
  /\ minted' = IF sessionIds[l] = 0 THEN minted + 1 ELSE minted

\* Entering the REPL layout selects the newest line if none was, and redraws.
syncModeUI ==
  LET sid == sessionIds'[language']
  IN IF IsRepl(language', userMode')
       THEN /\ selectedCell' = [selectedCell EXCEPT ![sid] =
                 IF @ = NoId THEN selectedCellFor(cells[sid], @) ELSE @]
            /\ followLatest' = [followLatest EXCEPT ![sid] = @ \/ selectedCell[sid] = NoId]
            /\ renderReplLog(sid)
            /\ strip' = 0
       ELSE UNCHANGED <<selectedCell, followLatest, pane, strip>>

--------------------------------------------------------------------------------
switchLanguage(l) ==
  /\ generation < Generations
  /\ generation' = generation + 1
  /\ language' = l
  /\ Mint(l)
  /\ UNCHANGED <<userMode, cells, line>>
  /\ syncModeUI /\ refreshSessionInfo /\ display
  /\ response' = {}
  /\ run' = {[r EXCEPT !.crossed = TRUE] : r \in run}
  /\ overlapped' = (asked # {})
  /\ UNCHANGED asked

setMode(m) ==
  /\ m # userMode /\ language \notin NoRepl
  /\ userMode' = m
  /\ UNCHANGED <<language, generation, ids, cells, line>>
  /\ syncModeUI /\ refreshSessionInfo /\ display
  /\ overlapped' = (overlapped /\ asked # {})
  /\ UNCHANGED <<scripts, asked>>

\* A click on a tab shows the current selection again.
SelectTab ==
  /\ UNCHANGED <<mode, ids, logs, pane, strip>>
  /\ display
  /\ UNCHANGED <<infos, scripts, asked, overlapped>>

--------------------------------------------------------------------------------
\* `busy` is run # {}.
runScript ==
  /\ ~InRepl /\ run = {}
  /\ run' = {[lang |-> language, gen |-> generation, crossed |-> FALSE]}
  /\ UNCHANGED <<mode, ids, logs, screen, infos, response, asked, overlapped>>

\* An answer is stale when the page has moved on.  Mutant: to another language.
StaleRunByLanguage(r) == r.lang # language
StaleRun(r) == r.gen # generation \/ r.lang # language

\* The Run button comes back.  Mutant: only for an answer that is not stale.
RunEndsUnlessStale(r) == run' = IF StaleRun(r) THEN run ELSE {}
RunEnds(r) == run' = {}

\* The answer, or the failure that stands for it after 15 seconds.
ScriptAnswers(r) ==
  /\ r \in run
  /\ RunEnds(r)
  /\ UNCHANGED <<mode, ids, logs, pane, strip>>
  /\ IF StaleRun(r)
       THEN UNCHANGED <<response, output>>
       ELSE response' = {r} /\ display
  /\ UNCHANGED <<infos, asked, overlapped>>

--------------------------------------------------------------------------------
\* Mutant: one line too many is kept.
RecentAndOneMore(list) == IF Len(list) > MAX_CELLS THEN Tail(list) ELSE list

\* The newest MAX_CELLS lines, with room for one more.
Recent(list) == IF Len(list) = MAX_CELLS THEN Tail(list) ELSE list

runReplCell ==
  LET id  == Len(line) + 1
      sid == sessionId
  IN /\ InRepl /\ id \in Ids
     /\ line' = Append(line, [lang |-> language, sid |-> sid, gen |-> generation, status |-> "pending"])
     /\ cells' = [cells EXCEPT ![sid] = Append(Recent(@), id)]
     /\ selectedCell' = [selectedCell EXCEPT ![sid] = IF followLatest[sid] THEN id ELSE @]
     /\ UNCHANGED <<mode, ids, followLatest, strip>>
     /\ renderReplLog(sid)
     /\ IF followLatest[sid] THEN display ELSE UNCHANGED output
     /\ UNCHANGED <<infos, scripts, asked, overlapped>>

\* Mutant: only the session is compared, not what is shown now.
StaleBySession(c) == sessionIds[c.lang] # c.sid
Stale(c) == generation # c.gen \/ language # c.lang \/ sessionIds[c.lang] # c.sid

\* Mutant: a stale answer returns before it fills the cell.
FilledUnlessStale(id) == IF Stale(line[id]) THEN line ELSE [line EXCEPT ![id].status = "done"]
Filled(id) == [line EXCEPT ![id].status = "done"]

\* Mutants: the log, or the result pane, is not drawn again.
ShowAnswerUndrawn(sid, id)  == UNCHANGED pane /\ display /\ refreshSessionInfo
ShowAnswerUnshown(sid, id) == renderReplLog(sid) /\ UNCHANGED output /\ refreshSessionInfo
ShowAnswer(sid, id) ==
  /\ renderReplLog(sid)
  /\ IF selectedCell[sid] = id THEN display ELSE UNCHANGED output
  /\ refreshSessionInfo

\* The answer or the failure after 15 seconds fills the cell; the page is only
\* touched when it still is about that session.
LineAnswers(id) ==
  /\ line[id].status = "pending"
  /\ line' = Filled(id)
  /\ UNCHANGED <<mode, ids, cells, selectedCell, followLatest, strip>>
  /\ IF Stale(line[id])
       THEN UNCHANGED <<pane, output, infos>>
       ELSE ShowAnswer(line[id].sid, id)
  /\ UNCHANGED <<scripts, asked, overlapped>>

\* A click on a row of the log on screen, whichever session it belongs to.
selectCell(id) ==
  LET sid == pane.sid
  IN /\ InRepl /\ \E row \in Range(pane.rows) : row.id = id
     /\ selectedCell' = [selectedCell EXCEPT ![sid] = id]
     /\ followLatest' = [followLatest EXCEPT ![sid] =
                           cells[sid] # <<>> /\ Last(cells[sid]) = id]
     /\ UNCHANGED <<mode, ids, cells, line, strip>>
     /\ renderReplLog(sid)
     /\ IF sid = sessionId THEN display ELSE UNCHANGED output
     /\ UNCHANGED <<infos, scripts, asked, overlapped>>

\* Mutant: the language may have changed.
InfoIsForSession(i) == sessionIds[i.lang] = i.sid
InfoIsCurrent(i) == language = i.lang /\ sessionIds[i.lang] = i.sid

InfoAnswers(i, ok) ==
  /\ i \in infos
  /\ infos' = infos \ {i}
  /\ strip' = IF InfoIsCurrent(i) THEN (IF ok THEN i.sid ELSE 0) ELSE strip
  /\ UNCHANGED <<mode, ids, logs, pane, output, scripts, asked, overlapped>>

--------------------------------------------------------------------------------
EmptyLog(sid) ==
  /\ cells' = [cells EXCEPT ![sid] = <<>>]
  /\ selectedCell' = [selectedCell EXCEPT ![sid] = NoId]
  /\ followLatest' = [followLatest EXCEPT ![sid] = TRUE]

ReplClear ==
  /\ InRepl
  /\ EmptyLog(sessionId)
  /\ UNCHANGED <<mode, ids, line, strip>>
  /\ renderReplLog(sessionId)
  /\ display
  /\ UNCHANGED <<infos, scripts, asked, overlapped>>

Ask(op) ==
  /\ InRepl /\ generation < Generations
  /\ generation' = generation + 1
  /\ asked' = asked \cup {[op |-> op, lang |-> language, sid |-> sessionId, gen |-> generation']}
  /\ overlapped' = (overlapped \/ asked # {})
  /\ UNCHANGED <<language, userMode, ids, logs, screen, infos, scripts>>

\* The code after the await looks neither at the generation nor at the language.
NewSessionContinues(a) ==
  LET sid == minted + 1
  IN /\ a \in asked /\ a.op = "new"
     /\ asked' = asked \ {a}
     /\ EmptyLog(a.sid)
     /\ minted' = sid
     /\ sessionIds' = [sessionIds EXCEPT ![a.lang] = sid]
     /\ UNCHANGED <<mode, line>>
     /\ renderReplLog(sid)
     /\ strip' = 0
     /\ display
     /\ refreshSessionInfo
     /\ UNCHANGED <<scripts, overlapped>>

ResetContinues(a) ==
  /\ a \in asked /\ a.op = "reset"
  /\ asked' = asked \ {a}
  /\ EmptyLog(a.sid)
  /\ UNCHANGED <<mode, ids, line, strip>>
  /\ renderReplLog(a.sid)
  /\ display
  /\ refreshSessionInfo
  /\ UNCHANGED <<scripts, overlapped>>

--------------------------------------------------------------------------------
Next ==
  \/ \E l \in Languages : switchLanguage(l)
  \/ \E m \in {"script", "repl"} : setMode(m)
  \/ SelectTab
  \/ runScript \/ \E r \in run : ScriptAnswers(r)
  \/ runReplCell
  \/ \E id \in DOMAIN line : LineAnswers(id) \/ selectCell(id)
  \/ \E i \in infos, ok \in BOOLEAN : InfoAnswers(i, ok)
  \/ ReplClear
  \/ \E op \in {"new", "reset"} : Ask(op)
  \/ \E a \in asked : NewSessionContinues(a) \/ ResetContinues(a)

\* Script runs and lines are sent with AbortSignal.timeout(15000); the other
\* requests have no deadline.
Fairness ==
  /\ WF_vars(\E r \in run : ScriptAnswers(r))
  /\ \A id \in Ids : WF_vars(id \in DOMAIN line /\ LineAnswers(id))

Spec == Init /\ [][Next]_vars /\ Fairness

--------------------------------------------------------------------------------
TypeOK ==
  /\ language \in Languages /\ userMode \in {"script", "repl"}
  /\ generation \in 0..Generations
  /\ sessionIds \in [Languages -> Sids \cup {0}] /\ minted \in Sids
  /\ cells \in [Sids -> Seq(Ids)] /\ \A s \in Sids : Len(cells[s]) <= MAX_CELLS
  /\ line \in Seq([lang : Languages, sid : Sids, gen : 0..Generations, status : {"pending", "done"}])
  /\ selectedCell \in [Sids -> Ids \cup {NoId}] /\ followLatest \in [Sids -> BOOLEAN]
  /\ pane.sid \in Sids \cup {0} /\ strip \in Sids \cup {0}
  /\ infos \subseteq [lang : Languages, sid : Sids]
  /\ run \cup response \subseteq [lang : Languages, gen : 0..Generations, crossed : BOOLEAN]
  /\ asked \subseteq [op : {"new", "reset"}, lang : Languages, sid : Sids, gen : 1..Generations]
  /\ overlapped \in BOOLEAN

\* The script answer on screen is one the user asked for in the language shown
\* and without leaving it meanwhile: an answer from before a switch and back is
\* not shown (generation, runScript).
ResponseIsCurrent ==
  \A r \in response : r.lang = language /\ ~r.crossed

\* The log on screen is the current session's, whatever requests come back,
\* as long as no New session or Reset was overtaken by a second one or by a
\* change of language.
PaneIsCurrent == InRepl /\ ~overlapped => pane.sid = sessionId

\* A row that says "... evaluating" is being evaluated, unless the line is from
\* an earlier generation.
PendingRowsArePending ==
  InRepl => \A row \in Range(pane.rows) :
    row.status = "pending" /\ line[row.id].gen = generation => line[row.id].status = "pending"

\* The result pane does not go on saying "Evaluating..." about the selected line
\* once it has been answered, unless it is from an earlier generation.
OutputIsFresh ==
  InRepl /\ output.status = "pending" /\ selectedCell[sessionId] = output.id
    /\ line[output.id].gen = generation
      => line[output.id].status = "pending"

\* The status strip of the REPL layout is about the session shown, or empty,
\* although a status request may have been sent for another.
StripIsCurrent == InRepl => strip \in {0, sessionId}

\* All the page shows of its requests belongs to the language and session shown.
ShownIsCurrent ==
  /\ TypeOK
  /\ ResponseIsCurrent
  /\ PaneIsCurrent
  /\ PendingRowsArePending
  /\ OutputIsFresh
  /\ StripIsCurrent

\* The Run button comes back and every line is answered, server or no server.
EverythingIsAnswered ==
  /\ run # {} ~> run = {}
  /\ \A id \in Ids : Len(line) >= id ~> (Len(line) >= id /\ line[id].status = "done")

\* "In-flight requests started before a bump must not touch shared UI
\* (status/metrics/response/display) once it no longer matches" (ui/main.js, the
\* comment on generation).
StaleRequestsLeaveThePage ==
  [][\A a \in asked : a \notin asked' /\ a.gen # generation => UNCHANGED <<pane, output>>]_vars


================================================================================
