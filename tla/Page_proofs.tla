------------------------------- MODULE Page_proofs -------------------------------
(***************************************************************************)
(* Proofs about the playground page.                                       *)
(***************************************************************************)
EXTENDS MCPage, FiniteSetTheorems, TLAPS

(***************************************************************************)
(* Part one: the Workspace tab.                                            *)
(***************************************************************************)
FileSids == 1..MaxSessions
current  == fileSessions[fileLanguage]

Lists  == [sid : FileSids, paths : SUBSET Paths]
Views  == [sid : FileSids, path : Paths]
Panels == [list : Lists \cup {NONE}, view : Views \cup {NONE}]

FileOps ==
  [op : {"list", "read", "write", "delete"}, lang : Languages, sid : FileSids,
   path : Paths \cup {NONE}, text : Contents \cup {NONE}, here : BOOLEAN,
   phase : {"sent", "done", "refused"}, result : (SUBSET Paths) \cup Contents \cup {NONE}]

\* A session id belongs to one language for good.
SessionsOK ==
  /\ fileLanguage \in Languages /\ newest \in FileSids
  /\ fileSessions \in [Languages -> FileSids \cup {0}] /\ current # 0
  /\ \A l, m \in Languages : l # m /\ fileSessions[l] # 0 => fileSessions[l] # fileSessions[m]
  /\ \A l \in Languages : fileSessions[l] <= newest

\* A request names what its operation needs, a listing brings paths, and its
\* session is of its language.
Fits(o) ==
  /\ o \in FileOps
  /\ o.op # "list" => o.path \in Paths
  /\ o.op = "write" => o.text \in Contents
  /\ o.op = "list" /\ o.phase = "done" => o.result \in SUBSET Paths
  /\ o.sid <= newest /\ \A l \in Languages : fileSessions[l] = o.sid => l = o.lang

\* A click or a line is of a session that is no other language's.
Left(q) ==
  /\ q = [op |-> q.op, lang |-> q.lang, sid |-> q.sid, fresh |-> q.fresh,
          handled |-> q.handled, nr |-> q.nr]
  /\ q.op \in {"new", "reset", "line"} /\ q.lang \in Languages /\ q.sid \in FileSids
  /\ q.fresh \in BOOLEAN /\ q.handled \in BOOLEAN
  /\ q.sid <= newest /\ \A l \in Languages : fileSessions[l] = q.sid => l = q.lang

LeavingOK == \A q \in leaving : Left(q)

FTypes ==
  /\ SessionsOK /\ LeavingOK /\ \A o \in ops : Fits(o)
  /\ repl \in BOOLEAN /\ tab \in {"workspace", "result"}
  /\ hidden \in BOOLEAN /\ behind \in BOOLEAN /\ enabled \in BOOLEAN
  /\ panel \in Panels \cup {NONE} /\ openPath \in Paths \cup {NONE}
  /\ fileApi \in [FileSids -> BOOLEAN]
  /\ files \in [FileSids -> [Paths -> Contents \cup {NONE}] \cup {NONE}]
  /\ statuses \subseteq [lang : Languages, sid : FileSids]

\* WorkspaceTabNeedsFileApi, with equivalences for its equations.
FTab ==
  /\ hidden <=> ~(repl /\ fileApi[current])
  /\ tab = "workspace" <=> panel # NONE
  /\ tab = "workspace" => ~hidden

FShown == Files!ListIsOfTheSession /\ Files!ViewIsTheOpenFile

\* A change of the current sandbox whose answer will load the list again.
Reloads(o) == o.op \in {"write", "delete"} /\ o.phase = "done" /\ o.sid = current

\* The paths are those of the current sandbox, or will be asked for again.
Accounted(paths) ==
  \/ \E q \in leaving : q.op \in {"new", "line"} /\ q.sid = current
  \/ \E i \in statuses : i.lang = fileLanguage /\ i.sid = current
  \/ \E o \in ops : Reloads(o)
  \/ files[current] # NONE /\ paths = {p \in Paths : files[current][p] # NONE}

OneListing(os) == \A o, r \in os : o.op = "list" /\ r.op = "list" => o = r

\* While a listing is on its way the panel says so, and what it shows or will
\* show is accounted for.
Settling ==
  /\ OneListing(ops)
  /\ panel # NONE =>
       /\ panel.list # NONE => (\A o \in ops : o.op # "list") /\ Accounted(panel.list.paths)
       /\ \A o \in ops : o.op = "list" /\ o.phase = "done" /\ o.sid = current =>
                           Accounted(o.result)

\* Until an answer is lost or two listings race.
FList == ~behind => Settling

FInv == FTypes /\ FTab /\ FShown /\ FList

\* A panel is a record, and null is none.
LEMMA PanelIsThere == \A p \in Panels : p # NONE
  BY FilesAssumption DEF Panels, Lists, Views, FileSids

\* What the invariant says in the terms of the model.
LEMMA TabFromInvariant == FInv => TabIsOfTheSession
  <1> SUFFICES ASSUME FInv PROVE TabIsOfTheSession
    OBVIOUS
  <1>1. Files!TypeOK
    BY FilesAssumption DEF FInv, FTypes, SessionsOK, Files!TypeOK, Files!Sids, Files!sessionId,
       current, FileSids, Panels, Lists, Views
  <1>2. Files!WorkspaceTabNeedsFileApi
    <2>1. hidden = ~(repl /\ fileApi[current])
      BY DEF FInv, FTypes, FTab
    <2>2. (tab = "workspace") = (panel # NONE)
      BY DEF FInv, FTab
    <2> QED
      BY <2>1, <2>2 DEF FInv, FTab, Files!WorkspaceTabNeedsFileApi, Files!sessionId, current
  <1> QED
    BY <1>1, <1>2 DEF FInv, FShown, TabIsOfTheSession, Files!TabIsOfTheSession

\* What the invariant says of a settled tab is the property.
LEMMA ListFromInvariant == FInv => SettledListIsExact
  BY DEF FInv, FList, Settling, Accounted, current, SettledListIsExact, Files!SettledListIsExact,
         Files!sessionId

\* The panel is drawn anew and its list asked for, or gone.
Drawn(p) ==
  /\ panel' \in Panels \cup {NONE} /\ behind' \in BOOLEAN
  /\ tab' = "workspace" <=> panel' # NONE
  /\ \A o \in ops' : Fits(o)'
  /\ panel' # NONE => /\ panel'.list = NONE
                      /\ panel'.view = IF p = NONE THEN NONE ELSE p.view
  /\ FList'

\* A request that is sent is for the session shown.
LEMMA NewOpFits ==
  ASSUME SessionsOK', NEW op \in {"list", "read", "write", "delete"},
         NEW path \in Paths \cup {NONE}, op # "list" => path \in Paths,
         NEW text \in Contents \cup {NONE}, op = "write" => text \in Contents,
         NEW o, o = Files!Op(op, path, text)
  PROVE  Fits(o)' /\ o.op = op /\ o.phase = "sent"
  BY DEF SessionsOK, Fits, FileOps, Files!Op, current, FileSids

\* The list is asked for again, in the panel p, with os on their way.
LEMMA LoadGives ==
  ASSUME NEW p \in Panels, NEW os, \A o \in os : Fits(o)', SessionsOK', behind \in BOOLEAN,
         ~behind => OneListing(os), tab' = "workspace",
         Files!loadWorkspace(p, os)
  PROVE  Drawn(p)
  <1> DEFINE new == Files!Op("list", NONE, NONE)
  <1>1. /\ panel' = [p EXCEPT !.list = NONE] /\ ops' = os \cup {new}
        /\ behind' = ((behind /\ os # {}) \/ \E o \in os : o.op = "list")
    BY DEF Files!loadWorkspace
  <1>2. panel' \in Panels /\ panel' # NONE /\ panel'.list = NONE /\ panel'.view = p.view
    BY <1>1, PanelIsThere DEF Panels
  <1>3. new.op = "list" /\ new.phase = "sent" /\ \A o : o = new => Fits(o)'
    BY NewOpFits
  <1>4. \A o \in ops' : Fits(o)'
    BY <1>1, <1>3
  <1>5. behind' \in BOOLEAN /\ (~behind' => \A o \in os : o.op # "list")
    BY <1>1
  <1>6. p # NONE
    BY PanelIsThere
  <1> HIDE DEF new
  <1>7. FList'
    BY <1>1, <1>2, <1>3, <1>5 DEF FList, Settling, OneListing
  <1> QED
    BY <1>2, <1>4, <1>5, <1>6, <1>7 DEF Drawn

\* A request stays one whose panel is gone.
LEMMA DetachedFits ==
  ASSUME NEW r, Fits(r)', NEW o, o = [r EXCEPT !.here = FALSE]
  PROVE  Fits(o)' /\ o.op = r.op
  <1>1. r \in FileOps
    BY DEF Fits
  <1>2. /\ o \in FileOps /\ o.op = r.op /\ o.sid = r.sid /\ o.lang = r.lang
        /\ o.path = r.path /\ o.text = r.text /\ o.phase = r.phase /\ o.result = r.result
    BY <1>1 DEF FileOps
  <1> QED
    BY <1>2 DEF Fits

\* A panel is drawn for the Workspace tab, and for no other.
LEMMA DisplayGives ==
  ASSUME NEW p \in Panels \cup {NONE}, NEW os, \A o \in os : Fits(o)', SessionsOK',
         behind \in BOOLEAN, ~behind => OneListing(os),
         Files!display(p, os)
  PROVE  Drawn(p)
  <1>1. CASE tab' = "workspace"
    <2>1. Files!renderWorkspacePanel(p, os)
      BY <1>1 DEF Files!display
    <2>2. CASE p = NONE
      <3> DEFINE empty == [list |-> NONE, view |-> NONE]
      <3>1. empty \in Panels /\ empty # NONE /\ empty.view = NONE
        BY PanelIsThere DEF Panels
      <3>2. Files!loadWorkspace(empty, os)
        BY <2>1, <2>2 DEF Files!renderWorkspacePanel
      <3> HIDE DEF empty
      <3>3. Drawn(empty)
        BY <1>1, <3>1, <3>2, LoadGives
      <3> QED
        BY <2>2, <3>1, <3>3 DEF Drawn
    <2>3. CASE p # NONE
      <3>1. Files!loadWorkspace(p, os)
        BY <2>1, <2>3 DEF Files!renderWorkspacePanel
      <3> QED
        BY <1>1, <2>3, <3>1, LoadGives
    <2> QED
      BY <2>2, <2>3
  <1>2. CASE tab' # "workspace"
    <2>1. panel' = NONE /\ ops' = Files!Detached(os) /\ behind' = behind
      BY <1>2 DEF Files!display
    <2>2. \A o \in ops' : \E r \in os : o = [r EXCEPT !.here = FALSE]
      BY <2>1 DEF Files!Detached
    <2>3. \A o \in ops' : Fits(o)' /\ \E r \in os : o = [r EXCEPT !.here = FALSE] /\ o.op = r.op
      BY <2>2, DetachedFits
    <2>4. ~behind => OneListing(ops')
      BY <2>3 DEF OneListing
    <2>5. FList'
      BY <2>1, <2>4 DEF FList, Settling, OneListing
    <2> QED
      BY <1>2, <2>1, <2>3, <2>5 DEF Drawn
  <1> QED
    BY <1>1, <1>2

\* What a redrawn panel shows is of whatever session it is drawn for, once the
\* view is of that session or forgotten.
LEMMA DrawnShows ==
  ASSUME NEW p \in Panels \cup {NONE}, Drawn(p),
         \/ p = NONE \/ openPath' = NONE
         \/ /\ openPath' = openPath /\ current' = current /\ p = panel /\ FShown
  PROVE  FShown'
  BY DEF Drawn, FShown, Files!ListIsOfTheSession, Files!ViewIsTheOpenFile, Files!sessionId,
         current

\* The visibility of the tab follows the mode and the session.
LEMMA VisibilityGives ==
  ASSUME Files!updateWorkspaceTabVisibility, NEW p, Drawn(p), tab \in {"workspace", "result"},
         fileApi' \in [FileSids -> BOOLEAN], repl' \in BOOLEAN, SessionsOK'
  PROVE  FTab' /\ tab' \in {"workspace", "result"} /\ hidden' \in BOOLEAN
  <1>1. /\ hidden' = ~(repl' /\ fileApi'[current'])
        /\ tab' = IF hidden' THEN "result" ELSE tab
    BY DEF Files!updateWorkspaceTabVisibility, current
  <1>2. current' \in FileSids
    BY DEF SessionsOK, current
  <1>3. fileApi'[current'] \in BOOLEAN
    BY <1>2
  <1>4. hidden' \in BOOLEAN /\ (hidden' <=> ~(repl' /\ fileApi'[current']))
    BY <1>1, <1>3 DEF Settling
  <1> QED
    BY <1>1, <1>4 DEF FTab, Drawn

\* The status is asked for the session shown.
LEMMA StatusTyped ==
  ASSUME SessionsOK', Files!refreshSessionInfo,
         statuses \subseteq [lang : Languages, sid : FileSids]
  PROVE  statuses' \subseteq [lang : Languages, sid : FileSids]
  BY DEF Files!refreshSessionInfo, SessionsOK, current

\* The invariant's parts that a step which draws the panel anew must look at.
Redrawn ==
  /\ SessionsOK' /\ LeavingOK' /\ FTab' /\ FShown'
  /\ repl' \in BOOLEAN /\ tab' \in {"workspace", "result"} /\ hidden' \in BOOLEAN
  /\ openPath' \in Paths \cup {NONE} /\ fileApi' \in [FileSids -> BOOLEAN]
  /\ statuses' \subseteq [lang : Languages, sid : FileSids]
  /\ UNCHANGED <<files, enabled>>

\* A panel that is drawn anew keeps what the tab shows in step.
LEMMA RedrawnInvariant ==
  ASSUME FInv, NEW p, Drawn(p), Redrawn
  PROVE  FInv'
  BY DEF FInv, FTypes, Drawn, Redrawn

\* The requests on their way fit the sessions when no id changes hands.
LEMMA StillFits ==
  ASSUME SessionsOK, SessionsOK', NEW o, Fits(o), newest <= newest',
         \A l \in Languages : \/ fileSessions'[l] = fileSessions[l]
                              \/ fileSessions'[l] > newest
  PROVE  Fits(o)'
  BY DEF Fits, FileOps, SessionsOK, FileSids

\* The parts of the invariant that most steps need.
LEMMA FilesFacts ==
  ASSUME FInv
  PROVE  /\ SessionsOK /\ LeavingOK /\ \A o \in ops : Fits(o)
         /\ repl \in BOOLEAN /\ tab \in {"workspace", "result"} /\ hidden \in BOOLEAN
         /\ behind \in BOOLEAN /\ panel \in Panels \cup {NONE}
         /\ openPath \in Paths \cup {NONE} /\ fileApi \in [FileSids -> BOOLEAN]
         /\ statuses \subseteq [lang : Languages, sid : FileSids]
         /\ (~behind => OneListing(ops)) /\ FTab /\ FShown
         /\ panel # NONE => panel \in Panels
  BY DEF FInv, FTypes, FList, Settling

\* A step that leaves the sessions, the tabs and what is shown of them alone.
Kept ==
  /\ UNCHANGED <<fileLanguage, repl, fileSessions, newest, tab, hidden, fileApi, statuses>>
  /\ enabled' = enabled

\* What remains to be seen of such a step.
LEMMA KeptInvariant ==
  ASSUME FInv, Kept, LeavingOK', \A o \in ops' : Fits(o), FShown', FList',
         panel' \in Panels \cup {NONE}, panel' # NONE <=> panel # NONE,
         openPath' \in Paths \cup {NONE}, behind' \in BOOLEAN,
         files' \in [FileSids -> [Paths -> Contents \cup {NONE}] \cup {NONE}]
  PROVE  FInv'
  <1>1. SessionsOK'
    BY FilesFacts DEF Kept, SessionsOK, current
  <1>2. \A o \in ops' : Fits(o)'
    BY DEF Fits, Kept
  <1>3. FTab'
    BY FilesFacts DEF Kept, FTab, current
  <1> QED
    BY <1>1, <1>2, <1>3 DEF FInv, FTypes, Kept

\* A click or a line stays one when it is taken up or outdated.
LEMMA LeftAlike ==
  ASSUME NEW r, Left(r)', NEW q,
         q = r \/ q = [r EXCEPT !.fresh = FALSE] \/ q = [r EXCEPT !.handled = TRUE]
  PROVE  Left(q)' /\ q.op = r.op /\ q.lang = r.lang /\ q.sid = r.sid
  <1>1. CASE q = r
    BY <1>1
  <1>2. CASE q = [r EXCEPT !.fresh = FALSE]
    <2>1. q = [op |-> r.op, lang |-> r.lang, sid |-> r.sid, fresh |-> FALSE,
               handled |-> r.handled, nr |-> r.nr]
      BY <1>2 DEF Left
    <2> QED
      BY <2>1 DEF Left
  <1>3. CASE q = [r EXCEPT !.handled = TRUE]
    <2>1. q = [op |-> r.op, lang |-> r.lang, sid |-> r.sid, fresh |-> r.fresh,
               handled |-> TRUE, nr |-> r.nr]
      BY <1>3 DEF Left
    <2> QED
      BY <2>1 DEF Left
  <1> QED
    BY <1>1, <1>2, <1>3

\* Outdated, they are the same clicks and lines.
LEMMA OutdatedLeft ==
  ASSUME \A r \in leaving : Left(r)'
  PROVE  /\ \A q \in Files!Outdated(leaving) : Left(q)'
         /\ \A r \in leaving : \E q \in Files!Outdated(leaving) : q.op = r.op /\ q.sid = r.sid
  <1> DEFINE late(r) == IF r.op = "line" THEN [r EXCEPT !.fresh = FALSE] ELSE r
  <1>1. \A r \in leaving : Left(late(r))' /\ late(r).op = r.op /\ late(r).sid = r.sid
    <2> SUFFICES ASSUME NEW r \in leaving
                 PROVE  \A q : q = late(r) => Left(q)' /\ q.op = r.op /\ q.sid = r.sid
      OBVIOUS
    <2>1. Left(r)'
      OBVIOUS
    <2>2. \A q : q = late(r) => q = r \/ q = [r EXCEPT !.fresh = FALSE]
      OBVIOUS
    <2> HIDE DEF late
    <2> QED
      BY <2>1, <2>2, LeftAlike
  <1>2. Files!Outdated(leaving) = {late(r) : r \in leaving}
    BY DEF Files!Outdated
  <1> HIDE DEF late
  <1> QED
    BY <1>1, <1>2

\* The user's clicks.
LEMMA SelectTabStep ==
  ASSUME FInv, NEW t \in {"workspace", "result"}, Files!SelectTab(t)
  PROVE  FInv'
  <1>0. /\ tab' = t /\ (t = "workspace" => ~hidden) /\ Files!display(panel, ops)
        /\ UNCHANGED <<fileLanguage, repl, fileSessions, newest, hidden, fileApi, statuses,
                       openPath, leaving, files, enabled>>
    BY DEF Files!SelectTab, Files!user
  <1>1. SessionsOK' /\ LeavingOK' /\ (\A o \in ops : Fits(o)') /\ current' = current
    BY <1>0, FilesFacts DEF SessionsOK, LeavingOK, Left, Fits, current
  <1>2. Drawn(panel)
    BY <1>0, <1>1, FilesFacts, DisplayGives
  <1>3. FShown'
    BY <1>0, <1>1, <1>2, FilesFacts, DrawnShows
  <1>4. FTab'
    BY <1>0, <1>1, <1>2, FilesFacts DEF FTab, Drawn
  <1>5. Redrawn
    BY <1>0, <1>1, <1>3, <1>4, FilesFacts DEF Redrawn
  <1> QED
    BY <1>2, <1>5, RedrawnInvariant

\* refreshFilesTab: opening the tab, or Refresh, asks for the list.
LEMMA RefreshStep ==
  ASSUME FInv, Files!Refresh
  PROVE  FInv'
  <1>0. /\ panel # NONE /\ Files!loadWorkspace(panel, ops)
        /\ UNCHANGED <<fileLanguage, repl, fileSessions, newest, tab, hidden, fileApi, statuses,
                       openPath, leaving, files, enabled>>
    BY DEF Files!Refresh, Files!user, Files!tabs
  <1>1. /\ SessionsOK' /\ LeavingOK' /\ (\A o \in ops : Fits(o)') /\ current' = current
        /\ tab' = "workspace"
    BY <1>0, FilesFacts DEF SessionsOK, LeavingOK, Left, Fits, current, FTab
  <1>2. Drawn(panel)
    BY <1>0, <1>1, FilesFacts, LoadGives
  <1>3. FShown'
    BY <1>0, <1>1, <1>2, FilesFacts, DrawnShows
  <1>4. FTab'
    BY <1>0, <1>1, <1>2, FilesFacts DEF FTab, Drawn
  <1>5. Redrawn
    BY <1>0, <1>1, <1>3, <1>4, FilesFacts DEF Redrawn
  <1> QED
    BY <1>2, <1>5, RedrawnInvariant

\* Changing the mode shows or hides the tab.
LEMMA FilesModeStep ==
  ASSUME FInv, Files!setMode
  PROVE  FInv'
  <1>0. /\ repl' = ~repl /\ Files!updateWorkspaceTabVisibility /\ Files!refreshSessionInfo
        /\ Files!display(panel, ops)
        /\ UNCHANGED <<fileLanguage, fileSessions, newest, fileApi, openPath, leaving, files,
                       enabled>>
    BY DEF Files!setMode
  <1>1. SessionsOK' /\ LeavingOK' /\ (\A o \in ops : Fits(o)') /\ current' = current
    BY <1>0, FilesFacts DEF SessionsOK, LeavingOK, Left, Fits, current
  <1>2. Drawn(panel)
    BY <1>0, <1>1, FilesFacts, DisplayGives
  <1>3. FShown'
    BY <1>0, <1>1, <1>2, FilesFacts, DrawnShows
  <1>4. repl' \in BOOLEAN /\ fileApi' \in [FileSids -> BOOLEAN]
    BY <1>0, FilesFacts
  <1>5. FTab' /\ tab' \in {"workspace", "result"} /\ hidden' \in BOOLEAN
    BY <1>0, <1>1, <1>2, <1>4, FilesFacts, VisibilityGives
  <1>6. statuses' \subseteq [lang : Languages, sid : FileSids]
    BY <1>0, <1>1, FilesFacts, StatusTyped
  <1>7. Redrawn
    BY <1>0, <1>1, <1>3, <1>4, <1>5, <1>6, FilesFacts DEF Redrawn
  <1> QED
    BY <1>2, <1>7, RedrawnInvariant

\* A change of language forgets the panel, so the requests it was made for.
LEMMA FilesLanguageStep ==
  ASSUME FInv, NEW l \in Languages, Files!switchLanguage(l)
  PROVE  FInv'
  <1>0. /\ fileSessions[l] # 0 \/ newest < MaxSessions
        /\ fileLanguage' = l
        /\ fileSessions' = IF fileSessions[l] = 0 THEN [fileSessions EXCEPT ![l] = newest + 1]
                           ELSE fileSessions
        /\ newest' = IF fileSessions[l] = 0 THEN newest + 1 ELSE newest
        /\ Files!updateWorkspaceTabVisibility /\ Files!refreshSessionInfo
        /\ Files!display(NONE, Files!Detached(ops))
        /\ leaving' = Files!Outdated(leaving)
        /\ UNCHANGED <<repl, fileApi, openPath, files, enabled>>
    BY DEF Files!switchLanguage, Files!newSessionId
  <1>1. /\ SessionsOK' /\ newest <= newest'
        /\ \A m \in Languages : \/ fileSessions'[m] = fileSessions[m]
                                \/ fileSessions'[m] > newest /\ fileSessions[m] = 0
    BY <1>0, FilesFacts, FilesAssumption DEF SessionsOK, current, FileSids
  <1>2. \A o \in ops : Fits(o)'
    BY <1>1, FilesFacts, StillFits
  <1>3. LeavingOK'
    <2>1. \A q \in leaving : Left(q)'
      BY <1>1, FilesFacts DEF LeavingOK, Left, SessionsOK, FileSids
    <2> QED
      BY <1>0, <2>1, OutdatedLeft DEF LeavingOK
  <1>4. \A o \in Files!Detached(ops) : \E r \in ops : o = [r EXCEPT !.here = FALSE]
    BY DEF Files!Detached
  <1>5. \A o \in Files!Detached(ops) :
          Fits(o)' /\ \E r \in ops : o = [r EXCEPT !.here = FALSE] /\ o.op = r.op
    BY <1>2, <1>4, DetachedFits
  <1>6. ~behind => OneListing(Files!Detached(ops))
    <2>1. ~behind => OneListing(ops)
      BY FilesFacts
    <2> QED
      BY ONLY <1>5, <2>1 DEF OneListing
  <1>7. Drawn(NONE)
    BY <1>0, <1>1, <1>5, <1>6, FilesFacts, DisplayGives
  <1>8. FShown'
    BY <1>7, DrawnShows
  <1>9. FTab' /\ tab' \in {"workspace", "result"} /\ hidden' \in BOOLEAN
    BY <1>0, <1>1, <1>7, FilesFacts, VisibilityGives
  <1>10. statuses' \subseteq [lang : Languages, sid : FileSids]
    BY <1>0, <1>1, FilesFacts, StatusTyped
  <1>11. Redrawn
    BY <1>0, <1>1, <1>3, <1>8, <1>9, <1>10, FilesFacts DEF Redrawn
  <1> QED
    BY <1>7, <1>11, RedrawnInvariant

\* New session gives the language an id that no request has.
LEMMA FilesNewSessionStep ==
  ASSUME FInv, NEW q \in leaving, Files!NewSessionContinues(q)
  PROVE  FInv'
  <1>0. /\ newest < MaxSessions /\ leaving' = leaving \ {q} /\ newest' = newest + 1
        /\ fileSessions' = [fileSessions EXCEPT ![q.lang] = newest + 1]
        /\ openPath' = NONE
        /\ Files!updateWorkspaceTabVisibility /\ Files!refreshSessionInfo
        /\ Files!display(panel, ops)
        /\ UNCHANGED <<fileLanguage, repl, fileApi, files, enabled>>
    BY DEF Files!NewSessionContinues, Files!newSessionId, Files!ForgetOpenPath
  <1>q. q.lang \in Languages
    BY FilesFacts DEF LeavingOK, Left
  <1>1. /\ SessionsOK' /\ newest <= newest'
        /\ \A m \in Languages : fileSessions'[m] =
             IF m = q.lang THEN newest + 1 ELSE fileSessions[m]
    BY <1>0, <1>q, FilesFacts, FilesAssumption DEF SessionsOK, current, FileSids
  <1>2. \A o \in ops : Fits(o)'
    <2>1. \A m \in Languages : fileSessions'[m] = fileSessions[m] \/ fileSessions'[m] > newest
      BY <1>1, FilesFacts DEF SessionsOK, FileSids
    <2> QED
      BY <1>1, <2>1, FilesFacts, StillFits
  <1>3. LeavingOK'
    <2>1. newest \in FileSids
      BY FilesFacts DEF SessionsOK
    <2> QED
      BY <1>0, <1>1, <2>1, FilesFacts DEF LeavingOK, Left, FileSids
  <1>4. Drawn(panel)
    BY <1>0, <1>1, <1>2, FilesFacts, DisplayGives
  <1>5. FShown'
    BY <1>0, <1>4, FilesFacts, DrawnShows
  <1>6. FTab' /\ tab' \in {"workspace", "result"} /\ hidden' \in BOOLEAN
    BY <1>0, <1>1, <1>4, FilesFacts, VisibilityGives
  <1>7. statuses' \subseteq [lang : Languages, sid : FileSids]
    BY <1>0, <1>1, FilesFacts, StatusTyped
  <1>8. Redrawn
    BY <1>0, <1>1, <1>3, <1>5, <1>6, <1>7, FilesFacts DEF Redrawn
  <1> QED
    BY <1>4, <1>8, RedrawnInvariant

\* The answer to Reset, as far as the tab is concerned.
LEMMA FilesResetStep ==
  ASSUME FInv, NEW q \in leaving, Files!ResetContinues(q)
  PROVE  FInv'
  <1>0. /\ leaving' = leaving \ {q} /\ openPath' = NONE
        /\ Files!refreshSessionInfo /\ Files!display(panel, ops)
        /\ UNCHANGED <<fileLanguage, repl, fileSessions, newest, tab, hidden, fileApi, files,
                       enabled>>
    BY DEF Files!ResetContinues, Files!user
  <1>1. SessionsOK' /\ LeavingOK' /\ (\A o \in ops : Fits(o)') /\ current' = current
    BY <1>0, FilesFacts DEF SessionsOK, LeavingOK, Left, Fits, current
  <1>2. Drawn(panel)
    BY <1>0, <1>1, FilesFacts, DisplayGives
  <1>3. FShown'
    BY <1>0, <1>2, FilesFacts, DrawnShows
  <1>4. FTab'
    BY <1>0, <1>1, <1>2, FilesFacts DEF FTab, Drawn
  <1>5. statuses' \subseteq [lang : Languages, sid : FileSids]
    BY <1>0, <1>1, FilesFacts, StatusTyped
  <1>6. Redrawn
    BY <1>0, <1>1, <1>3, <1>4, <1>5, FilesFacts DEF Redrawn
  <1> QED
    BY <1>2, <1>6, RedrawnInvariant

\* A status answer of the session shown draws the tab anew.
LEMMA FilesInfoStep ==
  ASSUME FInv, NEW i \in statuses, NEW ok \in BOOLEAN, Files!InfoAnswers(i, ok)
  PROVE  FInv'
  <1>0. /\ statuses' = statuses \ {i}
        /\ UNCHANGED <<fileLanguage, repl, fileSessions, newest, openPath, leaving, files,
                       enabled>>
    BY DEF Files!InfoAnswers, Files!user
  <1>1. SessionsOK' /\ LeavingOK' /\ (\A o \in ops : Fits(o)') /\ current' = current
    BY <1>0, FilesFacts DEF SessionsOK, LeavingOK, Left, Fits, current
  <1>2. statuses' \subseteq [lang : Languages, sid : FileSids] /\ i.sid \in FileSids
    BY <1>0, FilesFacts
  <1>3. CASE Files!IsStale(i)
    <2>1. UNCHANGED <<fileApi, hidden, tab, panel, ops, behind>>
      BY <1>3 DEF Files!InfoAnswers
    <2>2. \A j \in statuses : j.lang = fileLanguage /\ j.sid = current => j \in statuses'
      BY <1>0, <1>3 DEF Files!IsStale, current
    <2> QED
      BY <1>0, <1>1, <1>2, <2>1, <2>2 DEF FInv, FTypes, FTab, FShown, FList, Settling, OneListing,
         Accounted, Reloads, Files!ListIsOfTheSession, Files!ViewIsTheOpenFile, Files!sessionId,
         current
  <1>4. CASE ~Files!IsStale(i)
    <2>1. /\ fileApi' = [fileApi EXCEPT ![i.sid] = IF ok THEN enabled ELSE @]
          /\ Files!updateWorkspaceTabVisibility /\ Files!display(panel, ops)
      BY <1>4 DEF Files!InfoAnswers, Files!ShowsTab
    <2>2. enabled \in BOOLEAN
      BY DEF FInv, FTypes
    <2>3. fileApi' \in [FileSids -> BOOLEAN] /\ repl' \in BOOLEAN
      BY <1>0, <1>2, <2>1, <2>2, FilesFacts
    <2>4. Drawn(panel)
      BY <1>1, <2>1, FilesFacts, DisplayGives
    <2>5. FShown'
      BY <1>0, <1>1, <2>4, FilesFacts, DrawnShows
    <2>6. FTab' /\ tab' \in {"workspace", "result"} /\ hidden' \in BOOLEAN
      BY <1>1, <2>1, <2>3, <2>4, FilesFacts, VisibilityGives
    <2>7. Redrawn
      BY <1>0, <1>1, <1>2, <2>3, <2>5, <2>6, FilesFacts DEF Redrawn
    <2> QED
      BY <2>4, <2>7, RedrawnInvariant
  <1> QED
    BY <1>3, <1>4

\* The clicks and lines on their way still are, taken up or not, and the status
\* is still to come.
Awaits ==
  /\ \A q \in leaving : \E r \in leaving' : r.op = q.op /\ r.sid = q.sid
  /\ statuses \subseteq statuses' /\ fileLanguage' = fileLanguage

LEMMA StillAwaits == UNCHANGED <<leaving, statuses, fileLanguage>> => Awaits
  BY DEF Awaits

\* What was accounted for still is, while the changes that will be answered
\* are still there.
LEMMA StillAccounted ==
  ASSUME NEW paths, Accounted(paths), current' = current, Awaits,
         files'[current] = files[current], \A o \in ops : Reloads(o) => o \in ops'
  PROVE  Accounted(paths)'
  BY DEF Accounted, Reloads, Awaits

\* The list is kept, and so is what it shows.
LEMMA ListStays ==
  ASSUME FList, ~behind' => ~behind, current' = current, Awaits,
         files'[current] = files[current],
         \A o \in ops : Reloads(o) => o \in ops',
         \A o \in ops' : o.op = "list" => o \in ops,
         panel' # NONE => /\ panel # NONE
                          /\ panel'.list \in {panel.list, NONE}
  PROVE  FList'
  <1> SUFFICES ASSUME ~behind' PROVE Settling'
    BY DEF FList
  <1>0. \A w : Accounted(w) => Accounted(w)'
    BY StillAccounted
  <1>1. Settling
    BY DEF FList
  <1>2. OneListing(ops')
    BY <1>1 DEF Settling, OneListing
  <1>3. ASSUME panel' # NONE, panel'.list # NONE
        PROVE  (\A o \in ops' : o.op # "list") /\ \A w : w = panel'.list.paths => Accounted(w)'
    <2>1. panel'.list = panel.list /\ (\A o \in ops : o.op # "list")
          /\ Accounted(panel.list.paths)
      BY <1>1, <1>3 DEF Settling
    <2>2. \A w : w = panel.list.paths => Accounted(w)'
      BY <2>1, <1>0
    <2> QED
      BY <2>1, <2>2
  <1>4. ASSUME panel' # NONE, NEW o \in ops', o.op = "list", o.phase = "done", o.sid = current'
        PROVE  \A w : w = o.result => Accounted(w)'
    <2>1. o \in ops /\ Accounted(o.result)
      BY <1>1, <1>4 DEF Settling
    <2> QED
      BY <2>1, <1>0
  <1> QED
    BY <1>2, <1>3, <1>4 DEF Settling, Accounted, Reloads

\* The parts of the invariant on the list, each for the step's own reasons.
LEMMA SettlingFromParts ==
  ASSUME OneListing(ops'),
         panel' # NONE /\ panel'.list # NONE =>
           (\A o \in ops' : o.op # "list") /\ \A w : w = panel'.list.paths => Accounted(w)',
         \A o \in ops' : o.op = "list" /\ o.phase = "done" /\ o.sid = current' /\ panel' # NONE =>
                           \A w : w = o.result => Accounted(w)'
  PROVE  Settling'
  BY DEF Settling, Accounted, Reloads

\* A button sends a request and changes nothing else.
LEMMA SendStep ==
  ASSUME FInv, NEW op \in {"read", "write", "delete"}, NEW path \in Paths,
         NEW text \in Contents \cup {NONE}, op = "write" => text \in Contents,
         Files!Send(op, path, text)
  PROVE  FInv'
  <1> DEFINE new == Files!Op(op, path, text)
  <1>0. /\ ops' = ops \cup {new}
        /\ Kept /\ UNCHANGED <<panel, openPath, leaving, files, behind>>
    BY DEF Files!Send, Files!user, Files!tabs, Kept
  <1>1. SessionsOK' /\ LeavingOK' /\ (\A o \in ops : Fits(o)') /\ current' = current
    BY <1>0, FilesFacts DEF SessionsOK, LeavingOK, Left, Fits, current, Kept
  <1>2. new.op = op /\ \A o : o = new => Fits(o)'
    BY <1>1, NewOpFits
  <1> HIDE DEF new
  <1>3. \A o \in ops' : Fits(o)
    BY <1>0, <1>2, FilesFacts DEF Fits, Kept
  <1>4. FShown'
    BY <1>0, FilesFacts DEF FShown, Files!ListIsOfTheSession, Files!ViewIsTheOpenFile,
       Files!sessionId, current, Kept
  <1>a. Awaits
    BY <1>0, StillAwaits DEF Kept
  <1>5. FList'
    BY <1>0, <1>1, <1>2, <1>a, ListStays DEF FInv
  <1>6. files' \in [FileSids -> [Paths -> Contents \cup {NONE}] \cup {NONE}]
    BY <1>0 DEF FInv, FTypes
  <1> QED
    BY <1>0, <1>1, <1>3, <1>4, <1>5, <1>6, FilesFacts, KeptInvariant

\* Opening, creating, saving and deleting a file.
LEMMA ClicksStep ==
  ASSUME FInv,
         \/ \E p \in Paths : Files!ClickFile(p) \/ \E c \in Contents : Files!ClickCreate(p, c)
         \/ \E c \in Contents : Files!ClickSave(c)
         \/ Files!ClickDelete
  PROVE  FInv'
  <1>1. panel # NONE /\ panel.view # NONE => panel.view.path \in Paths
    BY FilesFacts DEF Panels, Views
  <1>2. ASSUME NEW p \in Paths, Files!ClickFile(p) PROVE FInv'
    BY <1>2, SendStep DEF Files!ClickFile
  <1>3. ASSUME NEW p \in Paths, NEW c \in Contents, Files!ClickCreate(p, c) PROVE FInv'
    BY <1>3, SendStep DEF Files!ClickCreate
  <1>4. ASSUME NEW c \in Contents, Files!ClickSave(c) PROVE FInv'
    BY <1>1, <1>4, SendStep DEF Files!ClickSave
  <1>5. ASSUME Files!ClickDelete PROVE FInv'
    BY <1>1, <1>5, SendStep DEF Files!ClickDelete
  <1> QED
    BY <1>2, <1>3, <1>4, <1>5

\* A click or a line that is sent is of the session shown.
LEMMA RequestLeft ==
  ASSUME SessionsOK, SessionsOK', NEW op \in {"new", "reset", "line"}, current' = current,
         UNCHANGED <<fileLanguage, fileSessions, newest>>, NEW q, q = Files!Request(op)
  PROVE  Left(q)'
  <1>1. \E n : q = [op |-> op, lang |-> fileLanguage, sid |-> current, fresh |-> TRUE,
                    handled |-> FALSE, nr |-> n]
    BY Zenon DEF Files!Request, Files!sessionId, current
  <1>2. current \in FileSids /\ current <= newest /\ fileLanguage \in Languages
    BY DEF SessionsOK, current
  <1> QED
    BY <1>1, <1>2 DEF Left, SessionsOK, current

\* New session or Reset is asked for.
LEMMA FilesAskStep ==
  ASSUME FInv, NEW op \in {"new", "reset"}, Files!Ask(op)
  PROVE  FInv'
  <1> DEFINE new == Files!Request(op)
  <1>0. /\ leaving' = Files!Outdated(leaving) \cup {new}
        /\ Kept /\ UNCHANGED <<panel, openPath, ops, files, behind>>
    BY DEF Files!Ask, Files!user, Files!tabs, Kept
  <1>1. current' = current /\ SessionsOK' /\ \A q \in leaving : Left(q)'
    BY <1>0, FilesFacts DEF Kept, current, SessionsOK, LeavingOK, Left
  <1>2. \A q : q = new => Left(q)'
    BY <1>0, <1>1, FilesFacts, RequestLeft DEF Kept
  <1> HIDE DEF new
  <1>3. LeavingOK'
    BY <1>0, <1>1, <1>2, OutdatedLeft DEF LeavingOK
  <1>4. Awaits
    BY <1>0, <1>1, OutdatedLeft DEF Awaits, Kept
  <1>5. FShown'
    BY <1>0, FilesFacts DEF FShown, Files!ListIsOfTheSession, Files!ViewIsTheOpenFile,
       Files!sessionId, current, Kept
  <1>6. FList'
    BY <1>0, <1>1, <1>4, ListStays DEF FInv
  <1>7. files' \in [FileSids -> [Paths -> Contents \cup {NONE}] \cup {NONE}]
    BY <1>0 DEF FInv, FTypes
  <1> QED
    BY <1>0, <1>3, <1>5, <1>6, <1>7, FilesFacts, KeptInvariant

\* The panel is drawn anew for the cell on display, or left.
LEMMA MayRedrawStep ==
  ASSUME FInv, Files!MayRedraw, LeavingOK', UNCHANGED <<panel, ops, behind>> => FList',
         statuses' \subseteq [lang : Languages, sid : FileSids],
         UNCHANGED <<fileLanguage, repl, fileSessions, newest, tab, hidden, fileApi, openPath,
                     files, enabled>>
  PROVE  FInv'
  <1>1. SessionsOK' /\ (\A o \in ops : Fits(o)') /\ current' = current
    BY FilesFacts DEF SessionsOK, Fits, current
  <1>2. CASE Files!display(panel, ops)
    <2>1. Drawn(panel)
      BY <1>1, <1>2, FilesFacts, DisplayGives
    <2>2. FShown'
      BY <1>1, <2>1, FilesFacts, DrawnShows
    <2>3. FTab'
      BY <1>1, <2>1, FilesFacts DEF FTab, Drawn
    <2>4. Redrawn
      BY <1>1, <2>2, <2>3, FilesFacts DEF Redrawn
    <2> QED
      BY <2>1, <2>4, RedrawnInvariant
  <1>3. CASE UNCHANGED <<panel, ops, behind>>
    <2>1. FList'
      BY <1>3
    <2>2. FTab' /\ FShown'
      BY <1>1, <1>3, FilesFacts DEF FTab, FShown, Files!ListIsOfTheSession,
         Files!ViewIsTheOpenFile, Files!sessionId, current
    <2>3. \A o \in ops' : Fits(o)'
      BY <1>1, <1>3
    <2>4. files' \in [FileSids -> [Paths -> Contents \cup {NONE}] \cup {NONE}]
          /\ enabled' \in BOOLEAN
      BY DEF FInv, FTypes
    <2> QED
      BY <1>1, <1>3, <2>1, <2>2, <2>3, <2>4, FilesFacts DEF FInv, FTypes
  <1> QED
    BY <1>2, <1>3 DEF Files!MayRedraw

\* A line is entered.
LEMMA FilesLineStep ==
  ASSUME FInv, Files!EnterLine
  PROVE  FInv'
  <1> DEFINE new == Files!Request("line")
  <1>0. /\ leaving' = leaving \cup {new} /\ Files!MayRedraw
        /\ UNCHANGED <<fileLanguage, repl, fileSessions, newest, tab, hidden, fileApi, statuses,
                       openPath, files, enabled>>
    BY DEF Files!EnterLine, Files!user, Files!tabs
  <1>1. current' = current /\ SessionsOK' /\ \A q \in leaving : Left(q)'
    BY <1>0, FilesFacts DEF current, SessionsOK, LeavingOK, Left
  <1>2. \A q : q = new => Left(q)'
    BY <1>0, <1>1, FilesFacts, RequestLeft
  <1> HIDE DEF new
  <1>3. LeavingOK' /\ Awaits
    BY <1>0, <1>1, <1>2 DEF LeavingOK, Awaits
  <1>4. UNCHANGED <<panel, ops, behind>> => FList'
    <2> SUFFICES ASSUME UNCHANGED <<panel, ops, behind>> PROVE FList'
      OBVIOUS
    <2> QED
      BY <1>0, <1>1, <1>3, ListStays DEF FInv
  <1> QED
    BY <1>0, <1>3, <1>4, FilesFacts, MayRedrawStep

\* A line that runs changes the files, and its answer will ask for the status
\* unless it comes too late.
LEMMA FilesRunStep ==
  ASSUME FInv, NEW q \in leaving, Files!ServerRuns(q)
  PROVE  FInv'
  <1> DEFINE ran == [q EXCEPT !.handled = TRUE]
  <1>0. /\ q.op = "line" /\ behind' = (behind \/ ~q.fresh)
        /\ leaving' = (leaving \ {q}) \cup IF q.fresh THEN {ran} ELSE {}
        /\ Kept /\ UNCHANGED <<panel, openPath, ops>>
    BY DEF Files!ServerRuns, Files!user, Files!tabs, Kept
  <1>1. PICK left \in [Paths -> Contents \cup {NONE}] : files' = [files EXCEPT ![q.sid] = left]
    BY DEF Files!ServerRuns
  <1>2. /\ current' = current /\ q.sid \in FileSids /\ current \in FileSids
        /\ q.fresh \in BOOLEAN /\ \A r \in leaving : Left(r)'
    BY <1>0, FilesFacts DEF Kept, current, LeavingOK, Left, SessionsOK
  <1>3. \A r : r = ran => Left(r)' /\ r.op = q.op /\ r.sid = q.sid
    BY <1>2, LeftAlike
  <1> HIDE DEF ran
  <1>4. files \in [FileSids -> [Paths -> Contents \cup {NONE}] \cup {NONE}]
    BY DEF FInv, FTypes
  <1>5. files' \in [FileSids -> [Paths -> Contents \cup {NONE}] \cup {NONE}]
    BY <1>1, <1>2, <1>4
  <1>6. LeavingOK'
    BY <1>0, <1>2, <1>3 DEF LeavingOK
  <1>7. FShown'
    BY <1>0, FilesFacts DEF FShown, Files!ListIsOfTheSession, Files!ViewIsTheOpenFile,
       Files!sessionId, current, Kept
  <1>8. FList'
    <2> SUFFICES ASSUME ~behind' PROVE FList'
      BY DEF FList
    <2>1. ~behind /\ ran \in leaving' /\ ran.op = "line" /\ ran.sid = q.sid
      BY <1>0, <1>2, <1>3
    <2>2. CASE q.sid = current
      <3>1. \A w : Accounted(w)'
        BY <1>2, <2>1, <2>2 DEF Accounted
      <3>2. Settling
        BY <2>1 DEF FInv, FList
      <3>3. /\ OneListing(ops')
            /\ panel' # NONE /\ panel'.list # NONE => \A o \in ops' : o.op # "list"
        BY <1>0, <3>2 DEF Settling
      <3>4. Settling'
        BY <3>1, <3>3, SettlingFromParts
      <3> QED
        BY <3>4 DEF FList
    <2>3. CASE q.sid # current
      <3>1. files'[current] = files[current]
        BY <1>1, <1>2, <1>4, <2>3
      <3>2. Awaits
        BY <1>0, <2>1 DEF Awaits, Kept
      <3> QED
        BY <1>0, <1>2, <2>1, <3>1, <3>2, ListStays DEF FInv
    <2> QED
      BY <2>2, <2>3
  <1>9. behind' \in BOOLEAN
    BY <1>0, <1>2, FilesFacts
  <1> QED
    BY <1>0, <1>5, <1>6, <1>7, <1>8, <1>9, FilesFacts, KeptInvariant

\* A line is shown as answered: the status is asked for, or the answer is dropped.
LEMMA FilesLineAnswersStep ==
  ASSUME FInv, NEW q \in leaving, Files!LineAnswers(q)
  PROVE  FInv'
  <1> DEFINE late == [q EXCEPT !.fresh = FALSE]
  <1>0. /\ q.op = "line" /\ (q.fresh \/ q.handled)
        /\ leaving' = (leaving \ {q}) \cup IF q.handled THEN {} ELSE {late}
        /\ UNCHANGED <<fileLanguage, repl, fileSessions, newest, tab, hidden, fileApi, openPath,
                       files, enabled>>
    BY DEF Files!LineAnswers, Files!user
  <1>1. /\ current' = current /\ q.handled \in BOOLEAN /\ q.fresh \in BOOLEAN
        /\ SessionsOK' /\ \A r \in leaving : Left(r)'
    BY <1>0, FilesFacts DEF current, LeavingOK, Left, SessionsOK
  <1>2. \A r : r = late => Left(r)' /\ r.op = q.op /\ r.sid = q.sid
    BY <1>1, LeftAlike
  <1> HIDE DEF late
  <1>3. LeavingOK'
    BY <1>0, <1>1, <1>2 DEF LeavingOK
  <1>4. CASE q.fresh /\ ~Files!IsStale(q)
    <2>1. Files!refreshSessionInfo /\ Files!MayRedraw
      BY <1>4 DEF Files!LineAnswers
    <2>2. statuses' \subseteq [lang : Languages, sid : FileSids]
      BY <1>1, <2>1, FilesFacts, StatusTyped
    <2>3. UNCHANGED <<panel, ops, behind>> => FList'
      <3> SUFFICES ASSUME UNCHANGED <<panel, ops, behind>>, ~behind PROVE Settling'
        BY DEF FList
      <3>1. Settling
        BY DEF FInv, FList
      <3>2. CASE repl
        <4>1. [lang |-> fileLanguage, sid |-> current] \in statuses'
          BY <1>0, <1>1, <2>1, <3>2 DEF Files!refreshSessionInfo, current
        <4>2. \A w : Accounted(w)'
          BY <1>0, <1>1, <4>1 DEF Accounted
        <4> QED
          BY <3>1, <4>2 DEF Settling
      <3>3. CASE ~repl
        <4>1. panel' = NONE
          BY <3>3, FilesFacts DEF FTab
        <4> QED
          BY <3>1, <4>1 DEF Settling
      <3> QED
        BY <3>2, <3>3, FilesFacts
    <2> QED
      BY <1>0, <1>3, <2>1, <2>2, <2>3, MayRedrawStep
  <1>5. CASE ~(q.fresh /\ ~Files!IsStale(q))
    <2>1. UNCHANGED <<statuses, panel, ops>> /\ behind' = (behind \/ q.handled)
      BY <1>5 DEF Files!LineAnswers
    <2>2. Kept
      BY <1>0, <2>1 DEF Kept
    <2>3. FShown'
      BY <2>1, <2>2, <1>0, FilesFacts DEF FShown, Files!ListIsOfTheSession,
         Files!ViewIsTheOpenFile, Files!sessionId, current, Kept
    <2>4. FList'
      <3> SUFFICES ASSUME ~behind' PROVE FList'
        BY DEF FList
      <3>1. Awaits
        BY <1>0, <1>1, <1>2, <2>1 DEF Awaits
      <3> QED
        BY <1>0, <1>1, <2>1, <3>1, ListStays DEF FInv
    <2>5. files' \in [FileSids -> [Paths -> Contents \cup {NONE}] \cup {NONE}]
      BY <1>0 DEF FInv, FTypes
    <2>6. behind' \in BOOLEAN
      BY <1>1, <2>1, FilesFacts
    <2> QED
      BY <1>0, <1>3, <2>1, <2>2, <2>3, <2>4, <2>5, <2>6, FilesFacts, KeptInvariant
  <1> QED
    BY <1>4, <1>5

\* The sandbox that is deleted is one that is being left.
LEMMA ServerDeletesStep ==
  ASSUME FInv, NEW q \in leaving, Files!ServerDeletes(q)
  PROVE  FInv'
  <1>0. /\ q.op = "new" /\ files' = [files EXCEPT ![q.sid] = NONE]
        /\ Kept /\ UNCHANGED <<panel, openPath, ops, leaving, behind>>
    BY DEF Files!ServerDeletes, Files!user, Files!tabs, Kept
  <1>1. current' = current /\ q.sid \in FileSids /\ current \in FileSids
    BY <1>0, FilesFacts DEF Kept, current, LeavingOK, Left, SessionsOK
  <1>2. files \in [FileSids -> [Paths -> Contents \cup {NONE}] \cup {NONE}]
    BY DEF FInv, FTypes
  <1>3. files' \in [FileSids -> [Paths -> Contents \cup {NONE}] \cup {NONE}]
    BY <1>0, <1>1, <1>2
  <1>4. LeavingOK'
    BY <1>0, FilesFacts DEF LeavingOK, Left, Kept
  <1>5. FShown'
    BY <1>0, FilesFacts DEF FShown, Files!ListIsOfTheSession, Files!ViewIsTheOpenFile,
       Files!sessionId, current, Kept
  <1>6. FList'
    <2>1. CASE q.sid = current
      <3>1. \A w : Accounted(w)'
        BY <1>0, <1>1, <2>1 DEF Accounted
      <3> SUFFICES ASSUME ~behind' PROVE Settling'
        BY DEF FList
      <3>2. Settling
        BY <1>0 DEF FInv, FList
      <3>3. /\ OneListing(ops')
            /\ panel' # NONE /\ panel'.list # NONE => \A o \in ops' : o.op # "list"
        BY <1>0, <3>2 DEF Settling
      <3> QED
        BY <3>1, <3>3, SettlingFromParts
    <2>2. CASE q.sid # current
      <3>1. files'[current] = files[current] /\ Awaits
        BY <1>0, <1>1, <1>2, <2>2, StillAwaits DEF Kept
      <3> QED
        BY <1>0, <1>1, <3>1, ListStays DEF FInv
    <2> QED
      BY <2>1, <2>2
  <1> QED
    BY <1>0, <1>3, <1>4, <1>5, <1>6, FilesFacts, KeptInvariant

\* A request that fails: the list goes, or a change of the files may have been lost.
LEMMA FailsStep ==
  ASSUME FInv, NEW o \in ops, Files!Fails(o)
  PROVE  FInv'
  <1>0. /\ ops' = ops \ {o} /\ behind' = (behind \/ o.phase # "refused")
        /\ panel' \in {panel, IF panel = NONE THEN NONE ELSE [panel EXCEPT !.list = NONE]}
        /\ Kept /\ UNCHANGED <<openPath, leaving, files>>
    BY DEF Files!Fails, Files!user, Files!tabs, Kept
  <1>1. /\ panel' \in Panels \cup {NONE} /\ (panel' # NONE <=> panel # NONE)
        /\ panel' # NONE => panel'.list \in {panel.list, NONE} /\ panel'.view = panel.view
    <2>1. CASE panel = NONE
      BY <1>0, <2>1
    <2>2. CASE panel # NONE
      <3>1. panel \in Panels
        BY <2>2, FilesFacts
      <3>2. [panel EXCEPT !.list = NONE] \in Panels
        BY <3>1 DEF Panels
      <3> QED
        BY <1>0, <2>2, <3>1, <3>2, PanelIsThere DEF Panels
    <2> QED
      BY <2>1, <2>2
  <1>2. current' = current /\ behind' \in BOOLEAN /\ (~behind' => ~behind /\ o.phase = "refused")
    BY <1>0, FilesFacts DEF Kept, current
  <1>3. LeavingOK' /\ \A r \in ops' : Fits(r)
    BY <1>0, FilesFacts DEF LeavingOK, Left, Kept
  <1>4. FShown'
    BY <1>0, <1>1, FilesFacts DEF FShown, Files!ListIsOfTheSession, Files!ViewIsTheOpenFile,
       Files!sessionId, current, Kept
  <1>5. FList'
    <2> SUFFICES ASSUME ~behind' PROVE FList'
      BY DEF FList
    <2>1. Awaits /\ \A r \in ops : Reloads(r) => r \in ops'
      BY <1>0, <1>2, StillAwaits DEF Reloads, Kept
    <2> QED
      BY <1>0, <1>1, <1>2, <2>1, ListStays DEF FInv
  <1>6. files' \in [FileSids -> [Paths -> Contents \cup {NONE}] \cup {NONE}]
    BY <1>0 DEF FInv, FTypes
  <1> QED
    BY <1>0, <1>1, <1>2, <1>3, <1>4, <1>5, <1>6, FilesFacts, KeptInvariant

\* The sandbox handles a request: what it holds is typed, and a change of the
\* current sandbox that went through is one that will load the list again.
LEMMA ServerHandlesStep ==
  ASSUME FInv, NEW o \in ops, Files!ServerHandles(o)
  PROVE  FInv'
  <1> DEFINE old == IF files[o.sid] = NONE THEN Files!NoFiles ELSE files[o.sid]
             new == CASE enabled /\ o.op = "write"  -> [old EXCEPT ![o.path] = o.text]
                      [] enabled /\ o.op = "delete" -> [old EXCEPT ![o.path] = NONE]
                      [] OTHER                      -> old
             ok  == enabled /\ (o.op \in {"read", "delete"} => old[o.path] # NONE)
             answer == IF o.op = "list" THEN {p \in Paths : old[p] # NONE}
                       ELSE IF o.op = "read" THEN old[o.path] ELSE NONE
             handled == [o EXCEPT !.phase = IF ok THEN "done" ELSE "refused", !.result = answer]
  <1>0. /\ o.phase = "sent" /\ files' = [files EXCEPT ![o.sid] = new]
        /\ ops' = (ops \ {o}) \cup {handled}
        /\ Kept /\ UNCHANGED <<panel, openPath, leaving, behind>>
    BY DEF Files!ServerHandles, Files!user, Files!tabs, Kept
  <1>1. /\ o \in FileOps /\ Fits(o) /\ o.sid \in FileSids
        /\ (o.op # "list" => o.path \in Paths) /\ (o.op = "write" => o.text \in Contents)
    BY FilesFacts DEF Fits, FileOps
  <1>2. files \in [FileSids -> [Paths -> Contents \cup {NONE}] \cup {NONE}] /\ enabled \in BOOLEAN
    BY DEF FInv, FTypes
  <1>3. old \in [Paths -> Contents \cup {NONE}] /\ (files[o.sid] # NONE => old = files[o.sid])
    BY <1>1, <1>2 DEF Files!NoFiles
  <1>4. /\ enabled /\ o.op = "write"  => new = [old EXCEPT ![o.path] = o.text]
        /\ enabled /\ o.op = "delete" => new = [old EXCEPT ![o.path] = NONE]
        /\ ~(enabled /\ o.op \in {"write", "delete"}) => new = old
    OBVIOUS
  <1>5. answer \in (SUBSET Paths) \cup Contents \cup {NONE}
    <2>1. CASE o.op = "list"
      BY <2>1
    <2>2. CASE o.op # "list"
      BY <1>1, <1>3, <2>2
    <2> QED
      BY <2>1, <2>2
  <1>6. o.op = "list" => answer = {p \in Paths : old[p] # NONE} /\ answer \in SUBSET Paths
    OBVIOUS
  <1>7. ok \in BOOLEAN /\ (ok <=> enabled /\ (o.op \in {"read", "delete"} => old[o.path] # NONE))
    BY <1>2
  <1> HIDE DEF new, answer, old, ok
  <1>8. /\ handled \in FileOps /\ handled.op = o.op /\ handled.sid = o.sid
        /\ handled.lang = o.lang /\ handled.path = o.path /\ handled.text = o.text
        /\ handled.phase = (IF ok THEN "done" ELSE "refused") /\ handled.result = answer
    BY <1>1, <1>5 DEF FileOps
  <1>9. \A r : r = handled => Fits(r)
    BY <1>1, <1>6, <1>8 DEF Fits
  <1>10. new \in [Paths -> Contents \cup {NONE}] /\ new # NONE
    <2>1. CASE ~(enabled /\ o.op \in {"write", "delete"})
      BY <1>3, <1>4, <2>1, FilesAssumption
    <2>2. CASE enabled /\ o.op = "write"
      BY <1>1, <1>3, <1>4, <2>2, FilesAssumption
    <2>3. CASE enabled /\ o.op = "delete"
      BY <1>1, <1>3, <1>4, <2>3, FilesAssumption
    <2> QED
      BY <2>1, <2>2, <2>3
  <1>11. files' \in [FileSids -> [Paths -> Contents \cup {NONE}] \cup {NONE}]
    BY <1>0, <1>1, <1>2, <1>10
  <1> HIDE DEF handled
  <1>12. /\ current' = current /\ current \in FileSids /\ LeavingOK'
         /\ \A r \in ops' : Fits(r)
    BY <1>0, <1>9, FilesFacts DEF Kept, current, SessionsOK, LeavingOK, Left
  <1>13. FShown'
    BY <1>0, FilesFacts DEF FShown, Files!ListIsOfTheSession, Files!ViewIsTheOpenFile,
       Files!sessionId, current, Kept
  <1>14. \A r \in ops : Reloads(r) => r \in ops' /\ Reloads(r)'
    BY <1>0, <1>12 DEF Reloads
  <1>15. ASSUME FList, ~behind' PROVE Settling'
    <2>1. Settling
      BY <1>0, <1>15 DEF FList
    <2>2. OneListing(ops')
      BY <1>0, <1>8, <2>1 DEF Settling, OneListing
    <2>3. panel' # NONE /\ panel'.list # NONE => \A r \in ops' : r.op # "list"
      BY <1>0, <1>8, <2>1 DEF Settling
    <2>4. ASSUME NEW w, Accounted(w) PROVE Accounted(w)'
      <3>1. CASE o.sid # current
        <4>1. files'[current] = files[current]
          BY <1>0, <1>1, <1>2, <1>12, <3>1
        <4> QED
          BY <1>0, <1>12, <1>14, <2>4, <4>1 DEF Accounted, Kept
      <3>2. CASE o.sid = current /\ enabled /\ o.op \in {"write", "delete"} /\ ok
        <4>1. \A r : r = handled => Reloads(r)'
          BY <1>8, <1>12, <3>2 DEF Reloads
        <4> QED
          BY <1>0, <4>1 DEF Accounted
      <3>3. CASE o.sid = current /\ ~(enabled /\ o.op \in {"write", "delete"} /\ ok)
        <4>1. new = old
          <5>1. CASE o.op = "delete" /\ enabled /\ ~ok
            <6>1. old[o.path] = NONE /\ new = [old EXCEPT ![o.path] = NONE] /\ o.path \in Paths
              BY <1>1, <1>4, <1>7, <5>1
            <6> QED
              BY <1>3, <6>1
          <5>2. CASE ~(o.op = "delete" /\ enabled /\ ~ok)
            BY <1>4, <1>7, <3>3, <5>2
          <5> QED
            BY <5>1, <5>2
        <4>2. files[current] # NONE => files'[current] = files[current]
          BY <1>0, <1>2, <1>3, <1>12, <3>3, <4>1
        <4>3. files'[current] # NONE
          BY <1>0, <1>2, <1>10, <1>12, <3>3
        <4> QED
          BY <1>0, <1>12, <1>14, <2>4, <4>2, <4>3 DEF Accounted, Kept
      <3> QED
        BY <3>1, <3>2, <3>3
    <2>5. ASSUME NEW r \in ops', r.op = "list", r.phase = "done", r.sid = current', panel' # NONE
          PROVE  \A w : w = r.result => Accounted(w)'
      <3>1. CASE r \in ops
        BY <1>0, <1>12, <2>1, <2>4, <2>5, <3>1 DEF Settling
      <3>2. CASE r = handled
        <4>1. o.op = "list" /\ o.sid = current /\ new = old /\ r.result = answer
          BY <1>4, <1>8, <1>12, <2>5, <3>2
        <4>2. files'[current] = old /\ old # NONE
          BY <1>0, <1>2, <1>10, <1>12, <4>1
        <4>3. current' = current /\ r.result = {p \in Paths : files'[current][p] # NONE}
          BY <1>6, <1>12, <4>1, <4>2
        <4> QED
          BY <4>2, <4>3 DEF Accounted
      <3> QED
        BY <1>0, <2>5, <3>1, <3>2
    <2>6. panel' # NONE /\ panel'.list # NONE => \A w : w = panel'.list.paths => Accounted(w)'
      BY <1>0, <2>1, <2>4 DEF Settling
    <2> QED
      BY <2>2, <2>3, <2>5, <2>6, SettlingFromParts
  <1>16. FList'
    BY <1>15 DEF FInv, FList
  <1> QED
    BY <1>0, <1>11, <1>12, <1>13, <1>16, FilesFacts, KeptInvariant

\* A stale answer is one that was asked for another session.
LEMMA StaleIsElsewhere ==
  ASSUME FInv, NEW o \in ops
  PROVE  Files!IsStale(o) <=> o.sid # current
  BY FilesFacts DEF Files!IsStale, Fits, FileOps, SessionsOK, current, FileSids

\* What an answer leaves alone.
LEMMA AnswersKeep ==
  ASSUME FInv, NEW o \in ops, Files!Answers(o)
  PROVE  /\ Kept /\ UNCHANGED <<leaving, files>> /\ current' = current /\ o.phase = "done"
         /\ Awaits
         /\ SessionsOK' /\ LeavingOK' /\ \A r \in ops : Fits(r)'
         /\ files' \in [FileSids -> [Paths -> Contents \cup {NONE}] \cup {NONE}]
  <1>0. Kept /\ UNCHANGED <<leaving, files>> /\ o.phase = "done"
    BY DEF Files!Answers, Files!user, Files!tabs, Kept
  <1>a. Awaits
    BY <1>0, StillAwaits DEF Kept
  <1>1. files' \in [FileSids -> [Paths -> Contents \cup {NONE}] \cup {NONE}]
    BY <1>0 DEF FInv, FTypes
  <1> QED
    BY <1>0, <1>1, <1>a, FilesFacts DEF Kept, SessionsOK, LeavingOK, Left, Fits, current

\* An answer that is dropped, or changes only what the view shows.
LEMMA OnlyDropped ==
  ASSUME FInv, NEW o \in ops, Files!Answers(o),
         ops' = ops \ {o}, behind' = behind, ~Reloads(o), FShown',
         panel' \in Panels \cup {NONE}, panel' # NONE <=> panel # NONE,
         panel' # NONE => panel'.list = panel.list,
         openPath' \in Paths \cup {NONE}
  PROVE  FInv'
  <1>1. FList'
    BY AnswersKeep, ListStays DEF FInv
  <1>2. \A r \in ops' : Fits(r)
    BY FilesFacts
  <1> QED
    BY <1>1, <1>2, AnswersKeep, FilesFacts, KeptInvariant

\* An answer that is about another session changes nothing shown.
LEMMA StaleAnswerStep ==
  ASSUME FInv, NEW o \in ops, Files!Answers(o), Files!IsStale(o)
  PROVE  FInv'
  <1>1. ops' = ops \ {o} /\ UNCHANGED <<panel, openPath, behind>>
    BY DEF Files!Answers
  <1>2. ~Reloads(o)
    BY StaleIsElsewhere DEF Reloads
  <1>3. FShown'
    BY <1>1, AnswersKeep, FilesFacts DEF FShown, Files!ListIsOfTheSession,
       Files!ViewIsTheOpenFile, Files!sessionId, current
  <1> QED
    BY <1>1, <1>2, <1>3, FilesFacts, OnlyDropped

\* The list that comes is of the session shown, and is accounted for.
LEMMA ListAnswerStep ==
  ASSUME FInv, NEW o \in ops, Files!Answers(o), ~Files!IsStale(o), o.op = "list"
  PROVE  FInv'
  <1>1. /\ panel' = IF panel = NONE THEN NONE
                    ELSE [panel EXCEPT !.list = [sid |-> o.sid, paths |-> o.result]]
        /\ ops' = ops \ {o} /\ UNCHANGED <<openPath, behind>>
    BY DEF Files!Answers, Files!ListAnswers
  <1>2. o.sid = current /\ o.phase = "done" /\ current' = current
    BY StaleIsElsewhere, AnswersKeep
  <1>3. o.result \in SUBSET Paths /\ o.sid \in FileSids
    BY <1>2, FilesFacts DEF Fits, FileOps
  <1>4. /\ panel' \in Panels \cup {NONE} /\ (panel' # NONE <=> panel # NONE)
        /\ panel' # NONE => /\ panel'.list = [sid |-> o.sid, paths |-> o.result]
                            /\ panel'.view = panel.view
    <2>1. CASE panel = NONE
      BY <1>1, <2>1
    <2>2. CASE panel # NONE
      <3>1. panel \in Panels
        BY <2>2, FilesFacts
      <3>2. [sid |-> o.sid, paths |-> o.result] \in Lists
        BY <1>3 DEF Lists
      <3>3. panel' \in Panels /\ panel'.list = [sid |-> o.sid, paths |-> o.result]
            /\ panel'.view = panel.view
        BY <1>1, <2>2, <3>1, <3>2 DEF Panels
      <3> QED
        BY <2>2, <3>3, PanelIsThere
    <2> QED
      BY <2>1, <2>2
  <1>5. FShown'
    BY <1>1, <1>2, <1>4, FilesFacts DEF FShown, Files!ListIsOfTheSession,
       Files!ViewIsTheOpenFile, Files!sessionId, current
  <1>6. ASSUME ~behind' PROVE Settling'
    <2>1. Settling
      BY <1>1, <1>6 DEF FInv, FList
    <2>2. \A r \in ops' : r.op # "list"
      BY <1>1, <2>1 DEF Settling, OneListing
    <2>3. \A w : Accounted(w) => Accounted(w)'
      BY <1>1, <1>2, AnswersKeep, StillAccounted DEF Reloads
    <2>4. panel' # NONE => Accounted(o.result) /\ panel'.list.paths = o.result
      BY <1>2, <1>4, <2>1 DEF Settling
    <2>5. panel' # NONE => \A w : w = panel'.list.paths => Accounted(w)'
      BY <2>3, <2>4
    <2> QED
      BY <2>2, <2>5, SettlingFromParts DEF OneListing
  <1>7. FList'
    BY <1>6 DEF FList
  <1>8. \A r \in ops' : Fits(r)
    BY <1>1, FilesFacts
  <1> QED
    BY <1>1, <1>4, <1>5, <1>7, <1>8, AnswersKeep, FilesFacts, KeptInvariant

\* The answer to a file opened.
LEMMA ReadAnswerStep ==
  ASSUME FInv, NEW o \in ops, Files!Answers(o), ~Files!IsStale(o), o.op = "read"
  PROVE  FInv'
  <1>1. /\ openPath' = o.path
        /\ panel' = IF panel = NONE THEN NONE
                    ELSE [panel EXCEPT !.view = [sid |-> o.sid, path |-> o.path]]
        /\ ops' = ops \ {o} /\ behind' = behind
    BY DEF Files!Answers, Files!ReadAnswers
  <1>2. o.sid = current /\ o.path \in Paths /\ o.sid \in FileSids /\ current' = current
    BY StaleIsElsewhere, AnswersKeep, FilesFacts DEF Fits, FileOps
  <1>3. /\ panel' \in Panels \cup {NONE} /\ (panel' # NONE <=> panel # NONE)
        /\ panel' # NONE => /\ panel'.view = [sid |-> o.sid, path |-> o.path]
                            /\ panel'.list = panel.list
    <2>1. CASE panel = NONE
      BY <1>1, <2>1
    <2>2. CASE panel # NONE
      <3>1. panel \in Panels
        BY <2>2, FilesFacts
      <3>2. [sid |-> o.sid, path |-> o.path] \in Views
        BY <1>2 DEF Views
      <3>3. panel' \in Panels /\ panel'.view = [sid |-> o.sid, path |-> o.path]
            /\ panel'.list = panel.list
        BY <1>1, <2>2, <3>1, <3>2 DEF Panels
      <3> QED
        BY <2>2, <3>3, PanelIsThere
    <2> QED
      BY <2>1, <2>2
  <1>4. FShown'
    BY <1>1, <1>2, <1>3, FilesFacts DEF FShown, Files!ListIsOfTheSession,
       Files!ViewIsTheOpenFile, Files!sessionId, current
  <1> QED
    BY <1>1, <1>2, <1>3, <1>4, OnlyDropped DEF Reloads

\* A change that was made loads the list again, if the panel is there.
LEMMA ReloadAnswer ==
  ASSUME FInv, NEW o \in ops, Files!Answers(o), ~Files!IsStale(o),
         NEW p \in Panels \cup {NONE}, p # NONE <=> panel # NONE,
         Files!ThenLoad(p, ops \ {o}),
         \/ openPath' = openPath /\ p = panel
         \/ openPath' = NONE,
         openPath' \in Paths \cup {NONE}
  PROVE  FInv'
  <1>1. OneListing(ops) => OneListing(ops \ {o})
    BY DEF OneListing
  <1>2. CASE panel = NONE
    <2>1. panel' = NONE /\ ops' = ops \ {o} /\ behind' = behind
      BY <1>2 DEF Files!ThenLoad
    <2>2. FShown'
      BY <2>1 DEF FShown, Files!ListIsOfTheSession, Files!ViewIsTheOpenFile
    <2>3. FList'
      BY <1>1, <2>1, FilesFacts DEF FList, Settling
    <2>4. \A r \in ops' : Fits(r)
      BY <2>1, FilesFacts
    <2> QED
      BY <1>2, <2>1, <2>2, <2>3, <2>4, AnswersKeep, FilesFacts, KeptInvariant
  <1>3. CASE panel # NONE
    <2>1. p \in Panels /\ Files!loadWorkspace(p, ops \ {o})
      BY <1>3 DEF Files!ThenLoad
    <2>2. tab' = "workspace"
      BY <1>3, AnswersKeep, FilesFacts DEF FTab, Kept
    <2>3. Drawn(p)
      BY <1>1, <2>1, <2>2, AnswersKeep, FilesFacts, LoadGives
    <2>4. FShown'
      BY <2>3, AnswersKeep, FilesFacts, DrawnShows
    <2>5. FTab'
      BY <2>3, AnswersKeep, FilesFacts DEF FTab, Drawn, Kept
    <2>6. Redrawn
      BY <2>4, <2>5, AnswersKeep, FilesFacts DEF Redrawn, Kept
    <2> QED
      BY <2>3, <2>6, RedrawnInvariant
  <1> QED
    BY <1>2, <1>3

\* The answer to a save, which loads the list again.
LEMMA WriteAnswerStep ==
  ASSUME FInv, NEW o \in ops, Files!Answers(o), ~Files!IsStale(o), o.op = "write"
  PROVE  FInv'
  <1>1. Files!ThenLoad(panel, ops \ {o}) /\ openPath' = openPath
    BY DEF Files!Answers, Files!WriteAnswers
  <1> QED
    BY <1>1, FilesFacts, ReloadAnswer

\* The answer to a delete, likewise.
LEMMA DeleteAnswerStep ==
  ASSUME FInv, NEW o \in ops, Files!Answers(o), ~Files!IsStale(o), o.op = "delete"
  PROVE  FInv'
  <1> DEFINE p == IF openPath = o.path /\ panel # NONE THEN [panel EXCEPT !.view = NONE] ELSE panel
  <1>1. /\ openPath' = IF openPath = o.path THEN NONE ELSE openPath
        /\ Files!ThenLoad(p, ops \ {o})
    BY DEF Files!Answers, Files!DeleteAnswers
  <1>2. p \in Panels \cup {NONE} /\ (p # NONE <=> panel # NONE)
    <2>1. CASE openPath = o.path /\ panel # NONE
      <3>1. panel \in Panels
        BY <2>1, FilesFacts
      <3>2. [panel EXCEPT !.view = NONE] \in Panels
        BY <3>1 DEF Panels
      <3> QED
        BY <2>1, <3>2, PanelIsThere
    <2>2. CASE ~(openPath = o.path /\ panel # NONE)
      <3>1. p = panel
        BY <2>2
      <3> HIDE DEF p
      <3> QED
        BY <3>1, FilesFacts
    <2> QED
      BY <2>1, <2>2
  <1>3. \/ openPath' = openPath /\ p = panel
        \/ openPath' = NONE
    BY <1>1
  <1>4. openPath' \in Paths \cup {NONE}
    BY <1>1, FilesFacts
  <1> HIDE DEF p
  <1> QED
    BY <1>1, <1>2, <1>3, <1>4, ReloadAnswer

\* Every answer, stale or not.
LEMMA AnswersStep ==
  ASSUME FInv, NEW o \in ops, Files!Answers(o)
  PROVE  FInv'
  <1>1. o.op \in {"list", "read", "write", "delete"}
    BY FilesFacts DEF Fits, FileOps
  <1> QED
    BY <1>1, StaleAnswerStep, ListAnswerStep, ReadAnswerStep, WriteAnswerStep, DeleteAnswerStep

\* The page opens in its first language, with the sandboxes empty.
LEMMA FilesInit == Files!Init => FInv
  <1> SUFFICES ASSUME Files!Init PROVE FInv
    OBVIOUS
  <1>0. First \in Languages /\ 1 \in FileSids
    BY LanguagesAssumption, FilesAssumption DEF FileSids
  <1>1. SessionsOK /\ current = 1
    BY <1>0 DEF Files!Init, SessionsOK, current, FileSids
  <1>2. LeavingOK /\ (\A o \in ops : Fits(o)) /\ panel = NONE /\ openPath = NONE
    BY DEF Files!Init, LeavingOK
  <1>3. /\ fileApi \in [FileSids -> BOOLEAN] /\ fileApi[current]
        /\ files \in [FileSids -> [Paths -> Contents \cup {NONE}] \cup {NONE}]
    BY <1>0, <1>1 DEF Files!Init, Files!Sids, FileSids
  <1>4. FTypes
    <2>1. statuses \subseteq [lang : Languages, sid : FileSids]
      BY <1>0 DEF Files!Init
    <2>2. /\ repl \in BOOLEAN /\ tab \in {"workspace", "result"} /\ hidden \in BOOLEAN
          /\ behind \in BOOLEAN /\ enabled \in BOOLEAN
      BY DEF Files!Init
    <2> QED
      BY <1>1, <1>2, <1>3, <2>1, <2>2 DEF FTypes
  <1>5. FTab
    BY <1>3 DEF Files!Init, FTab
  <1>6. FShown /\ FList
    BY DEF Files!Init, FShown, Files!ListIsOfTheSession, Files!ViewIsTheOpenFile, FList,
       Settling, OneListing
  <1> QED
    BY <1>4, <1>5, <1>6 DEF FInv

\* Every step of the tab keeps the invariant.
LEMMA FilesStep == FInv /\ [Files!Next]_Files!vars => FInv'
  <1> SUFFICES ASSUME FInv, [Files!Next]_Files!vars PROVE FInv'
    OBVIOUS
  <1>1. ASSUME NEW t \in {"workspace", "result"}, Files!SelectTab(t) PROVE FInv'
    BY <1>1, SelectTabStep
  <1>2. ASSUME NEW l \in Languages, Files!switchLanguage(l) PROVE FInv'
    BY <1>2, FilesLanguageStep
  <1>3. ASSUME NEW o \in ops, Files!ServerHandles(o) \/ Files!Answers(o) \/ Files!Fails(o)
        PROVE  FInv'
    BY <1>3, ServerHandlesStep, AnswersStep, FailsStep
  <1>4. ASSUME NEW i \in statuses, NEW ok \in BOOLEAN, Files!InfoAnswers(i, ok) PROVE FInv'
    BY <1>4, FilesInfoStep
  <1>5. ASSUME NEW op \in {"new", "reset"}, Files!Ask(op) PROVE FInv'
    BY <1>5, FilesAskStep
  <1>6. ASSUME NEW q \in leaving,
               \/ Files!ServerDeletes(q) \/ Files!NewSessionContinues(q)
               \/ Files!ResetContinues(q) \/ Files!ServerRuns(q) \/ Files!LineAnswers(q)
        PROVE  FInv'
    BY <1>6, ServerDeletesStep, FilesNewSessionStep, FilesResetStep, FilesRunStep,
       FilesLineAnswersStep
  <1>7. CASE UNCHANGED Files!vars
    BY <1>7 DEF FInv, FTypes, SessionsOK, LeavingOK, Left, Fits, FTab, FShown, FList, Settling,
       OneListing, Accounted, Reloads, Files!ListIsOfTheSession, Files!ViewIsTheOpenFile,
       Files!sessionId, current, Files!vars, Files!user, Files!tabs
  <1> QED
    BY <1>1, <1>2, <1>3, <1>4, <1>5, <1>6, <1>7, RefreshStep, FilesModeStep, ClicksStep,
       FilesLineStep
       DEF Files!Next

\* The invariant of the Workspace tab holds, whatever the order of answers.
THEOREM FilesInvariant == Files!Spec => []FInv
  BY FilesInit, FilesStep, PTL DEF Files!Spec

\* The tab is offered only where the sandbox has files, and what it lists and
\* opens is of the session shown, whatever comes first of the answers, the
\* user's changes of session, mode and language, and the status.
THEOREM TabShowsTheSession == Files!Spec => []TabIsOfTheSession
  BY FilesInvariant, TabFromInvariant, PTL

\* When everything is answered, no two listings raced and no answer was lost,
\* the list is of the files the sandbox has.
THEOREM ListSettles == Files!Spec => []SettledListIsExact
  BY FilesInvariant, ListFromInvariant, PTL

(***************************************************************************)
(* Part two: the editor.                                                   *)
(***************************************************************************)
InPrompt == Editor!IsRepl(editorLanguage, editorMode)

LogLines   == [kind : {"line"}, lang : EditorLanguages, n : Nat]
Remembered ==
  [language : EditorLanguages, mode : Editor!Modes, code : Editor!Scripts] \cup {NONE}

\* What is kept aside or stored is a script, and what is in a log is a line.
ETypes ==
  /\ editorLanguage \in EditorLanguages /\ editorMode \in Editor!Modes /\ shown \in Editor!Modes
  /\ loading \in BOOLEAN /\ requested \in EditorLanguages \cup {NONE}
  /\ selected \in Nat \ {0} /\ cursor \in Nat
  /\ editor \in Editor!Texts /\ scriptDraft \in Editor!Scripts
  /\ stored \in Remembered /\ saved \in Remembered
  /\ log \in [EditorLanguages -> Seq(LogLines)]
  /\ historyDraft \in Editor!Texts /\ before \in Editor!Texts

\* Without a prompt the editor holds a script, while loading too; with one it
\* holds a prompt once the languages are known.
ELayout ==
  /\ shown = "repl" => InPrompt
  /\ ~InPrompt => editor \in Editor!Scripts
  /\ ~loading /\ InPrompt => shown = "repl" /\ editor \in Editor!Prompts

EBrowsing ==
  cursor # 0 =>
    /\ cursor <= Len(log[editorLanguage]) /\ editor = log[editorLanguage][cursor]
    /\ historyDraft = before
    /\ ~loading => historyDraft \in Editor!Prompts

EInv == ETypes /\ ELayout /\ EBrowsing

\* What the invariant says in the terms of the model.
LEMMA EditorFromInvariant == EInv => EditorIsCoherent
  <1> SUFFICES ASSUME EInv PROVE EditorIsCoherent
    OBVIOUS
  <1>1. Editor!TypeOK
    <2>1. LogLines \subseteq Editor!Texts
      BY DEF LogLines, Editor!Texts, Editor!Prompts
    <2>2. log \in [EditorLanguages -> Seq(Editor!Texts)]
      BY <2>1 DEF EInv, ETypes
    <2>3. Remembered \subseteq Editor!Records \cup {NONE} /\ Editor!Scripts \subseteq Editor!Texts
      BY DEF Remembered, Editor!Records, Editor!Texts
    <2> QED
      BY <2>2, <2>3 DEF EInv, ETypes, Editor!TypeOK
  <1>2. Editor!StoredIsAScript
    BY DEF EInv, ETypes, Remembered, Editor!StoredIsAScript
  <1>3. Editor!BrowsingIsCoherent
    BY DEF EInv, EBrowsing, Editor!BrowsingIsCoherent, Editor!Submitted
  <1>4. Editor!LayoutMatchesText
    BY DEF EInv, ETypes, ELayout, InPrompt, Editor!LayoutMatchesText, Editor!effectiveMode,
       Editor!Modes
  <1> QED
    BY <1>1, <1>2, <1>3, <1>4 DEF EditorIsCoherent, Editor!EditorIsCoherent

\* A text is a script, a prompt or both.
LEMMA TextKinds ==
  /\ \A l \in EditorLanguages, n \in Nat :
       /\ Editor!Example(l, n) \in Editor!Scripts
       /\ Editor!Text("typed", l, n) \in Editor!Scripts
       /\ Editor!Text("line", l, n) \in LogLines
       /\ Editor!Snippet(l) \in Editor!Prompts
  /\ LogLines \subseteq Editor!Prompts /\ Blank \in Editor!Prompts
  /\ Editor!Scripts \subseteq Editor!Texts /\ Editor!Prompts \subseteq Editor!Texts
  /\ \A t \in Editor!Texts : t # Blank => Editor!AsLine(t) \in LogLines
  BY DEF Editor!Example, Editor!Text, Editor!Snippet, Editor!Scripts, Editor!Prompts,
     Editor!Texts, Editor!AsLine, LogLines

\* The record written is of a script: the editor's, or the one kept aside.
LEMMA PersistTyped ==
  ASSUME Editor!persist, editorLanguage' \in EditorLanguages, editorMode' \in Editor!Modes,
         scriptDraft' \in Editor!Scripts, ~InPrompt' => editor' \in Editor!Scripts
  PROVE  stored' \in Remembered
  BY DEF Editor!persist, Editor!persisted, Remembered, InPrompt, Editor!IsRepl

\* An edit that is not a recall: what is left to see is what it puts there.
LEMMA EditInvariant ==
  ASSUME EInv, NEW text, Editor!Edit(text), Editor!persist,
         editorLanguage' \in EditorLanguages, editorMode' \in Editor!Modes,
         shown' \in Editor!Modes, shown' = "repl" => InPrompt',
         scriptDraft' \in Editor!Scripts, text \in Editor!Texts,
         ~InPrompt' => text \in Editor!Scripts,
         ~loading' /\ InPrompt' => shown' = "repl" /\ text \in Editor!Prompts,
         loading' \in BOOLEAN, requested' \in EditorLanguages \cup {NONE},
         selected' \in Nat \ {0}, saved' \in Remembered,
         log' \in [EditorLanguages -> Seq(LogLines)]
  PROVE  EInv'
  <1>1. editor' = text /\ cursor' = 0 /\ historyDraft' = Blank /\ before' = Blank
    BY DEF Editor!Edit, Editor!StopBrowsing
  <1>2. stored' \in Remembered
    BY <1>1, PersistTyped
  <1>3. ETypes'
    BY <1>1, <1>2, TextKinds DEF ETypes
  <1>4. ELayout'
    BY <1>1 DEF ELayout
  <1>5. EBrowsing'
    BY <1>1 DEF EBrowsing
  <1> QED
    BY <1>3, <1>4, <1>5 DEF EInv

\* A text typed, an example or a snippet taken, in the mode the page is in.
LEMMA InPlaceEdit ==
  ASSUME EInv, NEW text, Editor!Edit(text), Editor!persist,
         UNCHANGED <<editorLanguage, editorMode, shown, saved, loading, requested, scriptDraft,
                     log>>,
         selected' \in Nat \ {0}, text \in Editor!Texts,
         ~InPrompt => text \in Editor!Scripts,
         ~loading /\ InPrompt => text \in Editor!Prompts
  PROVE  EInv'
  <1>1. InPrompt' = InPrompt
    BY DEF InPrompt
  <1> QED
    BY <1>1, EditInvariant DEF EInv, ETypes, ELayout

\* Editing the text.
LEMMA TypeStep ==
  ASSUME EInv, NEW n \in 1..Variants, Editor!Type(n)
  PROVE  EInv'
  <1> DEFINE text == Editor!Text(IF shown = "repl" THEN "line" ELSE "typed", editorLanguage, n)
  <1>1. /\ Editor!Edit(text) /\ Editor!persist
        /\ UNCHANGED <<editorLanguage, editorMode, shown, saved, loading, requested, scriptDraft,
                       selected, log>>
    BY DEF Editor!Type, Editor!mode, Editor!page
  <1>2. n \in Nat /\ editorLanguage \in EditorLanguages /\ selected \in Nat \ {0}
    BY EditorAssumption DEF EInv, ETypes
  <1>3. (shown = "repl" => text \in LogLines) /\ (shown # "repl" => text \in Editor!Scripts)
    BY <1>2, TextKinds
  <1> HIDE DEF text
  <1> QED
    BY <1>1, <1>2, <1>3, TextKinds, InPlaceEdit DEF EInv, ELayout

\* Loading an example.
LEMMA ExampleStep ==
  ASSUME EInv, \/ \E i \in 1..Examples[editorLanguage] : Editor!selectExample(i)
               \/ Editor!reset
  PROVE  EInv'
  <1>1. PICK i \in 1..Examples[editorLanguage] :
          /\ Editor!Edit(Editor!Example(editorLanguage, i)) /\ Editor!persist
          /\ selected' = i
          /\ ~InPrompt \/ shown = "script"
          /\ UNCHANGED <<editorLanguage, editorMode, shown, saved, loading, requested,
                         scriptDraft, log>>
    BY DEF Editor!selectExample, Editor!reset, Editor!mode, Editor!page, InPrompt
  <1>2. /\ i \in Nat \ {0} /\ editorLanguage \in EditorLanguages
        /\ (shown = "script" => ~(~loading /\ InPrompt))
    BY EditorAssumption DEF EInv, ETypes, ELayout
  <1>3. Editor!Example(editorLanguage, i) \in Editor!Scripts
    BY <1>2, TextKinds
  <1> QED
    BY <1>1, <1>2, <1>3, TextKinds, InPlaceEdit

\* Loading a snippet at the prompt.
LEMMA SnippetStep ==
  ASSUME EInv, Editor!insertSnippet
  PROVE  EInv'
  <1>1. /\ Editor!Edit(Editor!Snippet(editorLanguage)) /\ Editor!persist /\ InPrompt
        /\ UNCHANGED <<editorLanguage, editorMode, shown, saved, loading, requested, scriptDraft,
                       selected, log>>
    BY DEF Editor!insertSnippet, Editor!mode, Editor!page, InPrompt
  <1>2. editorLanguage \in EditorLanguages /\ selected \in Nat \ {0}
    BY DEF EInv, ETypes
  <1>3. Editor!Snippet(editorLanguage) \in Editor!Prompts
    BY <1>2, TextKinds
  <1> QED
    BY <1>1, <1>2, <1>3, TextKinds, InPlaceEdit

\* A line that is submitted leaves the prompt empty and joins its log.
LEMMA SubmitStep ==
  ASSUME EInv, NEW ok \in BOOLEAN, Editor!submitReplLine(ok)
  PROVE  EInv'
  <1>1. /\ Editor!Edit(Blank) /\ Editor!persist /\ InPrompt /\ editor # Blank
        /\ UNCHANGED <<editorLanguage, editorMode, shown, saved, loading, requested, scriptDraft,
                       selected>>
        /\ log' = IF ~ok THEN log
                  ELSE [log EXCEPT ![editorLanguage] =
                          Append(IF Len(@) = Cells THEN Tail(@) ELSE @, Editor!AsLine(editor))]
    BY DEF Editor!submitReplLine, Editor!mode, Editor!page, InPrompt
  <1>2. /\ editorLanguage \in EditorLanguages /\ log[editorLanguage] \in Seq(LogLines)
        /\ log \in [EditorLanguages -> Seq(LogLines)] /\ Editor!AsLine(editor) \in LogLines
    BY <1>1, TextKinds DEF EInv, ETypes
  <1>3. (IF Len(log[editorLanguage]) = Cells THEN Tail(log[editorLanguage])
         ELSE log[editorLanguage]) \in Seq(LogLines)
    BY <1>2, EditorAssumption
  <1>4. log' \in [EditorLanguages -> Seq(LogLines)]
    BY <1>1, <1>2, <1>3
  <1>5. InPrompt' = InPrompt
    BY <1>1 DEF InPrompt
  <1> QED
    BY <1>1, <1>4, <1>5, TextKinds, EditInvariant DEF EInv, ETypes, ELayout

\* Entering the prompt keeps the script aside, leaving it brings the script back.
LEMMA EditorModeStep ==
  ASSUME EInv, NEW m \in Editor!Modes, Editor!setMode(m)
  PROVE  EInv'
  <1> DEFINE is == Editor!IsRepl(editorLanguage, m)
  <1>1. /\ editorMode' = m /\ shown' = Editor!effectiveMode(editorLanguage, m)
        /\ scriptDraft' = IF ~InPrompt /\ is THEN editor ELSE scriptDraft
        /\ IF InPrompt = is THEN UNCHANGED <<editor, cursor, historyDraft, before>>
           ELSE Editor!Edit(IF is THEN Editor!Snippet(editorLanguage) ELSE scriptDraft)
        /\ Editor!persist
        /\ UNCHANGED <<editorLanguage, saved, loading, requested, selected, log>>
    BY DEF Editor!setMode, Editor!KeepText, Editor!page, InPrompt
  <1>2. /\ InPrompt' \in BOOLEAN /\ (InPrompt' <=> is) /\ is \in BOOLEAN /\ InPrompt \in BOOLEAN
    BY <1>1 DEF InPrompt, Editor!IsRepl
  <1>3. shown' \in Editor!Modes /\ (shown' = "repl" <=> is)
    BY <1>1 DEF Editor!effectiveMode, Editor!Modes
  <1>4. editorLanguage \in EditorLanguages /\ Editor!Snippet(editorLanguage) \in Editor!Prompts
    BY TextKinds DEF EInv, ETypes
  <1>5. scriptDraft' \in Editor!Scripts
    BY <1>1 DEF EInv, ETypes, ELayout
  <1> HIDE DEF is
  <1>6. CASE InPrompt = is
    <2>1. stored' \in Remembered
      BY <1>1, <1>2, <1>4, <1>5, <1>6, PersistTyped DEF EInv, ETypes, ELayout
    <2> QED
      BY <1>1, <1>2, <1>3, <1>5, <1>6, <2>1 DEF EInv, ETypes, ELayout, EBrowsing
  <1>7. CASE InPrompt # is
    <2> DEFINE text == IF is THEN Editor!Snippet(editorLanguage) ELSE scriptDraft
    <2>1. (is => text \in Editor!Prompts) /\ (~is => text \in Editor!Scripts)
      BY <1>4 DEF EInv, ETypes
    <2>2. Editor!Edit(text)
      BY <1>1, <1>7
    <2> HIDE DEF text
    <2>3. /\ editorLanguage' \in EditorLanguages /\ loading' \in BOOLEAN
          /\ requested' \in EditorLanguages \cup {NONE} /\ selected' \in Nat \ {0}
          /\ saved' \in Remembered /\ log' \in [EditorLanguages -> Seq(LogLines)]
      BY <1>1 DEF EInv, ETypes
    <2>4. text \in Editor!Texts
      BY <2>1, <1>2, TextKinds
    <2> QED
      BY <1>1, <1>2, <1>3, <1>5, <2>1, <2>2, <2>3, <2>4, EditInvariant
  <1> QED
    BY <1>6, <1>7

\* A language is shown with its own prompt or script.
LEMMA ShowStep ==
  ASSUME EInv, NEW l \in EditorLanguages, NEW restore \in BOOLEAN, Editor!Show(l, restore),
         saved' \in Remembered, loading' \in BOOLEAN, requested' \in EditorLanguages \cup {NONE}
  PROVE  EInv'
  <1>1. /\ editorLanguage' = l /\ shown' = Editor!effectiveMode(l, editorMode)
        /\ selected' = Editor!Selected(l) /\ Editor!Edit(Editor!TextOf(l, restore))
        /\ UNCHANGED <<editorMode, scriptDraft, log>> /\ Editor!persist
    BY DEF Editor!Show
  <1>2. InPrompt' <=> Editor!IsRepl(l, editorMode)
    BY <1>1 DEF InPrompt, Editor!IsRepl
  <1>3. shown' \in Editor!Modes /\ (shown' = "repl" <=> InPrompt')
    BY <1>1, <1>2 DEF Editor!effectiveMode, Editor!Modes
  <1>4. selected' \in Nat \ {0}
    BY <1>1 DEF Editor!Selected, EInv, ETypes
  <1>5. /\ InPrompt' => Editor!TextOf(l, restore) \in Editor!Prompts
        /\ ~InPrompt' => Editor!TextOf(l, restore) \in Editor!Scripts
    <2>1. saved # NONE => saved.code \in Editor!Scripts
      BY DEF EInv, ETypes, Remembered
    <2> QED
      BY <1>2, <2>1, TextKinds DEF Editor!TextOf
  <1> DEFINE text == Editor!TextOf(l, restore)
  <1>6. text \in Editor!Texts
    BY <1>5, TextKinds
  <1> HIDE DEF text
  <1>7. /\ editorMode' \in Editor!Modes /\ scriptDraft' \in Editor!Scripts
        /\ log' \in [EditorLanguages -> Seq(LogLines)]
    BY <1>1 DEF EInv, ETypes
  <1> QED
    BY <1>1, <1>3, <1>4, <1>5, <1>6, <1>7, EditInvariant DEF text

\* Changing the language.
LEMMA EditorLanguageStep ==
  ASSUME EInv, \/ \E l \in EditorLanguages : Editor!switchLanguage(l)
               \/ Editor!LanguagesKnown
  PROVE  EInv'
  <1>1. ASSUME NEW l \in EditorLanguages, Editor!switchLanguage(l) PROVE EInv'
    <2>1. /\ Editor!Show(l, FALSE)
          /\ requested' = (IF loading THEN l ELSE requested)
          /\ UNCHANGED <<saved, loading>>
      BY <1>1 DEF Editor!switchLanguage
    <2>2. /\ saved' \in Remembered /\ loading' \in BOOLEAN
          /\ requested' \in EditorLanguages \cup {NONE}
      BY <2>1 DEF EInv, ETypes
    <2> QED
      BY <2>1, <2>2, ShowStep
  <1>2. ASSUME Editor!LanguagesKnown PROVE EInv'
    <2> DEFINE initial == IF requested # NONE THEN requested
                          ELSE IF saved # NONE THEN saved.language ELSE First
               restore == initial # requested
    <2>1. Editor!Show(initial, restore) /\ loading' = FALSE /\ saved' = NONE /\ requested' = NONE
      BY <1>2 DEF Editor!LanguagesKnown
    <2>2. initial \in EditorLanguages
      BY EditorAssumption DEF EInv, ETypes, Remembered
    <2>3. saved' \in Remembered
      BY <2>1 DEF Remembered
    <2>4. restore \in BOOLEAN
      OBVIOUS
    <2> HIDE DEF initial, restore
    <2> QED
      BY <2>1, <2>2, <2>3, <2>4, ShowStep
  <1> QED
    BY <1>1, <1>2

\* Asking for the languages of the server.
LEMMA RequestStep ==
  ASSUME EInv, NEW l \in EditorLanguages, Editor!RequestLanguage(l)
  PROVE  EInv'
  <1>1. /\ requested' = l
        /\ UNCHANGED <<editor, cursor, historyDraft, before, editorLanguage, editorMode, shown,
                       saved, loading, scriptDraft, stored, selected, log>>
    BY DEF Editor!RequestLanguage, Editor!KeepText, Editor!mode
  <1> QED
    BY <1>1 DEF EInv, ETypes, ELayout, EBrowsing, InPrompt

\* A step in the history shows a line of the log, or what was there before.
LEMMA BrowseStep ==
  ASSUME EInv, shown = "repl", editor' \in Editor!Prompts \/ (loading /\ editor' \in Editor!Texts),
         UNCHANGED <<editorLanguage, editorMode, shown, saved, loading, requested, scriptDraft,
                     selected, log>>,
         Editor!persist, cursor' \in Nat, historyDraft' \in Editor!Texts,
         before' \in Editor!Texts, EBrowsing'
  PROVE  EInv'
  <1>1. InPrompt' = InPrompt /\ InPrompt
    BY DEF InPrompt, EInv, ELayout
  <1>2. stored' \in Remembered
    BY <1>1, PersistTyped DEF EInv, ETypes
  <1>3. editor' \in Editor!Texts
    BY TextKinds
  <1>4. ETypes'
    BY <1>2, <1>3 DEF EInv, ETypes
  <1>5. ELayout'
    BY <1>1 DEF EInv, ELayout
  <1> QED
    BY <1>4, <1>5 DEF EInv

\* The key for the line before.
LEMMA HistoryUpStep ==
  ASSUME EInv, Editor!historyUp
  PROVE  EInv'
  <1> DEFINE lines == log[editorLanguage]
  <1>1. /\ shown = "repl" /\ lines # <<>> /\ cursor # 1
        /\ historyDraft' = IF cursor = 0 THEN editor ELSE historyDraft
        /\ before' = IF cursor = 0 THEN editor ELSE before
        /\ cursor' = IF cursor = 0 THEN Len(lines) ELSE cursor - 1
        /\ editor' = lines[cursor'] /\ Editor!persist
        /\ UNCHANGED <<editorLanguage, editorMode, shown, saved, loading, requested, scriptDraft,
                       selected, log>>
    BY DEF Editor!historyUp, Editor!recallHistory, Editor!Submitted, Editor!mode, Editor!page
  <1>2. lines \in Seq(LogLines) /\ Len(lines) \in Nat \ {0}
    BY <1>1 DEF EInv, ETypes
  <1>3. cursor \in Nat /\ (cursor # 0 => cursor <= Len(lines))
    BY DEF EInv, ETypes, EBrowsing
  <1>4. cursor' \in 1..Len(lines)
    BY <1>1, <1>2, <1>3
  <1>5. editor' \in Editor!Prompts
    BY <1>1, <1>2, <1>4, TextKinds
  <1>6. historyDraft' \in Editor!Texts /\ before' \in Editor!Texts
    BY <1>1 DEF EInv, ETypes
  <1>7. ~loading => editor \in Editor!Prompts
    BY <1>1 DEF EInv, ELayout
  <1>8. EBrowsing'
    <2>1. historyDraft' = before' /\ (~loading => historyDraft' \in Editor!Prompts)
      BY <1>1, <1>7 DEF EInv, EBrowsing
    <2> QED
      BY <1>1, <1>4, <2>1 DEF EBrowsing
  <1>9. cursor' \in Nat
    BY <1>2, <1>4
  <1> HIDE DEF lines
  <1> QED
    BY <1>1, <1>5, <1>6, <1>8, <1>9, BrowseStep

\* The key for the line after, or the draft.
LEMMA HistoryDownStep ==
  ASSUME EInv, Editor!historyDown
  PROVE  EInv'
  <1> DEFINE lines == log[editorLanguage]
  <1>1. /\ shown = "repl" /\ cursor # 0 /\ Editor!persist
        /\ UNCHANGED <<editorLanguage, editorMode, shown, saved, loading, requested, scriptDraft,
                       selected, log>>
    BY DEF Editor!historyDown, Editor!mode, Editor!page
  <1>2. lines \in Seq(LogLines) /\ cursor \in Nat /\ cursor <= Len(lines)
    BY <1>1 DEF EInv, ETypes, EBrowsing
  <1>3. CASE cursor >= Len(lines)
    <2>1. editor' = historyDraft /\ cursor' = 0 /\ historyDraft' = Blank /\ before' = Blank
      BY <1>3 DEF Editor!historyDown, Editor!recallHistory, Editor!Submitted,
         Editor!StopBrowsing
    <2>2. editor' \in Editor!Prompts \/ (loading /\ editor' \in Editor!Texts)
      BY <1>1, <2>1 DEF EInv, ETypes, EBrowsing
    <2>3. EBrowsing'
      BY <2>1 DEF EBrowsing
    <2> QED
      BY <1>1, <2>1, <2>2, <2>3, TextKinds, BrowseStep
  <1>4. CASE ~(cursor >= Len(lines))
    <2>1. /\ editor' = lines[cursor + 1] /\ cursor' = cursor + 1
          /\ historyDraft' = historyDraft /\ before' = before
      BY <1>4 DEF Editor!historyDown, Editor!recallHistory, Editor!Submitted
    <2>2. cursor + 1 \in 1..Len(lines) /\ cursor + 1 \in Nat
      BY <1>2, <1>4
    <2>3. editor' \in Editor!Prompts
      BY <1>2, <2>1, <2>2, TextKinds
    <2>4. EBrowsing'
      BY <1>1, <2>1, <2>2 DEF EInv, EBrowsing
    <2>5. historyDraft' \in Editor!Texts /\ before' \in Editor!Texts
      BY <2>1 DEF EInv, ETypes
    <2> QED
      BY <1>1, <2>1, <2>2, <2>3, <2>4, <2>5, BrowseStep
  <1> QED
    BY <1>3, <1>4

\* Clearing the log.
LEMMA EmptyLogStep ==
  ASSUME EInv, NEW l \in EditorLanguages, Editor!EmptyLog(l)
  PROVE  EInv'
  <1>1. /\ log' = [log EXCEPT ![l] = <<>>] /\ Editor!persist
        /\ cursor' = 0 /\ historyDraft' = Blank /\ before' = Blank
        /\ UNCHANGED <<editor, editorLanguage, editorMode, shown, saved, loading, requested,
                       scriptDraft, selected>>
    BY DEF Editor!EmptyLog, Editor!StopBrowsing, Editor!mode, Editor!page
  <1>2. log' \in [EditorLanguages -> Seq(LogLines)]
    BY <1>1 DEF EInv, ETypes
  <1>3. InPrompt' = InPrompt
    BY <1>1 DEF InPrompt
  <1>4. stored' \in Remembered
    BY <1>1, <1>3, PersistTyped DEF EInv, ETypes, ELayout
  <1>5. ETypes'
    BY <1>1, <1>2, <1>4, TextKinds DEF EInv, ETypes
  <1> QED
    BY <1>1, <1>3, <1>5 DEF EInv, ELayout, EBrowsing

\* What a page finds in storage, or nothing, is a script.
LEMMA LoadTyped ==
  ASSUME NEW record \in Remembered
  PROVE  Editor!LoadedText(record) \in Editor!Scripts /\ Editor!LoadedMode(record) \in Editor!Modes
  <1>1. Editor!Example(First, 1) \in Editor!Scripts
    BY TextKinds, EditorAssumption
  <1> QED
    BY <1>1 DEF Remembered, Editor!LoadedText, Editor!LoadedMode, Editor!Modes

\* Reloading the page.
LEMMA ReloadStep ==
  ASSUME EInv, Editor!Reload
  PROVE  EInv'
  <1>1. stored \in Remembered
    BY DEF EInv, ETypes
  <1>2. /\ editorLanguage' = First /\ shown' = "script" /\ loading' = TRUE
        /\ editorMode' \in Editor!Modes /\ editor' \in Editor!Scripts
        /\ scriptDraft' \in Editor!Scripts /\ saved' = stored /\ stored' = stored
        /\ requested' \in EditorLanguages \cup {NONE} /\ selected' = 1 /\ cursor' = 0
        /\ historyDraft' = Blank /\ before' = Blank /\ log' = log
    BY <1>1, LoadTyped DEF Editor!Reload
  <1>3. ETypes'
    BY <1>2, TextKinds, EditorAssumption DEF EInv, ETypes, Editor!Modes
  <1> QED
    BY <1>2, <1>3 DEF EInv, ELayout, EBrowsing

\* The page as it is loaded.
LEMMA EditorInit == Editor!Init => EInv
  <1> SUFFICES ASSUME Editor!Init PROVE EInv
    OBVIOUS
  <1>1. NONE \in Remembered
    BY DEF Remembered
  <1>2. /\ editorLanguage = First /\ shown = "script" /\ loading = TRUE
        /\ editorMode \in Editor!Modes /\ editor \in Editor!Scripts
        /\ scriptDraft \in Editor!Scripts /\ saved = NONE /\ stored = NONE
        /\ requested \in EditorLanguages \cup {NONE} /\ selected = 1 /\ cursor = 0
        /\ historyDraft = Blank /\ before = Blank
    BY <1>1, LoadTyped DEF Editor!Init
  <1>3. log \in [EditorLanguages -> Seq(LogLines)]
    BY DEF Editor!Init
  <1>4. ETypes
    BY <1>1, <1>2, <1>3, TextKinds, EditorAssumption DEF ETypes, Editor!Modes
  <1> QED
    BY <1>2, <1>4 DEF EInv, ELayout, EBrowsing

\* Every step of the editor keeps the invariant.
LEMMA EditorStep == EInv /\ [Editor!Next]_Editor!vars => EInv'
  <1> SUFFICES ASSUME EInv, [Editor!Next]_Editor!vars PROVE EInv'
    OBVIOUS
  <1>1. CASE UNCHANGED Editor!vars
    BY <1>1 DEF EInv, ETypes, ELayout, EBrowsing, InPrompt, Editor!vars, Editor!mode, Editor!page
  <1> QED
    BY <1>1, TypeStep, ExampleStep, SnippetStep, EditorModeStep, EditorLanguageStep, RequestStep,
       EmptyLogStep, SubmitStep, HistoryUpStep, HistoryDownStep, ReloadStep DEF Editor!Next

\* The one editor keeps apart the script, the prompt and the history: what is
\* stored is a script, the text fits the layout, and browsing shows the lines
\* there are and brings back what was there before.
THEOREM EditorCoherence == Editor!Spec => []EditorIsCoherent
  BY EditorInit, EditorStep, EditorFromInvariant, PTL DEF Editor!Spec

(***************************************************************************)
(* Part three: the sessions, what is on screen and the requests.           *)
(***************************************************************************)
LineRecords == [lang : Languages, sid : Sids, gen : 0..Generations, status : {"pending", "done"}]

\* Every new id is paid for by a language's first use or by a New session, each
\* of which was a generation of its own.
Unused   == {l \in Languages : sessionIds[l] = 0}
AskedNew == {q \in asked : q.op = "new"}
SBound   ==
  /\ IsFiniteSet(asked)
  /\ minted + Cardinality(Unused) + Cardinality(AskedNew) <= Cardinality(Languages) + generation

SIds ==
  /\ language \in Languages /\ userMode \in {"script", "repl"} /\ generation \in 0..Generations
  /\ minted \in Nat \ {0} /\ sessionIds \in [Languages -> 0..minted] /\ sessionId # 0
  /\ \A l, m \in Languages : l # m /\ sessionIds[l] # 0 => sessionIds[l] # sessionIds[m]

\* A line is of a session that is of its language, if still of any.
Owned(c) == c.sid <= minted /\ \A l \in Languages : sessionIds[l] = c.sid => l = c.lang

SLines ==
  /\ line \in Seq(LineRecords) /\ Len(line) <= Lines
  /\ \A c \in Range(line) : Owned(c) /\ c.gen <= generation

\* The lines of a log, and the one selected, are of its session.
SLogs ==
  /\ cells \in [Sids -> Seq(Ids)]
  /\ selectedCell \in [Sids -> Ids \cup {NoId}] /\ followLatest \in [Sids -> BOOLEAN]
  /\ \A s \in Sids :
       /\ Len(cells[s]) <= MAX_CELLS
       /\ \A i \in DOMAIN cells[s] : cells[s][i] \in DOMAIN line /\ line[cells[s][i]].sid = s
       /\ s > minted => cells[s] = <<>>
       /\ selectedCell[s] # NoId =>
            selectedCell[s] \in DOMAIN line /\ line[selectedCell[s]].sid = s

\* A row is of the log on screen, and a line of this generation that it says is
\* being evaluated is, in the session shown.
RowIsFresh(row) ==
  /\ row.id \in DOMAIN line /\ line[row.id].sid = pane.sid
  /\ row.status = "pending" /\ line[row.id].gen = generation =>
       line[row.id].status = "pending" /\ ~Stale(line[row.id])

SPane ==
  /\ pane.sid \in Sids \cup {0}
  /\ \A row \in Range(pane.rows) : RowIsFresh(row)
  /\ InRepl /\ pane.sid # sessionId => pane.rows = <<>>
  /\ PaneIsCurrent

SOutput == OutputIsFresh /\ (output.status = "pending" => output.id \in DOMAIN line)

SStrip == StripIsCurrent /\ strip \in Sids \cup {0}
                         /\ infos \subseteq [lang : Languages, sid : Sids]

\* A script run that was crossed by a change of language is of an earlier generation.
SRuns ==
  /\ run \cup response \subseteq [lang : Languages, gen : 0..Generations, crossed : BOOLEAN]
  /\ \A r \in run : r.gen <= generation /\ (r.crossed => r.gen < generation)
  /\ ResponseIsCurrent

\* Unless it was overtaken, what is asked is about the session shown.
SAsked ==
  /\ asked \subseteq [op : {"new", "reset"}, lang : Languages, sid : Sids, gen : 1..Generations]
  /\ \A q \in asked : q.sid <= minted
  /\ overlapped \in BOOLEAN
  /\ ~overlapped => /\ \A q \in asked : q.lang = language /\ q.sid = sessionId
                    /\ \A q, r \in asked : q = r

SInv == SBound /\ SIds /\ SLines /\ SLogs /\ SPane /\ SOutput /\ SStrip /\ SRuns /\ SAsked

\* The ids there are fit their bound.
SFits == minted \in Sids /\ 1..minted \subseteq Sids /\ sessionId \in Sids

\* What SBound says of the ids there are.
LEMMA BoundFits ==
  ASSUME SBound, SIds
  PROVE  SFits
  <1>1. /\ Cardinality(Languages) \in Nat /\ Cardinality(Unused) \in Nat
        /\ Cardinality(AskedNew) \in Nat
    <2>1. Unused \in SUBSET Languages /\ AskedNew \in SUBSET asked
      BY DEF Unused, AskedNew
    <2>2. IsFiniteSet(Languages) /\ IsFiniteSet(asked)
      BY LanguagesAssumption DEF SBound
    <2>3. IsFiniteSet(Unused) /\ IsFiniteSet(AskedNew)
      BY <2>1, <2>2, FS_Subset
    <2> QED
      BY <2>2, <2>3, FS_CardinalityType
  <1>2. minted <= Cardinality(Languages) + Generations
    BY <1>1, LanguagesAssumption DEF SBound, SIds
  <1>3. sessionId \in 1..minted
    BY DEF SIds, sessionId
  <1> QED
    BY <1>1, <1>2, <1>3, LanguagesAssumption DEF SFits, SIds, Sids

\* The same without a boxed hypothesis.
LEMMA BoundFitsAlways == SBound /\ SIds => SFits
  BY BoundFits

\* The same after a step.
LEMMA BoundFitsNext == SBound' /\ SIds' => SFits'
  BY BoundFitsAlways, PTL

\* What is unused, and the New sessions asked for, are finite.
LEMMA BoundFinite ==
  ASSUME SBound
  PROVE  /\ IsFiniteSet(Unused) /\ IsFiniteSet(AskedNew)
         /\ Cardinality(Unused) \in Nat /\ Cardinality(AskedNew) \in Nat
         /\ Cardinality(Languages) \in Nat
  <1>1. Unused \in SUBSET Languages /\ AskedNew \in SUBSET asked
    BY DEF Unused, AskedNew
  <1>2. IsFiniteSet(Languages) /\ IsFiniteSet(asked)
    BY LanguagesAssumption DEF SBound
  <1>3. IsFiniteSet(Unused) /\ IsFiniteSet(AskedNew)
    BY <1>1, <1>2, FS_Subset
  <1> QED
    BY <1>2, <1>3, FS_CardinalityType

\* A change of language pays for the id it may need.
LEMMA MintBound ==
  ASSUME SBound, SIds, NEW l \in Languages, Mint(l), generation' = generation + 1,
         asked' = asked
  PROVE  SBound'
  <1>1. AskedNew' = AskedNew
    BY DEF AskedNew
  <1>2. CASE sessionIds[l] = 0
    <2>1. sessionIds' = [sessionIds EXCEPT ![l] = minted + 1] /\ minted' = minted + 1
      BY <1>2 DEF Mint
    <2>2. Unused' = Unused \ {l} /\ l \in Unused
      BY <1>2, <2>1 DEF Unused, SIds
    <2>3. Cardinality(Unused') = Cardinality(Unused) - 1
      BY <2>2, BoundFinite, FS_RemoveElement
    <2> QED
      BY <1>1, <2>1, <2>3, BoundFinite DEF SBound, SIds
  <1>3. CASE sessionIds[l] # 0
    <2>1. Unused' = Unused /\ minted' = minted
      BY <1>3 DEF Mint, Unused
    <2> QED
      BY <1>1, <2>1, BoundFinite DEF SBound, SIds
  <1> QED
    BY <1>2, <1>3

\* A request for a New session pays for the id it will need.
LEMMA AskBound ==
  ASSUME SBound, SIds, NEW q, asked' = asked \cup {q}, generation' = generation + 1,
         UNCHANGED <<sessionIds, minted>>
  PROVE  SBound'
  <1>1. Unused' = Unused
    BY DEF Unused
  <1>2. AskedNew' \in {AskedNew, AskedNew \cup {q}}
    BY DEF AskedNew
  <1>3. /\ IsFiniteSet(asked') /\ Cardinality(AskedNew') \in Nat
        /\ Cardinality(AskedNew') <= Cardinality(AskedNew) + 1
    <2>1. IsFiniteSet(asked')
      BY FS_AddElement DEF SBound
    <2>2. CASE AskedNew' = AskedNew
      BY <2>1, <2>2, BoundFinite
    <2>3. CASE AskedNew' = AskedNew \cup {q}
      <3>1. Cardinality(AskedNew \cup {q}) \in {Cardinality(AskedNew), Cardinality(AskedNew) + 1}
        BY BoundFinite, FS_AddElement
      <3> QED
        BY <2>1, <2>3, <3>1, BoundFinite
    <2> QED
      BY <1>2, <2>1, <2>2, <2>3
  <1> QED
    BY <1>1, <1>3, BoundFinite DEF SBound, SIds

\* The id of a New session was paid for.
LEMMA NewBound ==
  ASSUME SBound, SIds, NEW q \in asked, q.op = "new", asked' = asked \ {q},
         minted' = minted + 1, sessionIds' = [sessionIds EXCEPT ![q.lang] = minted + 1],
         generation' = generation
  PROVE  SBound'
  <1>1. Unused' \in SUBSET Unused
    BY DEF Unused, SIds
  <1>2. AskedNew' = AskedNew \ {q} /\ q \in AskedNew
    BY DEF AskedNew
  <1>3. /\ IsFiniteSet(asked') /\ Cardinality(AskedNew') = Cardinality(AskedNew) - 1
        /\ Cardinality(Unused') \in Nat /\ Cardinality(Unused') <= Cardinality(Unused)
    BY <1>1, <1>2, BoundFinite, FS_RemoveElement, FS_Subset, FS_CardinalityType DEF SBound
  <1> QED
    BY <1>3, BoundFinite DEF SBound, SIds

\* Nothing is paid for where nothing changes.
LEMMA SameBound ==
  ASSUME SBound, SIds, UNCHANGED <<sessionIds, minted, generation>>,
         NEW q, asked' \in {asked, asked \ {q}}
  PROVE  SBound'
  <1>1. Unused' = Unused
    BY DEF Unused
  <1>2. AskedNew' \in SUBSET AskedNew /\ asked' \in SUBSET asked
    BY DEF AskedNew
  <1>3. /\ IsFiniteSet(asked') /\ Cardinality(AskedNew') \in Nat
        /\ Cardinality(AskedNew') <= Cardinality(AskedNew)
    BY <1>2, BoundFinite, FS_Subset, FS_CardinalityType DEF SBound
  <1> QED
    BY <1>1, <1>3, BoundFinite DEF SBound, SIds

\* What is selected for the pane is nothing or a line of the log.
LEMMA SelectedInLog ==
  ASSUME NEW list \in Seq(Ids), NEW id
  PROVE  selectedCellFor(list, id) = NoId \/ \E i \in DOMAIN list : selectedCellFor(list, id) = list[i]
  BY DEF selectedCellFor, Range, Last

\* A log is drawn as it is.
LEMMA RenderFresh ==
  ASSUME NEW sid \in Sids, renderReplLog(sid), SLines', SLogs', SIds',
         sid = sessionId' \/ cells'[sid] = <<>>
  PROVE  /\ pane'.sid = sid
         /\ \A row \in Range(pane.rows)' : RowIsFresh(row)'
         /\ InRepl' /\ pane'.sid # sessionId' => pane'.rows = <<>>
  <1> DEFINE rows == [i \in DOMAIN cells'[sid] |->
                        [id |-> cells'[sid][i], status |-> line'[cells'[sid][i]].status]]
  <1>1. pane' = [sid |-> sid, rows |-> rows]
    BY DEF renderReplLog
  <1>2. pane'.sid = sid /\ pane'.rows = rows
    BY <1>1
  <1>3. ASSUME NEW i \in DOMAIN cells'[sid], NEW row, row = rows[i] PROVE RowIsFresh(row)'
    <2>1. row.id = cells'[sid][i] /\ row.status = line'[row.id].status
      BY <1>3
    <2>2. row.id \in DOMAIN line' /\ line'[row.id].sid = sid
      BY <1>3, <2>1 DEF SLogs
    <2>3. line'[row.id] \in Range(line)'
      BY <2>2 DEF Range
    <2>4. \A l \in Languages : sessionIds'[l] = sid => l = line'[row.id].lang
      BY <2>2, <2>3 DEF SLines, Owned
    <2>5. sid = sessionId' => language' = line'[row.id].lang /\ sessionIds'[language'] = sid
      BY <2>4 DEF SIds, sessionId
    <2>6. sid = sessionId'
      BY <1>3
    <2> QED
      BY <1>2, <2>1, <2>2, <2>5, <2>6 DEF RowIsFresh, Stale
  <1>4. cells'[sid] = <<>> => rows = <<>>
    OBVIOUS
  <1> HIDE DEF rows
  <1>5. \A row \in Range(pane.rows)' : \E i \in DOMAIN cells'[sid] : row = rows[i]
    BY <1>2 DEF Range, rows
  <1> QED
    BY <1>2, <1>3, <1>4, <1>5

\* The result pane is drawn of what is selected.
LEMMA DisplayFresh ==
  ASSUME display, SLogs', SIds', SFits'
  PROVE  SOutput'
  <1> DEFINE sid == sessionId'
             id  == selectedCellFor(cells'[sid], selectedCell'[sid])
  <1>1. CASE InRepl'
    <2>1. output' = [id |-> id, status |-> IF id = NoId THEN "none" ELSE line'[id].status]
      BY <1>1 DEF display, InRepl, sessionId
    <2>2. sid \in Sids /\ cells'[sid] \in Seq(Ids)
      BY DEF SFits, SLogs
    <2>3. id = NoId \/ \E i \in DOMAIN cells'[sid] : id = cells'[sid][i]
      BY <2>2, SelectedInLog
    <2>4. id # NoId => id \in DOMAIN line'
      BY <2>2, <2>3 DEF SLogs
    <2> HIDE DEF id
    <2> QED
      BY <2>1, <2>4 DEF SOutput, OutputIsFresh
  <1>2. CASE ~InRepl'
    <2>1. output' = [id |-> NoId, status |-> "none"]
      BY <1>2 DEF display, InRepl
    <2> QED
      BY <2>1 DEF SOutput, OutputIsFresh
  <1> QED
    BY <1>1, <1>2

\* What is known of a line.
LEMMA LineFacts ==
  ASSUME SLines, SIds, NEW i \in DOMAIN line
  PROVE  /\ line[i] \in LineRecords /\ Owned(line[i]) /\ line[i].gen <= generation
         /\ line[i].gen \in Nat /\ generation \in Nat /\ generation <= Generations
         /\ i \in 1..Len(line) /\ Len(line) \in Nat /\ i \in Ids
  <1>1. line[i] \in LineRecords /\ line[i] \in Range(line) /\ i \in 1..Len(line)
        /\ Len(line) \in Nat
    BY DEF SLines, Range
  <1>2. Owned(line[i]) /\ line[i].gen <= generation
    BY <1>1 DEF SLines
  <1>3. line[i].gen \in 0..Generations /\ generation \in 0..Generations
    BY <1>1 DEF LineRecords, SIds
  <1> QED
    BY <1>1, <1>2, <1>3, LanguagesAssumption DEF SLines, Ids

\* Entering the REPL layout draws the current log and empties the strip.
LEMMA SyncGives ==
  ASSUME SLogs, SIds, SLines', SIds', SFits', syncModeUI, cells' = cells, line' = line,
         minted <= minted'
  PROVE  /\ SLogs'
         /\ InRepl' => /\ pane'.sid = sessionId' /\ strip' = 0
                       /\ \A row \in Range(pane.rows)' : RowIsFresh(row)'
         /\ ~InRepl' => pane' = pane /\ strip' = strip
  <1> DEFINE sid == sessionId'
  <1>1. sid \in Sids /\ cells[sid] \in Seq(Ids)
    BY DEF SFits, SLogs
  <1>2. CASE InRepl'
    <2> DEFINE chosen == IF selectedCell[sid] = NoId THEN selectedCellFor(cells[sid], selectedCell[sid])
                         ELSE selectedCell[sid]
    <2>1. /\ selectedCell' = [selectedCell EXCEPT ![sid] = chosen]
          /\ followLatest' = [followLatest EXCEPT ![sid] = followLatest[sid] \/ selectedCell[sid] = NoId]
          /\ renderReplLog(sid) /\ strip' = 0
      BY <1>2 DEF syncModeUI, InRepl, sessionId
    <2>2. \/ chosen = NoId \/ chosen = selectedCell[sid]
          \/ \E i \in DOMAIN cells[sid] : chosen = cells[sid][i]
      BY <1>1, SelectedInLog
    <2>3. /\ chosen \in Ids \cup {NoId}
          /\ chosen # NoId => chosen \in DOMAIN line /\ line[chosen].sid = sid
      BY <1>1, <2>2 DEF SLogs
    <2> HIDE DEF chosen
    <2>4. SLogs'
      <3>1. selectedCell' \in [Sids -> Ids \cup {NoId}] /\ followLatest' \in [Sids -> BOOLEAN]
        BY <1>1, <2>1, <2>3 DEF SLogs
      <3>2. \A s \in Sids : selectedCell'[s] = IF s = sid THEN chosen ELSE selectedCell[s]
        BY <2>1 DEF SLogs
      <3>3. \A s \in Sids : s > minted' => s > minted
        BY DEF SIds, Sids
      <3> QED
        BY <2>3, <3>1, <3>2, <3>3 DEF SLogs
    <2>5. pane'.sid = sid /\ \A row \in Range(pane.rows)' : RowIsFresh(row)'
      BY <1>1, <2>1, <2>4, RenderFresh
    <2> QED
      BY <1>2, <2>1, <2>4, <2>5
  <1>3. CASE ~InRepl'
    <2>1. UNCHANGED <<selectedCell, followLatest, pane, strip>>
      BY <1>3 DEF syncModeUI, InRepl, sessionId
    <2>2. \A s \in Sids : s > minted' => s > minted
      BY DEF SIds, Sids
    <2> QED
      BY <1>3, <2>1, <2>2 DEF SLogs
  <1> QED
    BY <1>2, <1>3

\* The status is asked for the session shown.
LEMMA InfosTyped ==
  ASSUME SFits', SIds', refreshSessionInfo, infos \subseteq [lang : Languages, sid : Sids]
  PROVE  infos' \subseteq [lang : Languages, sid : Sids]
  <1>1. sessionIds'[language'] \in Sids /\ language' \in Languages
    BY DEF SFits, SIds, sessionId
  <1> QED
    BY <1>1 DEF refreshSessionInfo

\* Switching the language: a session, if it needs one, and a generation.
LEMMA MintedIds ==
  ASSUME SIds, NEW l \in Languages, generation < Generations, generation' = generation + 1,
         language' = l, userMode' = userMode, Mint(l)
  PROVE  /\ SIds' /\ minted <= minted'
         /\ \A m \in Languages : sessionIds'[m] = sessionIds[m] \/ sessionIds'[m] > minted
  <1>1. CASE sessionIds[l] = 0
    <2>1. sessionIds' = [sessionIds EXCEPT ![l] = minted + 1] /\ minted' = minted + 1
      BY <1>1 DEF Mint
    <2> QED
      BY <2>1, LanguagesAssumption DEF SIds, sessionId
  <1>2. CASE sessionIds[l] # 0
    <2>1. sessionIds' = sessionIds /\ minted' = minted
      BY <1>2 DEF Mint
    <2> QED
      BY <1>2, <2>1, LanguagesAssumption DEF SIds, sessionId
  <1> QED
    BY <1>1, <1>2

\* The lines stay their sessions', when the ids given are new ones.
LEMMA LinesStay ==
  ASSUME SIds, SLines, line' = line, minted <= minted', minted' \in Nat,
         generation <= generation', generation' \in Nat,
         \A m \in Languages : sessionIds'[m] = sessionIds[m] \/ sessionIds'[m] > minted
  PROVE  SLines'
  <1>1. \A c \in Range(line) : c \in LineRecords /\ Owned(c) /\ c.gen <= generation
    BY DEF SLines, Range
  <1>2. ASSUME NEW c \in Range(line) PROVE Owned(c)' /\ c.gen <= generation'
    <2>1. c \in LineRecords /\ Owned(c) /\ c.gen <= generation
      BY <1>1
    <2>2. c.sid \in Nat /\ c.gen \in Nat /\ minted \in Nat /\ generation \in Nat
      BY <2>1, LanguagesAssumption DEF LineRecords, Sids, SIds
    <2>3. sessionIds \in [Languages -> Nat]
      BY DEF SIds
    <2> QED
      BY <2>1, <2>2, <2>3 DEF Owned
  <1>3. Range(line)' = Range(line)
    BY DEF Range
  <1> QED
    BY <1>2, <1>3 DEF SLines

\* What is on screen once the layout was seen to, whichever it is.
LEMMA ScreenAfterSync ==
  ASSUME SLogs, SIds, SLines, SPane, SStrip, SLines', SIds', SFits', syncModeUI,
         refreshSessionInfo, display, cells' = cells, line' = line, minted <= minted',
         ~InRepl' => \A row \in Range(pane.rows) : RowIsFresh(row) => pane' # pane \/ RowIsFresh(row)'
  PROVE  SLogs' /\ SPane' /\ SOutput' /\ SStrip'
  <1>1. /\ SLogs'
        /\ InRepl' => /\ pane'.sid = sessionId' /\ strip' = 0
                      /\ \A row \in Range(pane.rows)' : RowIsFresh(row)'
        /\ ~InRepl' => pane' = pane /\ strip' = strip
    BY SyncGives
  <1>2. SOutput'
    BY <1>1, DisplayFresh
  <1>3. infos' \subseteq [lang : Languages, sid : Sids]
    BY InfosTyped DEF SStrip
  <1>4. SStrip'
    BY <1>1, <1>3 DEF SStrip, StripIsCurrent
  <1>5. SPane'
    <2>1. CASE InRepl'
      BY <1>1, <2>1 DEF SPane, PaneIsCurrent, SFits
    <2>2. CASE ~InRepl'
      <3>1. \A row \in Range(pane.rows)' : RowIsFresh(row)'
        BY <1>1, <2>2 DEF SPane
      <3> QED
        BY <1>1, <2>2, <3>1 DEF SPane, PaneIsCurrent
    <2> QED
      BY <2>1, <2>2
  <1> QED
    BY <1>1, <1>2, <1>4, <1>5

\* Changing the language, with or without a session of it.
LEMMA SwitchLanguageStep ==
  ASSUME SInv, NEW l \in Languages, switchLanguage(l)
  PROVE  SInv'
  <1>0. /\ generation < Generations /\ generation' = generation + 1 /\ language' = l /\ Mint(l)
        /\ UNCHANGED <<userMode, cells, line, asked>>
        /\ syncModeUI /\ refreshSessionInfo /\ display
        /\ response' = {} /\ run' = {[r EXCEPT !.crossed = TRUE] : r \in run}
        /\ overlapped' = (asked # {})
    BY DEF switchLanguage
  <1>1. /\ SIds' /\ minted <= minted'
        /\ \A m \in Languages : sessionIds'[m] = sessionIds[m] \/ sessionIds'[m] > minted
    BY <1>0, MintedIds DEF SInv
  <1>2. SBound' /\ SFits'
    BY <1>0, <1>1, MintBound, BoundFitsNext DEF SInv
  <1>3. SLines'
    BY <1>0, <1>1, LinesStay, LanguagesAssumption DEF SInv, SIds
  <1>4. \A row \in Range(pane.rows) : RowIsFresh(row) => pane' # pane \/ RowIsFresh(row)'
    <2> SUFFICES ASSUME NEW row \in Range(pane.rows), RowIsFresh(row), pane' = pane
                 PROVE  RowIsFresh(row)'
      OBVIOUS
    <2>1. row.id \in DOMAIN line /\ line[row.id].sid = pane.sid
      BY DEF RowIsFresh
    <2>2. line[row.id].gen <= generation /\ line[row.id].gen \in Nat /\ generation \in Nat
      BY <2>1, LineFacts DEF SInv
    <2>3. line'[row.id].gen # generation'
      BY <1>0, <2>2
    <2> QED
      BY <1>0, <2>1, <2>3 DEF RowIsFresh
  <1>5. SLogs' /\ SPane' /\ SOutput' /\ SStrip'
    BY <1>0, <1>1, <1>2, <1>3, <1>4, ScreenAfterSync DEF SInv
  <1>6. SRuns'
    <2>1. \A r \in run : /\ r \in [lang : Languages, gen : 0..Generations, crossed : BOOLEAN]
                         /\ r.gen <= generation
      BY DEF SInv, SRuns
    <2>2. generation \in Nat
      BY LanguagesAssumption DEF SInv, SIds
    <2>3. ASSUME NEW q \in run'
          PROVE  /\ q \in [lang : Languages, gen : 0..Generations, crossed : BOOLEAN]
                 /\ q.gen < generation'
      <3>1. PICK r \in run : q = [r EXCEPT !.crossed = TRUE]
        BY <1>0
      <3>2. q \in [lang : Languages, gen : 0..Generations, crossed : BOOLEAN] /\ q.gen = r.gen
        BY <2>1, <3>1
      <3>3. r.gen \in Nat /\ r.gen <= generation
        BY <2>1, LanguagesAssumption
      <3> QED
        BY <1>0, <2>2, <3>2, <3>3
    <2>4. \A q \in run' : q.gen <= generation'
      <3>1. \A q \in run' : q.gen \in Nat
        BY <2>3, LanguagesAssumption
      <3> QED
        BY <1>0, <2>2, <2>3, <3>1
    <2> QED
      BY <1>0, <2>3, <2>4 DEF SRuns, ResponseIsCurrent
  <1>7. SAsked'
    <2>1. overlapped' \in BOOLEAN /\ (~overlapped' => asked' = {})
      BY <1>0
    <2>2. \A q \in asked' : q.sid <= minted'
      <3>1. \A q \in asked : q.sid <= minted /\ q.sid \in Nat
        BY DEF SInv, SAsked, Sids
      <3> QED
        BY <1>0, <1>1, <3>1 DEF SInv, SIds
    <2> QED
      BY <1>0, <2>1, <2>2 DEF SInv, SAsked
  <1> QED
    BY <1>1, <1>2, <1>3, <1>5, <1>6, <1>7 DEF SInv

\* A step that leaves the language, the mode, the generation and the ids alone.
Steady == UNCHANGED <<language, userMode, generation, sessionIds, minted>>

\* What stays as it was.
LEMMA SteadyGives ==
  ASSUME Steady, SIds
  PROVE  /\ SIds' /\ sessionId' = sessionId /\ InRepl' = InRepl
         /\ \A c : (Owned(c)' <=> Owned(c)) /\ (Stale(c)' <=> Stale(c))
  BY DEF Steady, SIds, sessionId, InRepl, Owned, Stale

\* Changing between script and prompt.
LEMMA SetModeStep ==
  ASSUME SInv, NEW m \in {"script", "repl"}, setMode(m)
  PROVE  SInv'
  <1>0. /\ userMode' = m
        /\ UNCHANGED <<language, generation, sessionIds, minted, cells, line, run, response, asked>>
        /\ syncModeUI /\ refreshSessionInfo /\ display
        /\ overlapped' = (overlapped /\ asked # {})
    BY DEF setMode, ids, scripts
  <1>1. /\ SIds' /\ sessionId' = sessionId /\ minted <= minted'
        /\ \A c : (Owned(c)' <=> Owned(c)) /\ (Stale(c)' <=> Stale(c))
    BY <1>0 DEF SInv, SIds, sessionId, Owned, Stale
  <1>2. SBound' /\ SFits'
    BY <1>0, <1>1, SameBound, BoundFitsNext DEF SInv
  <1>3. SLines'
    BY <1>0, <1>1 DEF SInv, SLines
  <1>4. \A row \in Range(pane.rows) : RowIsFresh(row) => pane' # pane \/ RowIsFresh(row)'
    BY <1>0, <1>1 DEF RowIsFresh
  <1>5. SLogs' /\ SPane' /\ SOutput' /\ SStrip'
    BY <1>0, <1>1, <1>2, <1>3, <1>4, ScreenAfterSync DEF SInv
  <1>6. SRuns'
    BY <1>0 DEF SInv, SRuns, ResponseIsCurrent
  <1>7. SAsked'
    <2>1. overlapped' \in BOOLEAN /\ (~overlapped' => ~overlapped \/ asked' = {})
      BY <1>0 DEF SInv, SAsked
    <2> QED
      BY <1>0, <1>1, <2>1 DEF SInv, SAsked
  <1> QED
    BY <1>1, <1>2, <1>3, <1>5, <1>6, <1>7 DEF SInv

\* What a steady step need not look at.
LEMMA SteadyKeeps ==
  ASSUME SInv, Steady
  PROVE  /\ SIds' /\ sessionId' = sessionId /\ InRepl' = InRepl
         /\ asked' = asked => SBound' /\ SFits'
         /\ UNCHANGED <<asked, overlapped>> => SAsked'
         /\ UNCHANGED <<run, response>> => SRuns'
         /\ line' = line => SLines'
         /\ UNCHANGED <<line, cells, selectedCell, followLatest>> => SLogs'
         /\ UNCHANGED <<line, pane, overlapped>> => SPane'
         /\ UNCHANGED <<line, selectedCell, output>> => SOutput'
         /\ UNCHANGED <<strip, infos>> => SStrip'
  <1>1. /\ SIds' /\ sessionId' = sessionId /\ InRepl' = InRepl
        /\ \A c : (Owned(c)' <=> Owned(c)) /\ (Stale(c)' <=> Stale(c))
    BY SteadyGives DEF SInv
  <1>2. asked' = asked => SBound' /\ SFits'
    BY <1>1, SameBound, BoundFitsNext DEF SInv, Steady
  <1>3. /\ UNCHANGED <<asked, overlapped>> => SAsked'
        /\ UNCHANGED <<run, response>> => SRuns'
        /\ UNCHANGED <<strip, infos>> => SStrip'
    BY <1>1 DEF SInv, SAsked, SRuns, ResponseIsCurrent, SStrip, StripIsCurrent, Steady
  <1>4. line' = line => SLines'
    BY <1>1 DEF SInv, SLines, Steady
  <1>5. UNCHANGED <<line, cells, selectedCell, followLatest>> => SLogs'
    BY DEF SInv, SLogs, Steady
  <1>6. UNCHANGED <<line, pane, overlapped>> => SPane'
    <2> SUFFICES ASSUME UNCHANGED <<line, pane, overlapped>> PROVE SPane'
      OBVIOUS
    <2>1. \A row : RowIsFresh(row) => RowIsFresh(row)'
      BY <1>1 DEF RowIsFresh, Steady
    <2> QED
      BY <1>1, <2>1 DEF SInv, SPane, PaneIsCurrent
  <1>7. UNCHANGED <<line, selectedCell, output>> => SOutput'
    BY <1>1 DEF SInv, SOutput, OutputIsFresh, Steady
  <1> QED
    BY <1>1, <1>2, <1>3, <1>4, <1>5, <1>6, <1>7

\* Selecting a tab of the output.
LEMMA SelectPaneStep ==
  ASSUME SInv, SelectTab
  PROVE  SInv'
  <1>0. /\ Steady /\ UNCHANGED <<cells, line, selectedCell, followLatest, pane, strip, infos, run,
                                 response, asked, overlapped>>
        /\ display
    BY DEF SelectTab, Steady, mode, ids, logs, scripts
  <1>1. SOutput'
    BY <1>0, SteadyKeeps, DisplayFresh
  <1> QED
    BY <1>0, <1>1, SteadyKeeps DEF SInv

\* Running the script.
LEMMA RunScriptStep ==
  ASSUME SInv, runScript
  PROVE  SInv'
  <1>0. /\ Steady /\ UNCHANGED <<cells, line, selectedCell, followLatest, pane, output, strip,
                                 infos, response, asked, overlapped>>
        /\ run' = {[lang |-> language, gen |-> generation, crossed |-> FALSE]}
    BY DEF runScript, Steady, mode, ids, logs, screen
  <1>1. language \in Languages /\ generation \in 0..Generations /\ generation \in Nat
    BY LanguagesAssumption DEF SInv, SIds
  <1>2. SRuns'
    <2> DEFINE Runs == [lang : Languages, gen : 0..Generations, crossed : BOOLEAN]
               new  == [lang |-> language, gen |-> generation, crossed |-> FALSE]
    <2>1. new \in Runs /\ new.gen = generation /\ new.crossed = FALSE
      BY <1>1
    <2>2. run' = {new} /\ response' = response /\ generation' = generation /\ language' = language
      BY <1>0 DEF Steady
    <2>3. response \subseteq Runs /\ \A r \in response : r.lang = language /\ ~r.crossed
      BY DEF SInv, SRuns, ResponseIsCurrent
    <2> HIDE DEF new
    <2>4. run' \cup response' \subseteq Runs
      BY <2>1, <2>2, <2>3
    <2> HIDE DEF Runs
    <2>5. \A r \in run' : r.gen <= generation' /\ (r.crossed => r.gen < generation')
      BY <1>1, <2>1, <2>2
    <2> QED
      BY <2>2, <2>3, <2>4, <2>5 DEF SRuns, ResponseIsCurrent, Runs
  <1> QED
    BY <1>0, <1>2, SteadyKeeps DEF SInv

\* The answer of a script run that is shown was not crossed: it is of this generation.
LEMMA ScriptAnswersStep ==
  ASSUME SInv, NEW r \in run, ScriptAnswers(r)
  PROVE  SInv'
  <1>0. /\ Steady /\ UNCHANGED <<cells, line, selectedCell, followLatest, pane, strip, infos,
                                 asked, overlapped>>
        /\ run' = {}
        /\ \/ UNCHANGED <<response, output>>
           \/ ~StaleRun(r) /\ response' = {r} /\ display
    BY DEF ScriptAnswers, RunEnds, Steady, mode, ids, logs
  <1>1. SOutput'
    BY <1>0, SteadyKeeps, DisplayFresh
  <1>2. SRuns'
    <2>1. /\ r \in [lang : Languages, gen : 0..Generations, crossed : BOOLEAN]
          /\ r.crossed => r.gen < generation
      BY DEF SInv, SRuns
    <2>2. r.gen \in Nat /\ generation \in Nat
      BY <2>1, LanguagesAssumption DEF SInv, SIds
    <2>3. ~StaleRun(r) => r.lang = language /\ ~r.crossed
      BY <2>1, <2>2 DEF StaleRun
    <2>4. response' = response \/ (response' = {r} /\ ~StaleRun(r))
      BY <1>0
    <2> QED
      BY <1>0, <2>1, <2>3, <2>4 DEF SInv, SRuns, ResponseIsCurrent, Steady
  <1> QED
    BY <1>0, <1>1, <1>2, SteadyKeeps DEF SInv

\* The answer to a request for session details.
LEMMA StatusAnswersStep ==
  ASSUME SInv, NEW i \in infos, NEW ok \in BOOLEAN, InfoAnswers(i, ok)
  PROVE  SInv'
  <1>0. /\ Steady /\ UNCHANGED <<cells, line, selectedCell, followLatest, pane, output, run,
                                 response, asked, overlapped>>
        /\ infos' = infos \ {i}
        /\ strip' = IF InfoIsCurrent(i) THEN (IF ok THEN i.sid ELSE 0) ELSE strip
    BY DEF InfoAnswers, Steady, mode, ids, logs, scripts
  <1>1. i.sid \in Sids
    BY DEF SInv, SStrip
  <1>2. InfoIsCurrent(i) => i.sid = sessionId
    BY DEF InfoIsCurrent, sessionId
  <1>3. SStrip'
    BY <1>0, <1>1, <1>2, SteadyKeeps DEF SInv, SStrip, StripIsCurrent
  <1> QED
    BY <1>0, <1>3, SteadyKeeps DEF SInv

\* A log is emptied.
LEMMA EmptyLogGives ==
  ASSUME SLogs, SIds, SIds', minted <= minted', line' = line, NEW sid \in Sids, EmptyLog(sid)
  PROVE  SLogs' /\ cells'[sid] = <<>> /\ \A s \in Sids : s > minted => cells'[s] = <<>>
  <1>1. /\ cells' = [cells EXCEPT ![sid] = <<>>]
        /\ selectedCell' = [selectedCell EXCEPT ![sid] = NoId]
        /\ followLatest' = [followLatest EXCEPT ![sid] = TRUE]
    BY DEF EmptyLog
  <1>2. /\ cells' \in [Sids -> Seq(Ids)] /\ selectedCell' \in [Sids -> Ids \cup {NoId}]
        /\ followLatest' \in [Sids -> BOOLEAN]
    BY <1>1 DEF SLogs
  <1>3. \A s \in Sids : /\ cells'[s] = IF s = sid THEN <<>> ELSE cells[s]
                        /\ selectedCell'[s] = IF s = sid THEN NoId ELSE selectedCell[s]
    BY <1>1 DEF SLogs
  <1>4. \A s \in Sids : s > minted' => s > minted
    BY DEF SIds, Sids
  <1>5. ASSUME NEW s \in Sids
        PROVE  /\ Len(cells'[s]) <= MAX_CELLS
               /\ \A i \in DOMAIN cells'[s] : cells'[s][i] \in DOMAIN line' /\ line'[cells'[s][i]].sid = s
               /\ s > minted' => cells'[s] = <<>>
               /\ selectedCell'[s] # NoId =>
                    selectedCell'[s] \in DOMAIN line' /\ line'[selectedCell'[s]].sid = s
    <2>1. CASE s = sid
      BY <1>3, <2>1, LanguagesAssumption
    <2>2. CASE s # sid
      BY <1>3, <1>4, <2>2 DEF SLogs
    <2> QED
      BY <2>1, <2>2
  <1> QED
    BY <1>2, <1>3, <1>5 DEF SLogs

\* Clearing the log of the session.
LEMMA ReplClearStep ==
  ASSUME SInv, ReplClear
  PROVE  SInv'
  <1>0. /\ Steady /\ UNCHANGED <<line, strip, infos, run, response, asked, overlapped>>
        /\ EmptyLog(sessionId) /\ renderReplLog(sessionId) /\ display
    BY DEF ReplClear, Steady, mode, ids, scripts
  <1>1. sessionId \in Sids /\ minted <= minted'
    BY <1>0, BoundFits DEF SInv, SFits, SIds, Steady
  <1>2. SLogs'
    BY <1>0, <1>1, SteadyKeeps, EmptyLogGives DEF SInv
  <1>3. pane'.sid = sessionId' /\ \A row \in Range(pane.rows)' : RowIsFresh(row)'
    BY <1>0, <1>1, <1>2, SteadyKeeps, RenderFresh
  <1>4. SPane'
    BY <1>0, <1>1, <1>3, SteadyKeeps DEF SPane, PaneIsCurrent
  <1>5. SOutput'
    BY <1>0, <1>2, SteadyKeeps, DisplayFresh
  <1> QED
    BY <1>0, <1>2, <1>4, <1>5, SteadyKeeps DEF SInv

\* Reset.
LEMMA ResetStep ==
  ASSUME SInv, NEW q \in asked, ResetContinues(q)
  PROVE  SInv'
  <1>0. /\ Steady /\ UNCHANGED <<line, strip, run, response, overlapped>>
        /\ asked' = asked \ {q}
        /\ EmptyLog(q.sid) /\ renderReplLog(q.sid) /\ display /\ refreshSessionInfo
    BY DEF ResetContinues, Steady, mode, ids, scripts
  <1>1. q.sid \in Sids /\ minted <= minted'
    BY <1>0 DEF SInv, SAsked, SIds, Steady
  <1>2. SBound' /\ SFits'
    BY <1>0, SteadyKeeps, SameBound, BoundFitsNext DEF SInv, Steady
  <1>3. SLogs' /\ cells'[q.sid] = <<>>
    BY <1>0, <1>1, SteadyKeeps, EmptyLogGives DEF SInv
  <1>4. /\ pane'.sid = q.sid /\ \A row \in Range(pane.rows)' : RowIsFresh(row)'
        /\ InRepl' /\ pane'.sid # sessionId' => pane'.rows = <<>>
    BY <1>0, <1>1, <1>3, SteadyKeeps, RenderFresh
  <1>5. ~overlapped => q.sid = sessionId
    BY DEF SInv, SAsked
  <1>6. SPane'
    BY <1>0, <1>1, <1>4, <1>5, SteadyKeeps DEF SPane, PaneIsCurrent
  <1>7. SOutput'
    BY <1>0, <1>2, <1>3, SteadyKeeps, DisplayFresh
  <1>8. SStrip'
    <2>1. infos' \subseteq [lang : Languages, sid : Sids]
      BY <1>0, <1>2, SteadyKeeps, InfosTyped DEF SInv, SStrip
    <2> QED
      BY <1>0, <2>1, SteadyKeeps DEF SInv, SStrip, StripIsCurrent
  <1>9. SAsked'
    BY <1>0, SteadyKeeps DEF SInv, SAsked, Steady
  <1> QED
    BY <1>0, <1>2, <1>3, <1>6, <1>7, <1>8, <1>9, SteadyKeeps DEF SInv

\* New session: an id that no log, line or request has.
LEMMA NewSessionStep ==
  ASSUME SInv, NEW q \in asked, NewSessionContinues(q)
  PROVE  SInv'
  <1>0. /\ q.op = "new" /\ asked' = asked \ {q} /\ EmptyLog(q.sid) /\ minted' = minted + 1
        /\ sessionIds' = [sessionIds EXCEPT ![q.lang] = minted + 1]
        /\ UNCHANGED <<language, userMode, generation, line, run, response, overlapped>>
        /\ renderReplLog(minted + 1) /\ strip' = 0 /\ display /\ refreshSessionInfo
    BY DEF NewSessionContinues, mode, scripts
  <1>1. q.sid \in Sids /\ q.lang \in Languages /\ minted \in Nat
    BY DEF SInv, SAsked, SIds
  <1>2. /\ SIds' /\ minted <= minted'
        /\ \A m \in Languages : sessionIds'[m] = IF m = q.lang THEN minted + 1 ELSE sessionIds[m]
        /\ language \in Languages
    BY <1>0, <1>1 DEF SInv, SIds, sessionId
  <1>3. SBound' /\ SFits'
    BY <1>0, <1>2, NewBound, BoundFitsNext DEF SInv
  <1>4. SLines'
    <2>1. \A m \in Languages : sessionIds'[m] = sessionIds[m] \/ sessionIds'[m] > minted
      BY <1>1, <1>2
    <2>2. minted' \in Nat /\ generation' \in Nat /\ generation <= generation'
      BY <1>0, <1>1, LanguagesAssumption DEF SInv, SIds
    <2> QED
      BY <1>0, <1>2, <2>1, <2>2, LinesStay DEF SInv
  <1>5. SLogs' /\ \A s \in Sids : s > minted => cells'[s] = <<>>
    BY <1>0, <1>1, <1>2, EmptyLogGives DEF SInv
  <1>6. minted + 1 \in Sids /\ cells'[minted + 1] = <<>>
    BY <1>0, <1>1, <1>3, <1>5 DEF SFits
  <1>7. /\ pane'.sid = minted + 1 /\ \A row \in Range(pane.rows)' : RowIsFresh(row)'
        /\ InRepl' /\ pane'.sid # sessionId' => pane'.rows = <<>>
    BY <1>0, <1>2, <1>4, <1>5, <1>6, RenderFresh
  <1>8. ~overlapped => sessionId' = minted + 1
    BY <1>0, <1>2 DEF SInv, SAsked, sessionId
  <1>9. SPane'
    BY <1>0, <1>6, <1>7, <1>8 DEF SPane, PaneIsCurrent
  <1>10. SOutput'
    BY <1>0, <1>2, <1>3, <1>5, DisplayFresh
  <1>11. SStrip'
    <2>1. infos' \subseteq [lang : Languages, sid : Sids]
      BY <1>0, <1>2, <1>3, InfosTyped DEF SInv, SStrip
    <2> QED
      BY <1>0, <2>1 DEF SStrip, StripIsCurrent
  <1>12. SRuns'
    BY <1>0 DEF SInv, SRuns, ResponseIsCurrent
  <1>13. SAsked'
    <2>1. \A r \in asked' : r.sid <= minted'
      <3>1. \A r \in asked : r.sid <= minted /\ r.sid \in Nat
        BY DEF SInv, SAsked, Sids
      <3> QED
        BY <1>0, <1>1, <3>1
    <2>2. ~overlapped' => asked' = {}
      BY <1>0 DEF SInv, SAsked
    <2> QED
      BY <1>0, <2>1, <2>2 DEF SInv, SAsked
  <1> QED
    BY <1>2, <1>3, <1>4, <1>5, <1>9, <1>10, <1>11, <1>12, <1>13 DEF SInv

\* A New session or Reset that is asked for is a generation of its own, which no
\* row, answer or run on its way is of.
LEMMA AskStep ==
  ASSUME SInv, NEW op \in {"new", "reset"}, Ask(op)
  PROVE  SInv'
  <1> DEFINE new == [op |-> op, lang |-> language, sid |-> sessionId, gen |-> generation + 1]
  <1>0. /\ generation < Generations /\ generation' = generation + 1
        /\ asked' = asked \cup {new} /\ overlapped' = (overlapped \/ asked # {})
        /\ UNCHANGED <<language, userMode, sessionIds, minted, cells, line, selectedCell,
                       followLatest, pane, output, strip, infos, run, response>>
    BY DEF Ask, ids, logs, screen, scripts
  <1>g. generation \in Nat /\ Generations \in Nat
    BY LanguagesAssumption DEF SInv, SIds
  <1>1. SIds' /\ sessionId' = sessionId /\ InRepl' = InRepl
    BY <1>0, <1>g DEF SInv, SIds, sessionId, InRepl
  <1>2. SFits
    BY BoundFits DEF SInv
  <1>3. SBound'
    BY <1>0, AskBound DEF SInv
  <1>4. SLines'
    <2>1. minted \in Nat /\ minted <= minted' /\ generation <= generation' /\ generation' \in Nat
      BY <1>0, <1>g DEF SInv, SIds
    <2> QED
      BY <1>0, <2>1, LinesStay DEF SInv
  <1>5. SLogs'
    BY <1>0 DEF SInv, SLogs
  <1>6. \A i \in DOMAIN line : line[i].gen < generation'
    BY <1>0, LineFacts DEF SInv
  <1>7. SPane'
    <2>1. \A row : RowIsFresh(row) => RowIsFresh(row)'
      BY <1>0, <1>6 DEF RowIsFresh
    <2>2. ~overlapped' => ~overlapped
      BY <1>0
    <2> QED
      BY <1>0, <1>1, <2>1, <2>2 DEF SInv, SPane, PaneIsCurrent
  <1>8. SOutput'
    BY <1>0, <1>1, <1>6 DEF SInv, SOutput, OutputIsFresh
  <1>9. SStrip'
    BY <1>0, <1>1 DEF SInv, SStrip, StripIsCurrent
  <1>10. SRuns'
    <2>1. ASSUME NEW r \in run PROVE r.gen < generation'
      <3>1. r.gen \in 0..Generations /\ r.gen <= generation
        BY DEF SInv, SRuns
      <3> QED
        BY <1>0, <1>g, <3>1
    <2>2. \A r \in run : r.gen <= generation'
      <3>1. \A r \in run : r.gen \in Nat
        BY <1>g DEF SInv, SRuns
      <3> QED
        BY <1>0, <1>g, <2>1, <3>1
    <2> QED
      BY <1>0, <2>1, <2>2 DEF SInv, SRuns, ResponseIsCurrent
  <1>11. SAsked'
    <2>1. /\ new \in [op : {"new", "reset"}, lang : Languages, sid : Sids, gen : 1..Generations]
          /\ new.sid = sessionId /\ new.lang = language
      BY <1>0, <1>g, <1>2 DEF SInv, SIds, SFits
    <2>2. sessionId <= minted
      BY DEF SInv, SIds, sessionId
    <2> HIDE DEF new
    <2>3. ~overlapped' => asked' = {new}
      BY <1>0
    <2>4. overlapped' \in BOOLEAN
      BY <1>0 DEF SInv, SAsked
    <2> QED
      BY <1>0, <1>1, <2>1, <2>2, <2>3, <2>4 DEF SInv, SAsked
  <1> QED
    BY <1>1, <1>3, <1>4, <1>5, <1>7, <1>8, <1>9, <1>10, <1>11 DEF SInv

\* The answer of a line fills its cell, and the page shows it if it is about it.
LEMMA LineAnswersStep ==
  ASSUME SInv, NEW id \in DOMAIN line, LineAnswers(id)
  PROVE  SInv'
  <1>0. /\ Steady /\ line' = [line EXCEPT ![id].status = "done"]
        /\ UNCHANGED <<cells, selectedCell, followLatest, strip, run, response, asked, overlapped>>
        /\ IF Stale(line[id]) THEN UNCHANGED <<pane, output, infos>>
           ELSE ShowAnswer(line[id].sid, id)
    BY DEF LineAnswers, Filled, Steady, mode, ids, scripts
  <1>1. line \in Seq(LineRecords) /\ line[id] \in LineRecords /\ Owned(line[id])
    BY LineFacts DEF SInv, SLines
  <1>2. /\ line' \in Seq(LineRecords) /\ DOMAIN line' = DOMAIN line /\ Len(line') = Len(line)
        /\ \A i \in DOMAIN line : /\ line'[i].lang = line[i].lang /\ line'[i].sid = line[i].sid
                                  /\ line'[i].gen = line[i].gen
                                  /\ i # id => line'[i] = line[i]
    <2>1. [line[id] EXCEPT !.status = "done"] \in LineRecords
      BY <1>1 DEF LineRecords
    <2>2. line' = [line EXCEPT ![id] = [line[id] EXCEPT !.status = "done"]]
      BY <1>0
    <2>3. line' \in Seq(LineRecords) /\ DOMAIN line' = DOMAIN line /\ Len(line') = Len(line)
      BY <1>1, <2>1, <2>2
    <2>4. \A i \in DOMAIN line : line'[i] = IF i = id THEN [line[id] EXCEPT !.status = "done"] ELSE line[i]
      BY <1>1, <2>2
    <2>5. /\ [line[id] EXCEPT !.status = "done"].lang = line[id].lang
          /\ [line[id] EXCEPT !.status = "done"].sid = line[id].sid
          /\ [line[id] EXCEPT !.status = "done"].gen = line[id].gen
      BY <1>1 DEF LineRecords
    <2> QED
      BY <2>3, <2>4, <2>5
  <1>3. SLines'
    <2>1. \A c \in Range(line)' : \E i \in DOMAIN line : c = line'[i]
      BY <1>2 DEF Range
    <2>2. \A i \in DOMAIN line : \A c : c = line'[i] => Owned(c) /\ c.gen <= generation
      BY <1>2, LineFacts DEF SInv, Owned
    <2>3. \A c : Owned(c)' <=> Owned(c)
      BY <1>0, SteadyGives DEF SInv
    <2> QED
      BY <1>0, <1>2, <2>1, <2>2, <2>3 DEF SInv, SLines, Steady
  <1>4. SLogs'
    BY <1>0, <1>2 DEF SInv, SLogs, Steady
  <1>5. CASE Stale(line[id])
    <2>1. UNCHANGED <<pane, output, infos>>
      BY <1>0, <1>5
    <2>2. ASSUME NEW row, RowIsFresh(row) PROVE RowIsFresh(row)'
      <3>1. \A i \in DOMAIN line : \A c : c = line'[i] => (Stale(c)' <=> Stale(line[i]))
        BY <1>0, <1>2 DEF Stale, Steady
      <3>2. row.id \in DOMAIN line /\ line[row.id].sid = pane.sid
        BY <2>2 DEF RowIsFresh
      <3>3. row.id = id => ~(row.status = "pending" /\ line[id].gen = generation)
        BY <1>5, <2>2 DEF RowIsFresh
      <3>4. row.id # id => line'[row.id] = line[row.id]
        BY <1>2, <3>2
      <3>5. ASSUME row.status = "pending", line'[row.id].gen = generation'
            PROVE  line'[row.id].status = "pending" /\ \A c : c = line'[row.id] => ~Stale(c)'
        <4>1. line[row.id].gen = generation
          BY <1>0, <1>2, <3>2, <3>5 DEF Steady
        <4>2. row.id # id /\ line[row.id].status = "pending" /\ ~Stale(line[row.id])
          BY <2>2, <3>3, <3>5, <4>1 DEF RowIsFresh
        <4> QED
          BY <3>1, <3>2, <3>4, <4>2
      <3> QED
        BY <1>2, <2>1, <3>2, <3>5 DEF RowIsFresh, Stale
    <2>3. SPane'
      BY <1>0, <2>1, <2>2, SteadyKeeps DEF SInv, SPane, PaneIsCurrent
    <2>4. sessionId \in Sids
      BY BoundFits DEF SInv, SFits
    <2>5. selectedCell[sessionId] = id => line[id].gen # generation
      <3>1. id # NoId
        BY LineFacts DEF SInv, NoId, Ids
      <3>2. selectedCell[sessionId] = id => line[id].sid = sessionId
        BY <2>4, <3>1 DEF SInv, SLogs
      <3>3. line[id].sid = sessionId => line[id].lang = language
        BY <1>1 DEF SInv, SIds, Owned, sessionId
      <3> QED
        BY <1>5, <3>2, <3>3 DEF Stale, sessionId
    <2>6. SOutput'
      <3>1. OutputIsFresh /\ (output.status = "pending" => output.id \in DOMAIN line)
        BY DEF SInv, SOutput
      <3>2. output.status = "pending" /\ selectedCell[sessionId] = output.id
              /\ line[output.id].gen = generation => output.id # id
        BY <2>5
      <3> QED
        BY <1>0, <1>2, <2>1, <3>1, <3>2, SteadyKeeps DEF SOutput, OutputIsFresh, Steady
    <2> QED
      BY <1>0, <1>3, <1>4, <2>1, <2>3, <2>6, SteadyKeeps DEF SInv
  <1>6. CASE ~Stale(line[id])
    <2> DEFINE sid == line[id].sid
    <2>1. /\ renderReplLog(sid) /\ refreshSessionInfo
          /\ IF selectedCell[sid] = id THEN display ELSE output' = output
      BY <1>0, <1>6 DEF ShowAnswer
    <2>2. sid = sessionId /\ sid \in Sids
      BY <1>1, <1>6 DEF Stale, sessionId, LineRecords
    <2>3. pane'.sid = sid /\ \A row \in Range(pane.rows)' : RowIsFresh(row)'
      BY <1>0, <1>3, <1>4, <2>1, <2>2, SteadyKeeps, RenderFresh
    <2>4. SPane'
      BY <1>0, <2>2, <2>3, SteadyKeeps DEF SPane, PaneIsCurrent
    <2>5. SOutput'
      <3>1. CASE selectedCell[sid] = id
        BY <1>0, <1>4, <2>1, <3>1, SteadyKeeps, DisplayFresh
      <3>2. CASE selectedCell[sid] # id
        <4>1. OutputIsFresh /\ (output.status = "pending" => output.id \in DOMAIN line)
          BY DEF SInv, SOutput
        <4>2. output' = output
          BY <2>1, <3>2
        <4> QED
          BY <1>0, <1>2, <2>2, <3>2, <4>1, <4>2, SteadyKeeps DEF SOutput, OutputIsFresh, Steady
      <3> QED
        BY <3>1, <3>2
    <2>6. SStrip'
      <3>1. infos' \subseteq [lang : Languages, sid : Sids]
        BY <1>0, <2>1, SteadyKeeps, InfosTyped DEF SInv, SStrip
      <3> QED
        BY <1>0, <3>1, SteadyKeeps DEF SInv, SStrip, StripIsCurrent
    <2> QED
      BY <1>0, <1>3, <1>4, <2>4, <2>5, <2>6, SteadyKeeps DEF SInv
  <1> QED
    BY <1>5, <1>6

\* A row on screen is of the current session's log: one of another is empty.
LEMMA SelectCellStep ==
  ASSUME SInv, NEW id \in DOMAIN line, selectCell(id)
  PROVE  SInv'
  <1> DEFINE sid == pane.sid
  <1>0. /\ Steady /\ UNCHANGED <<cells, line, strip, infos, run, response, asked, overlapped>>
        /\ InRepl /\ \E row \in Range(pane.rows) : row.id = id
        /\ selectedCell' = [selectedCell EXCEPT ![sid] = id]
        /\ followLatest' = [followLatest EXCEPT ![sid] =
                              cells[sid] # <<>> /\ Last(cells[sid]) = id]
        /\ renderReplLog(sid)
        /\ IF sid = sessionId THEN display ELSE output' = output
    BY DEF selectCell, Steady, mode, ids, scripts
  <1>1. line[id].sid = sid
    BY <1>0 DEF SInv, SPane, RowIsFresh
  <1>2. sid = sessionId
    <2>1. pane.rows # <<>>
      BY <1>0 DEF Range
    <2> QED
      BY <1>0, <2>1 DEF SInv, SPane
  <1>3. sid \in Sids
    BY <1>2, BoundFits DEF SInv, SFits
  <1>4. SLogs'
    <2>1. selectedCell' \in [Sids -> Ids \cup {NoId}] /\ followLatest' \in [Sids -> BOOLEAN]
      BY <1>0, LineFacts DEF SInv, SLogs
    <2>2. \A s \in Sids : selectedCell'[s] = IF s = sid THEN id ELSE selectedCell[s]
      BY <1>0 DEF SInv, SLogs
    <2> QED
      BY <1>0, <1>1, <2>1, <2>2 DEF SInv, SLogs, Steady
  <1>5. pane'.sid = sid /\ \A row \in Range(pane.rows)' : RowIsFresh(row)'
    BY <1>0, <1>2, <1>3, <1>4, SteadyKeeps, RenderFresh
  <1>6. SPane'
    BY <1>0, <1>2, <1>3, <1>5, SteadyKeeps DEF SPane, PaneIsCurrent
  <1>7. SOutput'
    BY <1>0, <1>2, <1>4, SteadyKeeps, DisplayFresh
  <1> QED
    BY <1>0, <1>4, <1>6, <1>7, SteadyKeeps DEF SInv

\* A line that is submitted is the newest of its log, of the session shown.
LEMMA ReplLineStep ==
  ASSUME SInv, runReplCell
  PROVE  SInv'
  <1> DEFINE id   == Len(line) + 1
             sid  == sessionId
             new  == [lang |-> language, sid |-> sid, gen |-> generation, status |-> "pending"]
             kept == Recent(cells[sid])
  <1>0. /\ Steady /\ UNCHANGED <<followLatest, strip, infos, run, response, asked, overlapped>>
        /\ id \in Ids /\ line' = Append(line, new)
        /\ cells' = [cells EXCEPT ![sid] = Append(kept, id)]
        /\ selectedCell' = [selectedCell EXCEPT ![sid] =
                              IF followLatest[sid] THEN id ELSE selectedCell[sid]]
        /\ renderReplLog(sid)
        /\ IF followLatest[sid] THEN display ELSE output' = output
    BY DEF runReplCell, Steady, mode, ids, scripts
  <1>1. sid \in Sids /\ SFits
    BY BoundFits DEF SInv, SFits
  <1>2. new \in LineRecords /\ new.sid = sid /\ new.gen = generation /\ line \in Seq(LineRecords)
    BY <1>1 DEF SInv, SIds, SLines, LineRecords
  <1> HIDE DEF new
  <1>3. /\ line' \in Seq(LineRecords) /\ Len(line') = id /\ line'[id] = new
        /\ DOMAIN line' = DOMAIN line \cup {id} /\ id \notin DOMAIN line
        /\ \A i \in DOMAIN line : line'[i] = line[i]
    BY <1>0, <1>2
  <1>4. id \in Nat \ {0} /\ id <= Lines
    BY <1>0, LanguagesAssumption DEF Ids
  <1>5. SLines'
    <2>1. Owned(new) /\ new.gen <= generation
      <3>1. new.sid <= minted /\ new.lang = language
        BY <1>2 DEF new, SInv, SIds, sessionId
      <3>2. \A l \in Languages : sessionIds[l] = new.sid => l = new.lang
        BY <1>2, <3>1 DEF SInv, SIds, sessionId
      <3>3. generation \in Nat
        BY LanguagesAssumption DEF SInv, SIds
      <3> QED
        BY <1>2, <3>1, <3>2, <3>3 DEF Owned
    <2>2. \A c \in Range(line)' : c = new \/ c \in Range(line)
      BY <1>3 DEF Range
    <2>3. \A c : Owned(c)' <=> Owned(c)
      BY <1>0, SteadyGives DEF SInv
    <2> QED
      BY <1>0, <1>3, <1>4, <2>1, <2>2, <2>3 DEF SInv, SLines, Steady
  <1>6. /\ kept \in Seq(Ids) /\ Len(kept) < MAX_CELLS
        /\ \A i \in DOMAIN kept : \E j \in DOMAIN cells[sid] : kept[i] = cells[sid][j]
    <2>1. cells[sid] \in Seq(Ids) /\ Len(cells[sid]) <= MAX_CELLS
      BY <1>1 DEF SInv, SLogs
    <2>2. CASE Len(cells[sid]) = MAX_CELLS
      <3>1. kept = Tail(cells[sid]) /\ cells[sid] # <<>>
        BY <2>1, <2>2, LanguagesAssumption DEF Recent
      <3> HIDE DEF kept
      <3>2. /\ kept \in Seq(Ids) /\ Len(kept) = Len(cells[sid]) - 1
            /\ \A i \in 1..Len(kept) : kept[i] = cells[sid][i + 1] /\ i + 1 \in 1..Len(cells[sid])
        BY <2>1, <3>1
      <3> QED
        BY <2>1, <2>2, <3>2, LanguagesAssumption
    <2>3. CASE Len(cells[sid]) # MAX_CELLS
      <3>1. kept = cells[sid]
        BY <2>3 DEF Recent
      <3> HIDE DEF kept
      <3> QED
        BY <2>1, <2>3, <3>1, LanguagesAssumption
    <2> QED
      BY <2>2, <2>3
  <1> HIDE DEF kept
  <1>7. /\ Append(kept, id) \in Seq(Ids) /\ Len(Append(kept, id)) <= MAX_CELLS
        /\ \A i \in DOMAIN Append(kept, id) :
             Append(kept, id)[i] \in DOMAIN line' /\ line'[Append(kept, id)[i]].sid = sid
    <2>1. Append(kept, id) \in Seq(Ids) /\ Len(Append(kept, id)) <= MAX_CELLS
      BY <1>0, <1>6, LanguagesAssumption
    <2>2. \A i \in DOMAIN Append(kept, id) :
            Append(kept, id)[i] = id \/ \E j \in DOMAIN cells[sid] : Append(kept, id)[i] = cells[sid][j]
      BY <1>0, <1>6
    <2>3. \A j \in DOMAIN cells[sid] : cells[sid][j] \in DOMAIN line /\ line[cells[sid][j]].sid = sid
      BY <1>1 DEF SInv, SLogs
    <2> QED
      BY <1>2, <1>3, <2>1, <2>2, <2>3
  <1>8. SLogs'
    <2>1. /\ cells' \in [Sids -> Seq(Ids)] /\ selectedCell' \in [Sids -> Ids \cup {NoId}]
          /\ followLatest' \in [Sids -> BOOLEAN]
      BY <1>0, <1>1, <1>7 DEF SInv, SLogs
    <2>2. \A s \in Sids :
            /\ cells'[s] = IF s = sid THEN Append(kept, id) ELSE cells[s]
            /\ selectedCell'[s] = IF s = sid /\ followLatest[sid] THEN id ELSE selectedCell[s]
      BY <1>0 DEF SInv, SLogs
    <2>3. ~(sid > minted)
      BY DEF SInv, SIds, sessionId
    <2>4. ASSUME NEW s \in Sids
          PROVE  /\ Len(cells'[s]) <= MAX_CELLS
                 /\ \A i \in DOMAIN cells'[s] :
                      cells'[s][i] \in DOMAIN line' /\ line'[cells'[s][i]].sid = s
                 /\ s > minted' => cells'[s] = <<>>
                 /\ selectedCell'[s] # NoId =>
                      selectedCell'[s] \in DOMAIN line' /\ line'[selectedCell'[s]].sid = s
      <3>1. selectedCell[s] # NoId => selectedCell[s] \in DOMAIN line /\ line[selectedCell[s]].sid = s
        BY DEF SInv, SLogs
      <3>2. selectedCell'[s] # NoId =>
              selectedCell'[s] \in DOMAIN line' /\ line'[selectedCell'[s]].sid = s
        BY <1>2, <1>3, <2>2, <3>1
      <3>3. CASE s = sid
        <4>1. cells'[s] = Append(kept, id) /\ minted' = minted
          BY <1>0, <2>2, <3>3 DEF Steady
        <4> QED
          BY <1>7, <2>3, <3>2, <3>3, <4>1
      <3>4. CASE s # sid
        <4>1. cells'[s] = cells[s] /\ minted' = minted
          BY <1>0, <2>2, <3>4 DEF Steady
        <4>2. /\ Len(cells[s]) <= MAX_CELLS
              /\ \A i \in DOMAIN cells[s] : cells[s][i] \in DOMAIN line /\ line[cells[s][i]].sid = s
              /\ s > minted => cells[s] = <<>>
          BY DEF SInv, SLogs
        <4> QED
          BY <1>3, <3>2, <4>1, <4>2
      <3> QED
        BY <3>3, <3>4
    <2> QED
      BY <2>1, <2>4 DEF SLogs
  <1>9. pane'.sid = sid /\ \A row \in Range(pane.rows)' : RowIsFresh(row)'
    BY <1>0, <1>1, <1>5, <1>8, SteadyKeeps, RenderFresh
  <1>10. SPane'
    BY <1>0, <1>1, <1>9, SteadyKeeps DEF SPane, PaneIsCurrent
  <1>11. SOutput'
    <2>1. CASE followLatest[sid]
      BY <1>0, <1>8, <2>1, SteadyKeeps, DisplayFresh
    <2>2. CASE ~followLatest[sid]
      <3>1. output' = output
        BY <1>0, <2>2
      <3>2. selectedCell'[sid] = selectedCell[sid]
        BY <1>0, <1>1, <2>2 DEF SInv, SLogs
      <3>3. OutputIsFresh /\ (output.status = "pending" => output.id \in DOMAIN line)
        BY DEF SInv, SOutput
      <3> QED
        BY <1>0, <1>3, <3>1, <3>2, <3>3, SteadyKeeps DEF SOutput, OutputIsFresh, Steady
    <2> QED
      BY <2>1, <2>2
  <1> QED
    BY <1>0, <1>5, <1>8, <1>10, <1>11, SteadyKeeps DEF SInv

\* The page opens with one session, its logs empty.
LEMMA SessionsInit == Init => SInv
  <1> SUFFICES ASSUME Init PROVE SInv
    OBVIOUS
  <1>0. First \in Languages /\ IsFiniteSet(Languages) /\ Generations \in Nat /\ Lines \in Nat
        /\ MAX_CELLS \in Nat \ {0}
    BY LanguagesAssumption
  <1>1. SIds
    BY <1>0 DEF Init, SIds, sessionId
  <1>2. SBound
    <2>1. asked = {} /\ minted = 1 /\ generation = 0
      BY DEF Init
    <2>2. Unused = Languages \ {First}
      BY <1>0 DEF Init, Unused
    <2>3. AskedNew = {}
      BY <2>1 DEF AskedNew
    <2>4. Cardinality(Unused) = Cardinality(Languages) - 1 /\ Cardinality(Languages) \in Nat
      BY <1>0, <2>2, FS_RemoveElement, FS_CardinalityType
    <2>5. IsFiniteSet(asked) /\ Cardinality(AskedNew) = 0
      BY <2>1, <2>3, FS_EmptySet
    <2> QED
      BY <2>1, <2>4, <2>5 DEF SBound
  <1>3. SLines
    BY <1>0 DEF Init, SLines, Range
  <1>4. SLogs
    BY <1>0 DEF Init, SLogs
  <1>5. SPane
    BY DEF Init, SPane, PaneIsCurrent, InRepl, IsRepl, Range
  <1>6. SOutput /\ SStrip /\ SAsked
    BY <1>0, <1>1, <1>2, BoundFits DEF Init, SOutput, OutputIsFresh, SStrip, StripIsCurrent, SAsked,
       SFits, sessionId
  <1>7. SRuns
    BY DEF Init, SRuns, ResponseIsCurrent
  <1> QED
    BY <1>1, <1>2, <1>3, <1>4, <1>5, <1>6, <1>7 DEF SInv

\* Every step of the page keeps the invariant.
LEMMA SessionsStep == SInv /\ [Next]_vars => SInv'
  <1> SUFFICES ASSUME SInv, [Next]_vars PROVE SInv'
    OBVIOUS
  <1>1. CASE UNCHANGED vars
    <2>1. /\ Steady /\ UNCHANGED <<cells, line, selectedCell, followLatest, pane, output, strip,
                                   infos, run, response, asked, overlapped>>
      BY <1>1 DEF vars, mode, ids, logs, screen, scripts, Steady
    <2> QED
      BY <2>1, SteadyKeeps DEF SInv
  <1> QED
    BY <1>1, SwitchLanguageStep, SetModeStep, SelectPaneStep, RunScriptStep, ScriptAnswersStep,
       ReplLineStep, LineAnswersStep, SelectCellStep, StatusAnswersStep, ReplClearStep, AskStep,
       NewSessionStep, ResetStep DEF Next

\* What the invariant says in the terms of the model.
LEMMA ShownFromInvariant == SInv => ShownIsCurrent
  <1> SUFFICES ASSUME SInv PROVE ShownIsCurrent
    OBVIOUS
  <1>1. SFits
    BY BoundFits DEF SInv
  <1>2. TypeOK
    <2>1. sessionIds \in [Languages -> Sids \cup {0}]
      BY <1>1 DEF SInv, SIds, SFits
    <2> QED
      BY <1>1, <2>1 DEF SInv, SIds, SFits, SLines, LineRecords, SLogs, SPane, SStrip, SRuns,
         SAsked, TypeOK
  <1>3. PendingRowsArePending
    BY DEF SInv, SPane, RowIsFresh, PendingRowsArePending
  <1> QED
    BY <1>2, <1>3 DEF SInv, SPane, SOutput, SStrip, SRuns, ShownIsCurrent

\* All the page shows of its requests belongs to the language and the session
\* shown, whatever answers come back and in whatever order, with any number of
\* languages, sessions and lines.
THEOREM ShownBelongs == Spec => []ShownIsCurrent
  BY SessionsInit, SessionsStep, ShownFromInvariant, PTL DEF Spec
================================================================================
