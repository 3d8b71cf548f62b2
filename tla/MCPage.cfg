SPECIFICATION MCSpec
CONSTANTS
  javascript = javascript
  python = python
  ruby = ruby
  a = a
  b = b
  x = x
  NONE = NONE
  Parts = {"sessions", "editor"}
  Languages = {javascript, python}
  NoRepl = {}
  First = javascript
  MAX_CELLS = 1
  Generations = 2
  Lines = 2
  EditorLanguages = {javascript, ruby}
  EditorNoRepl = {ruby}
  Examples <- FewExamples
  Cells = 2
  Variants = 1
  Blank = Blank
  Paths = {a}
  Contents = {x}
  MaxSessions = 1
  InFlight = 1
CHECK_DEADLOCK FALSE
INVARIANTS
  ShownIsCurrent
  EditorIsCoherent
PROPERTIES
  EverythingIsAnswered
